---------------------------- MODULE AkypueraProofs ----------------------------
(***************************************************************************)
(* What the wrappers of libaky remember of requests, for any number of     *)
(* ranks, communicators, requests and calls, while the library below       *)
(* matches messages at any time and the converter reads the trace.         *)
(***************************************************************************)
EXTENDS Akypuera, TLAPS

AllCalls == UNION {Calls[r] : r \in Ranks}
Finalize == [op |-> "MPI_Finalize"]
Slots == Reqs \cup {Blocking}

Messages == {NoMsg} \cup {<<"ptp", r, k>> : r \in Ranks, k \in Nat}
Sources == Ranks \cup {AnySource} \cup {CommRank(c, s) : c \in DOMAIN Comms, s \in Ranks}
Request == [st : {"null", "posted", "arrived", "send", "isend"}, src : Sources,
            msg : Messages, mark : Nat]
NetMessage == [comm : DOMAIN Comms, tag : {c.tag : c \in AllCalls}, msg : Messages]
Receive == [slot : Slots, comm : DOMAIN Comms, tag : {c.tag : c \in AllCalls},
            src : {AKY_translate_rank(c.comm, c.peer) : c \in AllCalls}]
Trees == UNION {[S -> Nat] : S \in SUBSET Reqs}

RequestsTypeOK ==
  /\ pc \in [Ranks -> {"start", "app", "call", "end"}]
  /\ call \in [Ranks -> AllCalls \cup {NoCall, Finalize}]
  /\ ncalls \in [Ranks -> Nat]
  /\ send_mark \in [Ranks -> Nat]
  /\ irecv_root \in [Ranks -> Trees]
  /\ isend_root \in [Ranks -> Trees]
  /\ nsent \in [Ranks -> Nat]
  /\ net \in [Ranks -> [Ranks -> Seq(NetMessage)]]
  /\ posted \in [Ranks -> Seq(Receive)]
  /\ request \in [Ranks -> [Slots -> Request]]

Within(r, ops) == pc[r] = "call" /\ call[r].op \in ops

\* A rank is in one of its own calls, or in MPI_Finalize.
CallsAreOwn ==
  \A r \in Ranks :
    IF pc[r] = "call" THEN call[r] \in Calls[r] \cup {Finalize} ELSE call[r] = NoCall

\* The receives that wait for a message are those whose request says so, one each; the
\* slot without a request is in use during a call that blocks.
PostedOnce ==
  \A r \in Ranks : \A i, j \in DOMAIN posted[r] :
    posted[r][i].slot = posted[r][j].slot => i = j
PostedWait ==
  \A r \in Ranks : \A i \in DOMAIN posted[r] : request[r][posted[r][i].slot].st = "posted"
BlockingUse ==
  \A r \in Ranks :
    ~Within(r, {"MPI_Recv"} \cup SendrecvOps) => request[r][Blocking].st = "null"

\* send_mark counts the sends that returned.
MarksCountSends ==
  \A r \in Ranks :
    /\ send_mark[r] + (IF Within(r, SendOps) THEN 1 ELSE 0) <= ncalls[r]
    /\ ncalls[r] <= MaxCalls

RequestsInv ==
  RequestsTypeOK /\ CallsAreOwn /\ PostedOnce /\ PostedWait /\ BlockingUse /\ MarksCountSends

-----------------------------------------------------------------------------
LEMMA RequestsInvInit ==
  ASSUME TracerInit
  PROVE  RequestsInv
<1> USE DEF TracerInit, MpiInit
<1>1. NoTree \in Trees
  <2>1. NoTree \in [{} -> Nat] /\ {} \in SUBSET Reqs
    BY DEF NoTree
  <2> QED
    BY <2>1 DEF Trees
<1>2. Null \in Request
  BY DEF Null, Request, Sources, Messages, NoMsg, AnySource
<1>3. RequestsTypeOK
  BY <1>1, <1>2 DEF RequestsTypeOK, Slots
<1>4. CallsAreOwn /\ PostedOnce /\ PostedWait
  BY DEF CallsAreOwn, PostedOnce, PostedWait
<1>5. BlockingUse
  BY DEF BlockingUse, Null
<1>6. MarksCountSends
  BY TracerAssumption DEF MarksCountSends, Within
<1> QED
  BY <1>3, <1>4, <1>5, <1>6 DEF RequestsInv

-----------------------------------------------------------------------------
\* A call begins: the rank was in none.
LEMMA EnterShape ==
  ASSUME RequestsTypeOK, CallsAreOwn, NEW r \in Ranks,
         NEW c \in Calls[r], NEW events, Enter(r, c, events)
  PROVE  /\ pc[r] = "app" /\ pc'[r] = "call" /\ call'[r] = c
         /\ \A q \in Ranks \ {r} : pc'[q] = pc[q] /\ call'[q] = call[q] /\ ncalls'[q] = ncalls[q]
         /\ ncalls'[r] = ncalls[r] + 1 /\ ncalls'[r] <= MaxCalls
         /\ pc' \in [Ranks -> {"start", "app", "call", "end"}]
         /\ call' \in [Ranks -> AllCalls \cup {NoCall, Finalize}]
         /\ ncalls' \in [Ranks -> Nat]
         /\ CallsAreOwn'
<1>1. c \in AllCalls
  BY DEF AllCalls
<1>2. /\ pc[r] = "app" /\ ncalls[r] < MaxCalls /\ ncalls[r] \in Nat /\ MaxCalls \in Nat
      /\ pc' = [pc EXCEPT ![r] = "call"] /\ call' = [call EXCEPT ![r] = c]
      /\ ncalls' = [ncalls EXCEPT ![r] = ncalls[r] + 1]
  BY TracerAssumption DEF Enter, RequestsTypeOK
<1>3. /\ pc'[r] = "call" /\ call'[r] = c
      /\ \A q \in Ranks \ {r} : pc'[q] = pc[q] /\ call'[q] = call[q] /\ ncalls'[q] = ncalls[q]
      /\ ncalls'[r] = ncalls[r] + 1 /\ ncalls'[r] <= MaxCalls
  BY <1>2 DEF RequestsTypeOK
<1>4. /\ pc' \in [Ranks -> {"start", "app", "call", "end"}]
      /\ call' \in [Ranks -> AllCalls \cup {NoCall, Finalize}]
      /\ ncalls' \in [Ranks -> Nat]
  BY <1>1, <1>2 DEF RequestsTypeOK
<1>5. CallsAreOwn'
  BY <1>3 DEF CallsAreOwn
<1> QED
  BY <1>2, <1>3, <1>4, <1>5

\* A call returns.
LEMMA LeaveShape ==
  ASSUME RequestsTypeOK, CallsAreOwn, NEW r \in Ranks, NEW events, Leave(r, events)
  PROVE  /\ pc[r] = "call" /\ pc'[r] = "app" /\ call[r] \in Calls[r] \cup {Finalize}
         /\ \A q \in Ranks \ {r} : pc'[q] = pc[q] /\ call'[q] = call[q]
         /\ ncalls' = ncalls
         /\ pc' \in [Ranks -> {"start", "app", "call", "end"}]
         /\ call' \in [Ranks -> AllCalls \cup {NoCall, Finalize}]
         /\ CallsAreOwn'
<1>1. /\ pc[r] = "call" /\ ncalls' = ncalls
      /\ pc' = [pc EXCEPT ![r] = "app"] /\ call' = [call EXCEPT ![r] = NoCall]
  BY DEF Leave
<1>2. /\ pc'[r] = "app" /\ call'[r] = NoCall
      /\ \A q \in Ranks \ {r} : pc'[q] = pc[q] /\ call'[q] = call[q]
  BY <1>1 DEF RequestsTypeOK
<1>3. /\ pc' \in [Ranks -> {"start", "app", "call", "end"}]
      /\ call' \in [Ranks -> AllCalls \cup {NoCall, Finalize}]
  BY <1>1 DEF RequestsTypeOK
<1>4. CallsAreOwn'
  BY <1>2 DEF CallsAreOwn
<1> QED
  BY <1>1, <1>2, <1>3, <1>4 DEF CallsAreOwn

\* The steps that leave requests and messages alone.
LEMMA QuietKeeps ==
  ASSUME RequestsInv, NEW r \in Ranks,
         UNCHANGED <<send_mark, irecv_root, nsent, net, posted, request>>,
         isend_root' \in [Ranks -> Trees],
         \A q \in Ranks \ {r} : pc'[q] = pc[q] /\ call'[q] = call[q] /\ ncalls'[q] = ncalls[q],
         pc' \in [Ranks -> {"start", "app", "call", "end"}],
         call' \in [Ranks -> AllCalls \cup {NoCall, Finalize}], ncalls' \in [Ranks -> Nat],
         ncalls[r] <= ncalls'[r], ncalls'[r] <= MaxCalls,
         ~Within(r, {"MPI_Recv"} \cup SendrecvOps \cup SendOps),
         ~Within(r, SendOps)', CallsAreOwn'
  PROVE  RequestsInv'
<1>1. RequestsTypeOK' /\ PostedOnce' /\ PostedWait'
  BY DEF RequestsInv, RequestsTypeOK, PostedOnce, PostedWait
<1>2. BlockingUse'
  BY DEF RequestsInv, BlockingUse, Within
<1>3. MarksCountSends'
  <2>1. /\ send_mark' = send_mark
        /\ \A q \in Ranks : send_mark[q] \in Nat /\ ncalls[q] \in Nat /\ ncalls'[q] \in Nat
    BY DEF RequestsInv, RequestsTypeOK
  <2> SUFFICES ASSUME NEW q \in Ranks
               PROVE  /\ send_mark[q] + (IF Within(q, SendOps)' THEN 1 ELSE 0) <= ncalls'[q]
                      /\ ncalls'[q] <= MaxCalls
    BY <2>1 DEF MarksCountSends
  <2>2. /\ send_mark[q] + (IF Within(q, SendOps) THEN 1 ELSE 0) <= ncalls[q]
        /\ ncalls[q] <= MaxCalls
    BY DEF RequestsInv, MarksCountSends
  <2>3. CASE q = r
    BY <2>1, <2>2, <2>3 DEF Within
  <2>4. CASE q # r
    BY <2>2, <2>4 DEF Within
  <2> QED
    BY <2>3, <2>4
<1> QED
  BY <1>1, <1>2, <1>3 DEF RequestsInv

-----------------------------------------------------------------------------
\* The wrappers that record nothing of requests and messages.
QuietOps == {"MPI_Waitall", "MPI_Waitany", "MPI_Wait", "MPI_Finalize"}
  \cup TestOps \cup DownOps \cup UpOps \cup PlainOps
MovingOps == {"MPI_Recv", "MPI_Irecv"} \cup SendOps \cup SendrecvOps

LEMMA OpsApart == QuietOps \cap MovingOps = {}
<1> USE DEF MovingOps, SendOps, SendrecvOps, BlockingSends, ForgottenSends
<1>1. ({"MPI_Waitall", "MPI_Waitany", "MPI_Wait", "MPI_Finalize"}
         \cup TestOps \cup DownOps \cup UpOps) \cap MovingOps = {}
  BY DEF TestOps, DownOps, UpOps
<1>2. /\ PlainCollectives \cap MovingOps = {} /\ PlainReductions \cap MovingOps = {}
      /\ PlainComms \cap MovingOps = {} /\ PlainGroups \cap MovingOps = {}
  BY DEF PlainCollectives, PlainReductions, PlainComms, PlainGroups
<1>3. /\ PlainEnvironment \cap MovingOps = {} /\ PlainQueries \cap MovingOps = {}
      /\ PlainBuffers \cap MovingOps = {} /\ PlainPacks \cap MovingOps = {}
  BY DEF PlainEnvironment, PlainQueries, PlainBuffers, PlainPacks
<1>4. /\ PlainStarts \cap MovingOps = {} /\ PlainOthers \cap MovingOps = {}
      /\ PlainTypes \cap MovingOps = {} /\ PlainTopology \cap MovingOps = {}
      /\ PlainGraphs \cap MovingOps = {}
  BY DEF PlainStarts, PlainOthers, PlainTypes, PlainTopology, PlainGraphs
<1> HIDE DEF MovingOps
<1>5. PlainOps \cap MovingOps = {}
  BY <1>2, <1>3, <1>4 DEF PlainOps
<1> QED
  BY <1>1, <1>5 DEF QuietOps

LEMMA PlainApart == "MPI_Wait" \notin PlainOps /\ "MPI_Finalize" \notin PlainOps
<1> DEFINE two == {"MPI_Wait", "MPI_Finalize"}
<1>1. /\ PlainCollectives \cap two = {} /\ PlainReductions \cap two = {}
      /\ PlainComms \cap two = {} /\ PlainGroups \cap two = {}
  BY DEF PlainCollectives, PlainReductions, PlainComms, PlainGroups
<1>2. /\ PlainEnvironment \cap two = {} /\ PlainQueries \cap two = {}
      /\ PlainBuffers \cap two = {} /\ PlainPacks \cap two = {}
  BY DEF PlainEnvironment, PlainQueries, PlainBuffers, PlainPacks
<1>3. /\ PlainStarts \cap two = {} /\ PlainOthers \cap two = {}
      /\ PlainTypes \cap two = {} /\ PlainTopology \cap two = {} /\ PlainGraphs \cap two = {}
  BY DEF PlainStarts, PlainOthers, PlainTypes, PlainTopology, PlainGraphs
<1> QED
  BY <1>1, <1>2, <1>3 DEF PlainOps

\* They keep what is known of requests.
LEMMA QuietEnterKeeps ==
  ASSUME RequestsInv, NEW r \in Ranks, NEW c \in Calls[r],
         c.op \in QuietOps, NEW events, Enter(r, c, events),
         UNCHANGED <<send_mark, irecv_root, nsent, net, posted, request>>,
         isend_root' \in [Ranks -> Trees]
  PROVE  RequestsInv'
<1>1. RequestsTypeOK /\ CallsAreOwn
  BY DEF RequestsInv
<1>2. ~Within(r, {"MPI_Recv"} \cup SendrecvOps \cup SendOps)
  BY <1>1, EnterShape DEF Within
<1>3. ~Within(r, SendOps)'
  BY <1>1, EnterShape, OpsApart DEF Within, MovingOps
<1>4. ncalls[r] <= ncalls'[r] /\ ncalls'[r] <= MaxCalls
  <2>1. ncalls[r] \in Nat
    BY <1>1 DEF RequestsTypeOK
  <2> QED
    BY <1>1, <2>1, EnterShape
<1> QED
  BY <1>1, <1>2, <1>3, <1>4, EnterShape, QuietKeeps

LEMMA QuietLeaveKeeps ==
  ASSUME RequestsInv, NEW r \in Ranks, call[r].op \in QuietOps, NEW events, Leave(r, events),
         UNCHANGED <<send_mark, irecv_root, isend_root, nsent, net, posted, request>>
  PROVE  RequestsInv'
<1>1. RequestsTypeOK /\ CallsAreOwn
  BY DEF RequestsInv
<1>2. ~Within(r, {"MPI_Recv"} \cup SendrecvOps \cup SendOps)
  BY OpsApart DEF Within, MovingOps
<1>3. ~Within(r, SendOps)'
  BY <1>1, LeaveShape DEF Within
<1>4. ncalls[r] <= ncalls'[r] /\ ncalls'[r] <= MaxCalls /\ ncalls' = ncalls
  BY <1>1, LeaveShape DEF RequestsInv, MarksCountSends, RequestsTypeOK
<1> QED
  BY <1>1, <1>2, <1>3, <1>4, LeaveShape, QuietKeeps DEF RequestsTypeOK

LEMMA InitKeeps ==
  ASSUME RequestsInv, NEW r \in Ranks, InitCall(r)
  PROVE  RequestsInv'
<1>1. /\ pc[r] = "start" /\ pc' = [pc EXCEPT ![r] = "app"] /\ UNCHANGED <<call, ncalls>>
      /\ UNCHANGED <<send_mark, irecv_root, isend_root, nsent, net, posted, request>>
  BY DEF InitCall, mpiVars
<1>2. /\ pc \in [Ranks -> {"start", "app", "call", "end"}]
      /\ call \in [Ranks -> AllCalls \cup {NoCall, Finalize}]
      /\ ncalls \in [Ranks -> Nat] /\ isend_root \in [Ranks -> Trees]
      /\ ncalls[r] <= MaxCalls /\ CallsAreOwn
  BY DEF RequestsInv, RequestsTypeOK, MarksCountSends
<1>3. /\ pc'[r] = "app" /\ \A q \in Ranks \ {r} : pc'[q] = pc[q]
      /\ pc' \in [Ranks -> {"start", "app", "call", "end"}]
  BY <1>1, <1>2
<1>4. CallsAreOwn'
  BY <1>1, <1>2, <1>3 DEF CallsAreOwn
<1>5. ~Within(r, {"MPI_Recv"} \cup SendrecvOps \cup SendOps) /\ ~Within(r, SendOps)'
  BY <1>1, <1>3 DEF Within
<1>6. ncalls[r] <= ncalls'[r] /\ ncalls'[r] <= MaxCalls
  BY <1>1, <1>2
<1>7. call' \in [Ranks -> AllCalls \cup {NoCall, Finalize}]
  BY <1>1, <1>2
<1> QED
  BY <1>1, <1>2, <1>3, <1>4, <1>5, <1>6, <1>7, QuietKeeps

LEMMA EnterFinalizeKeeps ==
  ASSUME RequestsInv, NEW r \in Ranks, EnterFinalize(r)
  PROVE  RequestsInv'
<1>1. /\ pc[r] = "app" /\ pc' = [pc EXCEPT ![r] = "call"] /\ ncalls' = ncalls
      /\ call' = [call EXCEPT ![r] = Finalize]
      /\ UNCHANGED <<send_mark, irecv_root, isend_root, nsent, net, posted, request>>
  BY DEF EnterFinalize, Finalize, mpiVars
<1>2. /\ pc \in [Ranks -> {"start", "app", "call", "end"}]
      /\ call \in [Ranks -> AllCalls \cup {NoCall, Finalize}]
      /\ ncalls \in [Ranks -> Nat] /\ isend_root \in [Ranks -> Trees]
      /\ ncalls[r] <= MaxCalls /\ CallsAreOwn
  BY DEF RequestsInv, RequestsTypeOK, MarksCountSends
<1>3. /\ pc'[r] = "call" /\ call'[r] = Finalize
      /\ \A q \in Ranks \ {r} : pc'[q] = pc[q] /\ call'[q] = call[q]
      /\ pc' \in [Ranks -> {"start", "app", "call", "end"}]
      /\ call' \in [Ranks -> AllCalls \cup {NoCall, Finalize}]
  BY <1>1, <1>2
<1>4. CallsAreOwn'
  BY <1>2, <1>3 DEF CallsAreOwn
<1>5. ~Within(r, {"MPI_Recv"} \cup SendrecvOps \cup SendOps)
  BY <1>1 DEF Within
<1>6. ~Within(r, SendOps)'
  BY <1>3, OpsApart DEF Within, MovingOps, QuietOps, Finalize
<1>7. ncalls[r] <= ncalls'[r] /\ ncalls'[r] <= MaxCalls
  BY <1>1, <1>2
<1> QED
  BY <1>1, <1>2, <1>3, <1>4, <1>5, <1>6, <1>7, QuietKeeps

LEMMA LeaveFinalizeKeeps ==
  ASSUME RequestsInv, NEW r \in Ranks, LeaveFinalize(r)
  PROVE  RequestsInv'
<1>1. /\ pc[r] = "call" /\ call[r].op = "MPI_Finalize"
      /\ pc' = [pc EXCEPT ![r] = "end"] /\ ncalls' = ncalls
      /\ call' = [call EXCEPT ![r] = NoCall]
      /\ UNCHANGED <<send_mark, irecv_root, isend_root, nsent, net, posted, request>>
  BY DEF LeaveFinalize, mpiVars
<1>2. /\ pc \in [Ranks -> {"start", "app", "call", "end"}]
      /\ call \in [Ranks -> AllCalls \cup {NoCall, Finalize}]
      /\ ncalls \in [Ranks -> Nat] /\ isend_root \in [Ranks -> Trees]
      /\ ncalls[r] <= MaxCalls /\ CallsAreOwn
  BY DEF RequestsInv, RequestsTypeOK, MarksCountSends
<1>3. /\ pc'[r] = "end" /\ call'[r] = NoCall
      /\ \A q \in Ranks \ {r} : pc'[q] = pc[q] /\ call'[q] = call[q]
      /\ pc' \in [Ranks -> {"start", "app", "call", "end"}]
      /\ call' \in [Ranks -> AllCalls \cup {NoCall, Finalize}]
  BY <1>1, <1>2
<1>4. CallsAreOwn'
  BY <1>2, <1>3 DEF CallsAreOwn
<1>5. ~Within(r, {"MPI_Recv"} \cup SendrecvOps \cup SendOps)
  BY <1>1, OpsApart DEF Within, MovingOps, QuietOps
<1>6. ~Within(r, SendOps)'
  BY <1>3 DEF Within
<1>7. ncalls[r] <= ncalls'[r] /\ ncalls'[r] <= MaxCalls
  BY <1>1, <1>2
<1> QED
  BY <1>1, <1>2, <1>3, <1>4, <1>5, <1>6, <1>7, QuietKeeps

-----------------------------------------------------------------------------
\* What is known of one request changes, and of no other.
RequestBecomes(r, a, v) ==
  /\ request' \in [Ranks -> [Slots -> Request]]
  /\ request'[r][a] = v
  /\ \A q \in Ranks, b \in Slots : q # r \/ b # a => request'[q][b] = request[q][b]

LEMMA RequestShape ==
  ASSUME request \in [Ranks -> [Slots -> Request]],
         NEW r \in Ranks, NEW a \in Slots, NEW v \in Request,
         request' = [request EXCEPT ![r][a] = v]
  PROVE  RequestBecomes(r, a, v)
<1>1. request[r] \in [Slots -> Request]
  OBVIOUS
<1>2. request' = [request EXCEPT ![r] = [request[r] EXCEPT ![a] = v]]
  OBVIOUS
<1>3. [request[r] EXCEPT ![a] = v] \in [Slots -> Request]
  BY <1>1
<1>4. request' \in [Ranks -> [Slots -> Request]]
  BY <1>2, <1>3
<1>5. request'[r] = [request[r] EXCEPT ![a] = v] /\ \A q \in Ranks \ {r} : request'[q] = request[q]
  BY <1>2
<1> QED
  BY <1>1, <1>4, <1>5 DEF RequestBecomes

LEMMA NullIsRequest == Null \in Request /\ Null.st = "null"
  BY DEF Null, Request, Sources, Messages, NoMsg, AnySource

\* send_mark and the counts of the other ranks stay.
LEMMA MarksKeep ==
  ASSUME RequestsInv, NEW r \in Ranks,
         \A q \in Ranks \ {r} : /\ pc'[q] = pc[q] /\ call'[q] = call[q]
                                /\ ncalls'[q] = ncalls[q] /\ send_mark'[q] = send_mark[q],
         send_mark'[r] + (IF Within(r, SendOps)' THEN 1 ELSE 0) <= ncalls'[r],
         ncalls'[r] <= MaxCalls
  PROVE  MarksCountSends'
<1> SUFFICES ASSUME NEW q \in Ranks
             PROVE  /\ send_mark'[q] + (IF Within(q, SendOps)' THEN 1 ELSE 0) <= ncalls'[q]
                    /\ ncalls'[q] <= MaxCalls
  BY DEF MarksCountSends
<1>1. CASE q = r
  BY <1>1
<1>2. CASE q # r
  <2>1. /\ send_mark[q] + (IF Within(q, SendOps) THEN 1 ELSE 0) <= ncalls[q]
        /\ ncalls[q] <= MaxCalls
    BY DEF RequestsInv, MarksCountSends
  <2> QED
    BY <1>2, <2>1 DEF Within
<1> QED
  BY <1>1, <1>2

LEMMA SlotsOfPosted ==
  ASSUME posted \in [Ranks -> Seq(Receive)], NEW r \in Ranks, NEW i \in DOMAIN posted[r]
  PROVE  posted[r][i] \in Receive /\ posted[r][i].slot \in Slots
<1>1. posted[r] \in Seq(Receive)
  OBVIOUS
<1>2. posted[r][i] \in Receive
  BY <1>1
<1> QED
  BY <1>2 DEF Receive

\* A receive is posted into a slot that none waits in.
Posts(r, slot) ==
  /\ posted' \in [Ranks -> Seq(Receive)]
  /\ RequestBecomes(r, slot, [Null EXCEPT !.st = "posted"])
  /\ PostedOnce' /\ PostedWait'

LEMMA PostShape ==
  ASSUME RequestsInv, NEW r \in Ranks, NEW slot \in Slots, NEW c \in Calls[r],
         request[r][slot].st = "null", Post(r, slot, c.comm, c.peer, c.tag)
  PROVE  Posts(r, slot)
<1> DEFINE v == [Null EXCEPT !.st = "posted"]
           p == [slot |-> slot, comm |-> c.comm, tag |-> c.tag,
                 src |-> AKY_translate_rank(c.comm, c.peer)]
<1>1. c \in AllCalls /\ c.comm \in DOMAIN Comms
  BY TracerAssumption DEF AllCalls
<1>2. /\ posted \in [Ranks -> Seq(Receive)] /\ request \in [Ranks -> [Slots -> Request]]
      /\ PostedOnce /\ PostedWait
  BY DEF RequestsInv, RequestsTypeOK
<1>3. p \in Receive /\ p.slot = slot
  BY <1>1 DEF Receive
<1>4. v \in Request /\ v.st = "posted"
  BY DEF Null, Request, Sources, Messages, NoMsg, AnySource
<1>5. posted' = [posted EXCEPT ![r] = Append(@, p)] /\ request' = [request EXCEPT ![r][slot] = v]
  BY DEF Post
<1> HIDE DEF v, p
<1>6. RequestBecomes(r, slot, v)
  BY <1>2, <1>4, <1>5, RequestShape
<1>7. /\ posted' \in [Ranks -> Seq(Receive)]
      /\ posted'[r] = Append(posted[r], p)
      /\ \A q \in Ranks \ {r} : posted'[q] = posted[q]
  BY <1>2, <1>3, <1>5
<1>8. ASSUME NEW i \in DOMAIN posted[r]
      PROVE  posted[r][i].slot # slot /\ posted[r][i].slot \in Slots
  BY <1>2, SlotsOfPosted DEF PostedWait
<1>9. posted[r] \in Seq(Receive)
  BY <1>2
<1>10. /\ DOMAIN posted'[r] = DOMAIN posted[r] \cup {Len(posted[r]) + 1}
       /\ posted'[r][Len(posted[r]) + 1] = p
       /\ \A i \in DOMAIN posted[r] : posted'[r][i] = posted[r][i]
       /\ Len(posted[r]) + 1 \notin DOMAIN posted[r]
  BY <1>3, <1>7, <1>9
<1>11. PostedOnce'
  <2> SUFFICES ASSUME NEW q \in Ranks, NEW i \in DOMAIN posted'[q], NEW j \in DOMAIN posted'[q],
                      posted'[q][i].slot = posted'[q][j].slot
               PROVE  i = j
    BY DEF PostedOnce
  <2>1. CASE q # r
    BY <1>2, <1>7, <2>1 DEF PostedOnce
  <2>2. CASE q = r
    <3>1. i \in DOMAIN posted[r] /\ j \in DOMAIN posted[r] => i = j
      BY <1>2, <1>10, <2>2 DEF PostedOnce
    <3>2. i \in DOMAIN posted[r] <=> j \in DOMAIN posted[r]
      BY <1>3, <1>8, <1>10, <2>2
    <3> QED
      BY <1>10, <2>2, <3>1, <3>2
  <2> QED
    BY <2>1, <2>2
<1>12. PostedWait'
  <2> SUFFICES ASSUME NEW q \in Ranks, NEW i \in DOMAIN posted'[q]
               PROVE  request'[q][posted'[q][i].slot].st = "posted"
    BY DEF PostedWait
  <2>1. CASE q # r
    <3>1. posted'[q] = posted[q] /\ posted[q][i].slot \in Slots
      BY <1>2, <1>7, <2>1, SlotsOfPosted
    <3> QED
      BY <1>2, <1>6, <2>1, <3>1 DEF PostedWait, RequestBecomes
  <2>2. CASE q = r /\ i \in DOMAIN posted[r]
    BY <1>2, <1>6, <1>8, <1>10, <2>2 DEF PostedWait, RequestBecomes
  <2>3. CASE q = r /\ i = Len(posted[r]) + 1
    BY <1>3, <1>4, <1>6, <1>10, <2>3 DEF RequestBecomes
  <2> QED
    BY <1>10, <2>1, <2>2, <2>3
<1> QED
  BY <1>6, <1>7, <1>11, <1>12 DEF Posts, v

\* A message is sent to a rank that exists.
LEMMA TransmitShape ==
  ASSUME RequestsInv, NEW r \in Ranks, NEW c \in Calls[r], c.op \in SendOps \cup SendrecvOps,
         Transmit(r, c.comm, c.peer, c.tag)
  PROVE  net' \in [Ranks -> [Ranks -> Seq(NetMessage)]] /\ nsent' \in [Ranks -> Nat]
<1> DEFINE d == AKY_translate_rank(c.comm, c.peer)
           m == [comm |-> c.comm, tag |-> c.tag, msg |-> NextMsg(r)]
<1>1. c \in AllCalls /\ c.comm \in DOMAIN Comms /\ d \in Ranks
  BY TracerAssumption DEF AllCalls
<1>2. /\ net \in [Ranks -> [Ranks -> Seq(NetMessage)]] /\ nsent \in [Ranks -> Nat]
  BY DEF RequestsInv, RequestsTypeOK
<1>3. m \in NetMessage
  <2>1. nsent[r] \in Nat
    BY <1>2
  <2>2. NextMsg(r) \in Messages
    BY <2>1 DEF Messages, NextMsg
  <2>3. c.tag \in {b.tag : b \in AllCalls}
    BY <1>1
  <2> QED
    BY <1>1, <2>2, <2>3 DEF NetMessage
<1>4. /\ net' = [net EXCEPT ![r] = [net[r] EXCEPT ![d] = Append(net[r][d], m)]]
      /\ nsent' = [nsent EXCEPT ![r] = nsent[r] + 1]
  BY <1>1, <1>2 DEF Transmit
<1> HIDE DEF d, m
<1>5. net[r] \in [Ranks -> Seq(NetMessage)] /\ net[r][d] \in Seq(NetMessage)
  BY <1>1, <1>2
<1>6. [net[r] EXCEPT ![d] = Append(net[r][d], m)] \in [Ranks -> Seq(NetMessage)]
  BY <1>1, <1>3, <1>5
<1> QED
  BY <1>2, <1>4, <1>6

-----------------------------------------------------------------------------
\* No receive waits in a slot without a request.
LEMMA FreeSlots ==
  ASSUME RequestsInv, NEW r \in Ranks, NEW i \in DOMAIN posted[r], NEW a,
         request[r][a].st # "posted"
  PROVE  posted[r][i].slot # a
  BY DEF RequestsInv, PostedWait

\* What is known of one request changes, in which no receive waits before or after.
LEMMA PostedWaitKept ==
  ASSUME RequestsInv, posted' = posted, NEW r \in Ranks, NEW a \in Slots, NEW v,
         request[r][a].st # "posted", RequestBecomes(r, a, v)
  PROVE  PostedOnce' /\ PostedWait'
<1>1. PostedOnce'
  BY DEF RequestsInv, PostedOnce
<1>2. ASSUME NEW q \in Ranks, NEW i \in DOMAIN posted[q]
      PROVE  request'[q][posted[q][i].slot].st = "posted"
  <2>1. posted[q][i].slot \in Slots
    BY SlotsOfPosted DEF RequestsInv, RequestsTypeOK
  <2>2. q # r \/ posted[q][i].slot # a
    BY FreeSlots
  <2>3. request[q][posted[q][i].slot].st = "posted"
    BY DEF RequestsInv, PostedWait
  <2> QED
    BY <2>1, <2>2, <2>3 DEF RequestBecomes
<1> QED
  BY <1>1, <1>2 DEF PostedWait

LEMMA BlockingApart == Blocking \in Slots /\ Blocking \notin Reqs
  BY MpiAssumption DEF Slots

\* The slot without a request is not touched outside the calls that block.
LEMMA BlockingUseKept ==
  ASSUME RequestsInv, NEW r \in Ranks,
         \A q \in Ranks \ {r} : /\ pc'[q] = pc[q] /\ call'[q] = call[q]
                                /\ request'[q][Blocking] = request[q][Blocking],
         ~Within(r, {"MPI_Recv"} \cup SendrecvOps)' => request'[r][Blocking].st = "null"
  PROVE  BlockingUse'
  BY DEF RequestsInv, BlockingUse, Within

\* A send takes a request that is free, if it takes one.
LEMMA SendsRequest ==
  ASSUME RequestsInv, NEW r \in Ranks, NEW c \in Calls[r], EnterSend(r, c)
  PROVE  \/ c.op \in BlockingSends /\ request' = request
         \/ /\ c.op \notin BlockingSends
            /\ c.req \in Reqs /\ c.req \in Slots /\ request[r][c.req].st = "null"
            /\ \E v \in Request :
                 /\ v.st = IF c.op = "MPI_Isend" THEN "isend" ELSE "send"
                 /\ v.mark = send_mark[r]
                 /\ RequestBecomes(r, c.req, v)
<1> DEFINE v == [st |-> IF c.op = "MPI_Isend" THEN "isend" ELSE "send",
                 src |-> AnySource, msg |-> NextMsg(r), mark |-> send_mark[r]]
<1>1. CASE c.op \in BlockingSends
  BY <1>1 DEF EnterSend
<1>2. CASE c.op \notin BlockingSends
  <2>1. c.req \in Reqs /\ c.req \in Slots
    BY <1>2, TracerAssumption DEF EnterSend, RequestOps, SendOps, ForgottenSends, Slots
  <2>2. request' = [request EXCEPT ![r][c.req] = v] /\ request[r][c.req].st = "null"
    BY <1>2 DEF EnterSend
  <2>3. v \in Request
    <3>1. nsent[r] \in Nat /\ send_mark[r] \in Nat
      BY DEF RequestsInv, RequestsTypeOK
    <3>2. NextMsg(r) \in Messages
      BY <3>1 DEF NextMsg, Messages
    <3> QED
      BY <3>1, <3>2 DEF Request, Sources
  <2>4. request \in [Ranks -> [Slots -> Request]]
    BY DEF RequestsInv, RequestsTypeOK
  <2>5. v.st = (IF c.op = "MPI_Isend" THEN "isend" ELSE "send") /\ v.mark = send_mark[r]
    OBVIOUS
  <2> HIDE DEF v
  <2>6. RequestBecomes(r, c.req, v)
    BY <2>1, <2>2, <2>3, <2>4, RequestShape
  <2> QED
    BY <1>2, <2>1, <2>2, <2>3, <2>5, <2>6
<1> QED
  BY <1>1, <1>2

LEMMA EnterSendKeeps ==
  ASSUME RequestsInv, NEW r \in Ranks, NEW c \in Calls[r], EnterSend(r, c)
  PROVE  RequestsInv'
<1>1. /\ c.op \in SendOps /\ \E events : Enter(r, c, events)
      /\ Transmit(r, c.comm, c.peer, c.tag)
      /\ UNCHANGED <<send_mark, irecv_root, isend_root, posted>>
  BY DEF EnterSend
<1>2. RequestsTypeOK /\ CallsAreOwn /\ PostedOnce /\ PostedWait /\ BlockingUse /\ MarksCountSends
  BY DEF RequestsInv
<1>3. /\ pc[r] = "app" /\ pc'[r] = "call" /\ call'[r] = c
      /\ \A q \in Ranks \ {r} : pc'[q] = pc[q] /\ call'[q] = call[q] /\ ncalls'[q] = ncalls[q]
      /\ ncalls'[r] = ncalls[r] + 1 /\ ncalls'[r] <= MaxCalls
      /\ pc' \in [Ranks -> {"start", "app", "call", "end"}]
      /\ call' \in [Ranks -> AllCalls \cup {NoCall, Finalize}]
      /\ ncalls' \in [Ranks -> Nat]
      /\ CallsAreOwn'
  BY <1>1, <1>2, EnterShape
<1>4. net' \in [Ranks -> [Ranks -> Seq(NetMessage)]] /\ nsent' \in [Ranks -> Nat]
  BY <1>1, TransmitShape
<1>5. MarksCountSends'
  <2>1. send_mark[r] \in Nat /\ ncalls[r] \in Nat
    BY <1>2 DEF RequestsTypeOK
  <2>2. send_mark[r] <= ncalls[r]
    BY <1>2, <1>3, <2>1 DEF MarksCountSends, Within
  <2> QED
    BY <1>1, <1>3, <2>1, <2>2, MarksKeep
<1>6. request[r][Blocking].st = "null"
  BY <1>2, <1>3 DEF BlockingUse, Within
<1>7. \/ request' = request
      \/ /\ c.req \in Reqs /\ request[r][c.req].st = "null"
         /\ \E v \in Request : RequestBecomes(r, c.req, v)
  BY SendsRequest
<1>8. CASE request' = request
  <2>1. RequestsTypeOK'
    BY <1>1, <1>2, <1>3, <1>4, <1>8 DEF RequestsTypeOK
  <2>2. PostedOnce' /\ PostedWait'
    BY <1>1, <1>2, <1>8 DEF PostedOnce, PostedWait
  <2>3. BlockingUse'
    BY <1>3, <1>6, <1>8, BlockingUseKept
  <2> QED
    BY <1>3, <1>5, <2>1, <2>2, <2>3 DEF RequestsInv
<1>9. CASE /\ c.req \in Reqs /\ request[r][c.req].st = "null"
           /\ \E v \in Request : RequestBecomes(r, c.req, v)
  <2> PICK v \in Request : RequestBecomes(r, c.req, v)
    BY <1>9
  <2>1. RequestsTypeOK'
    BY <1>1, <1>2, <1>3, <1>4 DEF RequestsTypeOK, RequestBecomes
  <2>2. c.req \in Slots /\ c.req # Blocking
    BY <1>9, BlockingApart DEF Slots
  <2>3. PostedOnce' /\ PostedWait'
    BY <1>1, <1>9, <2>2, PostedWaitKept
  <2>4. \A q \in Ranks : request'[q][Blocking] = request[q][Blocking]
    BY <1>9, <2>2, BlockingApart DEF RequestBecomes
  <2>5. BlockingUse'
    BY <1>3, <1>6, <2>4, BlockingUseKept
  <2> QED
    BY <1>3, <1>5, <2>1, <2>3, <2>5 DEF RequestsInv
<1> QED
  BY <1>7, <1>8, <1>9

LEMMA LeaveSendKeeps ==
  ASSUME RequestsInv, NEW r \in Ranks, LeaveSend(r)
  PROVE  RequestsInv'
<1>1. /\ call[r].op \in SendOps /\ \E events : Leave(r, events)
      /\ send_mark' = [send_mark EXCEPT ![r] = @ + 1]
      /\ isend_root' = IF call[r].op = "MPI_Isend"
                       THEN [isend_root EXCEPT ![r] = aky_insert(@, call[r].req, send_mark[r])]
                       ELSE isend_root
      /\ UNCHANGED <<irecv_root, nsent, net, posted, request>>
  BY DEF LeaveSend, mpiVars
<1>2. RequestsTypeOK /\ CallsAreOwn /\ PostedOnce /\ PostedWait /\ BlockingUse /\ MarksCountSends
  BY DEF RequestsInv
<1>3. /\ pc[r] = "call" /\ pc'[r] = "app" /\ call[r] \in Calls[r] \cup {Finalize}
      /\ \A q \in Ranks \ {r} : pc'[q] = pc[q] /\ call'[q] = call[q]
      /\ ncalls' = ncalls
      /\ pc' \in [Ranks -> {"start", "app", "call", "end"}]
      /\ call' \in [Ranks -> AllCalls \cup {NoCall, Finalize}]
      /\ CallsAreOwn'
  BY <1>1, <1>2, LeaveShape
<1>4. send_mark[r] \in Nat /\ ncalls[r] \in Nat /\ send_mark \in [Ranks -> Nat]
  BY <1>2 DEF RequestsTypeOK
<1>5. /\ send_mark' \in [Ranks -> Nat] /\ send_mark'[r] = send_mark[r] + 1
      /\ \A q \in Ranks \ {r} : send_mark'[q] = send_mark[q]
  BY <1>1, <1>4
<1>6. MarksCountSends'
  <2>1. send_mark[r] + 1 <= ncalls[r] /\ ncalls[r] <= MaxCalls
    BY <1>1, <1>2, <1>3 DEF MarksCountSends, Within
  <2>2. ~Within(r, SendOps)'
    BY <1>3 DEF Within
  <2> QED
    BY <1>3, <1>4, <1>5, <2>1, <2>2, MarksKeep
<1>7. isend_root' \in [Ranks -> Trees]
  <2>1. isend_root \in [Ranks -> Trees]
    BY <1>2 DEF RequestsTypeOK
  <2>2. CASE call[r].op = "MPI_Isend"
    <3>1. call[r] \in Calls[r] /\ call[r].req \in Reqs
      BY <1>3, <2>2, TracerAssumption DEF RequestOps, Finalize
    <3>2. aky_insert(isend_root[r], call[r].req, send_mark[r]) \in Trees
      <4>1. PICK S \in SUBSET Reqs : isend_root[r] \in [S -> Nat]
        BY <2>1 DEF Trees
      <4>2. aky_insert(isend_root[r], call[r].req, send_mark[r])
              \in [S \cup {call[r].req} -> Nat]
        BY <1>4, <4>1 DEF aky_insert
      <4> QED
        BY <3>1, <4>2 DEF Trees
    <3> QED
      BY <1>1, <2>1, <2>2, <3>2
  <2> QED
    BY <1>1, <2>1, <2>2
<1>8. RequestsTypeOK'
  BY <1>1, <1>2, <1>3, <1>5, <1>7 DEF RequestsTypeOK
<1>9. PostedOnce' /\ PostedWait'
  BY <1>1, <1>2 DEF PostedOnce, PostedWait
<1>10. BlockingUse'
  <2>1. ~Within(r, {"MPI_Recv"} \cup SendrecvOps)
    BY <1>1 DEF Within, SendOps, BlockingSends, ForgottenSends, SendrecvOps
  <2> QED
    BY <1>1, <1>2, <1>3, <2>1, BlockingUseKept DEF BlockingUse
<1> QED
  BY <1>3, <1>6, <1>8, <1>9, <1>10 DEF RequestsInv

\* The calls that post a receive, and may send a message as well.
LEMMA PostingEnterKeeps ==
  ASSUME RequestsInv, NEW r \in Ranks, NEW c \in Calls[r], NEW events, Enter(r, c, events),
         c.op \notin SendOps, NEW slot \in Slots, request[r][slot].st = "null",
         Post(r, slot, c.comm, c.peer, c.tag),
         slot = Blocking => c.op \in {"MPI_Recv"} \cup SendrecvOps,
         UNCHANGED <<send_mark, irecv_root, isend_root>>,
         net' \in [Ranks -> [Ranks -> Seq(NetMessage)]], nsent' \in [Ranks -> Nat]
  PROVE  RequestsInv'
<1>1. RequestsTypeOK /\ CallsAreOwn /\ BlockingUse /\ MarksCountSends
  BY DEF RequestsInv
<1>2. /\ pc[r] = "app" /\ pc'[r] = "call" /\ call'[r] = c
      /\ \A q \in Ranks \ {r} : pc'[q] = pc[q] /\ call'[q] = call[q] /\ ncalls'[q] = ncalls[q]
      /\ ncalls'[r] = ncalls[r] + 1 /\ ncalls'[r] <= MaxCalls
      /\ pc' \in [Ranks -> {"start", "app", "call", "end"}]
      /\ call' \in [Ranks -> AllCalls \cup {NoCall, Finalize}]
      /\ ncalls' \in [Ranks -> Nat]
      /\ CallsAreOwn'
  BY <1>1, EnterShape
<1>3. Posts(r, slot)
  BY PostShape
<1>4. MarksCountSends'
  <2>1. send_mark[r] \in Nat /\ ncalls[r] \in Nat /\ send_mark' = send_mark
    BY <1>1 DEF RequestsTypeOK
  <2>2. send_mark[r] <= ncalls[r]
    <3>1. send_mark[r] + (IF Within(r, SendOps) THEN 1 ELSE 0) <= ncalls[r]
      BY <1>1 DEF MarksCountSends
    <3> QED
      BY <2>1, <3>1
  <2>3. ~Within(r, SendOps)'
    BY <1>2 DEF Within
  <2>4. send_mark'[r] + (IF Within(r, SendOps)' THEN 1 ELSE 0) <= ncalls'[r]
    BY <1>2, <2>1, <2>2, <2>3
  <2> QED
    BY <1>2, <2>1, <2>4, MarksKeep
<1>5. RequestsTypeOK'
  BY <1>1, <1>2, <1>3 DEF RequestsTypeOK, Posts, RequestBecomes
<1>6. BlockingUse'
  <2>1. /\ \A q \in Ranks \ {r} : request'[q][Blocking] = request[q][Blocking]
        /\ slot # Blocking => request'[r][Blocking] = request[r][Blocking]
    BY <1>3, BlockingApart DEF Posts, RequestBecomes
  <2>2. request[r][Blocking].st = "null"
    BY <1>1, <1>2 DEF BlockingUse, Within
  <2>3. slot = Blocking => Within(r, {"MPI_Recv"} \cup SendrecvOps)'
    BY <1>2 DEF Within
  <2> QED
    BY <1>2, <2>1, <2>2, <2>3, BlockingUseKept
<1> QED
  BY <1>2, <1>3, <1>4, <1>5, <1>6 DEF RequestsInv, Posts

LEMMA EnterRecvKeeps ==
  ASSUME RequestsInv, NEW r \in Ranks, NEW c \in Calls[r], EnterRecv(r, c)
  PROVE  RequestsInv'
<1>1. /\ c.op = "MPI_Recv" /\ \E events : Enter(r, c, events)
      /\ Post(r, Blocking, c.comm, c.peer, c.tag)
      /\ UNCHANGED <<send_mark, irecv_root, isend_root, nsent, net>>
  BY DEF EnterRecv
<1>2. c.op \notin SendOps /\ c.op \in {"MPI_Recv"} \cup SendrecvOps
  BY <1>1 DEF SendOps, BlockingSends, ForgottenSends
<1>3. request[r][Blocking].st = "null"
  BY <1>1 DEF RequestsInv, BlockingUse, Within, Enter
<1>4. net' \in [Ranks -> [Ranks -> Seq(NetMessage)]] /\ nsent' \in [Ranks -> Nat]
  BY <1>1 DEF RequestsInv, RequestsTypeOK
<1> QED
  BY <1>1, <1>2, <1>3, <1>4, BlockingApart, PostingEnterKeeps

LEMMA EnterIrecvKeeps ==
  ASSUME RequestsInv, NEW r \in Ranks, NEW c \in Calls[r], EnterIrecv(r, c)
  PROVE  RequestsInv'
<1>1. /\ c.op = "MPI_Irecv" /\ \E events : Enter(r, c, events)
      /\ request[r][c.req].st = "null"
      /\ Post(r, c.req, c.comm, c.peer, c.tag)
      /\ UNCHANGED <<send_mark, irecv_root, isend_root, nsent, net>>
  BY DEF EnterIrecv
<1>2. c.op \notin SendOps
  BY <1>1 DEF SendOps, BlockingSends, ForgottenSends
<1>3. c.req \in Slots /\ c.req # Blocking
  BY <1>1, TracerAssumption, BlockingApart DEF RequestOps, Slots
<1>4. net' \in [Ranks -> [Ranks -> Seq(NetMessage)]] /\ nsent' \in [Ranks -> Nat]
  BY <1>1 DEF RequestsInv, RequestsTypeOK
<1> QED
  BY <1>1, <1>2, <1>3, <1>4, PostingEnterKeeps

LEMMA EnterSendrecvKeeps ==
  ASSUME RequestsInv, NEW r \in Ranks, NEW c \in Calls[r], EnterSendrecv(r, c)
  PROVE  RequestsInv'
<1>1. /\ c.op \in SendrecvOps /\ \E events : Enter(r, c, events)
      /\ Transmit(r, c.comm, c.peer, c.tag)
      /\ Post(r, Blocking, c.comm, c.peer, c.tag)
      /\ UNCHANGED <<send_mark, irecv_root, isend_root>>
  BY DEF EnterSendrecv
<1>2. c.op \notin SendOps /\ c.op \in {"MPI_Recv"} \cup SendrecvOps
  BY <1>1 DEF SendOps, BlockingSends, ForgottenSends, SendrecvOps
<1>3. request[r][Blocking].st = "null"
  BY <1>1 DEF RequestsInv, BlockingUse, Within, Enter
<1>4. net' \in [Ranks -> [Ranks -> Seq(NetMessage)]] /\ nsent' \in [Ranks -> Nat]
  BY <1>1, TransmitShape
<1> QED
  BY <1>1, <1>2, <1>3, <1>4, BlockingApart, PostingEnterKeeps

-----------------------------------------------------------------------------
\* A call that sends nothing returns: what remains is what it does to the requests.
LEMMA ReceivingLeaveKeeps ==
  ASSUME RequestsInv, NEW r \in Ranks, NEW events, Leave(r, events), call[r].op \notin SendOps,
         UNCHANGED <<send_mark, isend_root, nsent, net, posted>>,
         irecv_root' \in [Ranks -> Trees], request' \in [Ranks -> [Slots -> Request]],
         \A q \in Ranks \ {r} : request'[q] = request[q],
         \A a \in Slots : request[r][a].st = "posted" => request'[r][a] = request[r][a],
         request'[r][Blocking].st = "null"
  PROVE  RequestsInv'
<1>1. RequestsTypeOK /\ CallsAreOwn /\ PostedOnce /\ PostedWait /\ MarksCountSends
  BY DEF RequestsInv
<1>2. /\ pc[r] = "call" /\ pc'[r] = "app" /\ call[r] \in Calls[r] \cup {Finalize}
      /\ \A q \in Ranks \ {r} : pc'[q] = pc[q] /\ call'[q] = call[q]
      /\ ncalls' = ncalls
      /\ pc' \in [Ranks -> {"start", "app", "call", "end"}]
      /\ call' \in [Ranks -> AllCalls \cup {NoCall, Finalize}]
      /\ CallsAreOwn'
  BY <1>1, LeaveShape
<1>3. RequestsTypeOK'
  BY <1>1, <1>2 DEF RequestsTypeOK
<1>4. MarksCountSends'
  <2>1. send_mark[r] \in Nat /\ ncalls[r] \in Nat /\ send_mark[r] <= ncalls[r]
        /\ ncalls[r] <= MaxCalls
    BY <1>1, <1>2 DEF RequestsTypeOK, MarksCountSends, Within
  <2>2. ~Within(r, SendOps)'
    BY <1>2 DEF Within
  <2> QED
    BY <1>2, <2>1, <2>2, MarksKeep
<1>5. PostedOnce'
  BY <1>1 DEF PostedOnce
<1>6. ASSUME NEW q \in Ranks, NEW i \in DOMAIN posted[q]
      PROVE  request'[q][posted[q][i].slot].st = "posted"
  <2>1. posted[q][i].slot \in Slots /\ request[q][posted[q][i].slot].st = "posted"
    BY <1>1, SlotsOfPosted DEF RequestsTypeOK, PostedWait
  <2> QED
    BY <2>1
<1>7. BlockingUse'
  BY <1>2, BlockingUseKept
<1> QED
  BY <1>2, <1>3, <1>4, <1>5, <1>6, <1>7 DEF RequestsInv, PostedWait

\* The receive of a call that blocks ends with it.
LEMMA BlockingLeaveKeeps ==
  ASSUME RequestsInv, NEW r \in Ranks, NEW events, Leave(r, events), call[r].op \notin SendOps,
         UNCHANGED <<send_mark, irecv_root, isend_root, nsent, net, posted>>,
         request[r][Blocking].st = "arrived",
         request' = [request EXCEPT ![r][Blocking] = Null]
  PROVE  RequestsInv'
<1>1. /\ request \in [Ranks -> [Slots -> Request]] /\ irecv_root \in [Ranks -> Trees]
  BY DEF RequestsInv, RequestsTypeOK
<1>2. RequestBecomes(r, Blocking, Null)
  BY <1>1, BlockingApart, NullIsRequest, RequestShape
<1>3. \A q \in Ranks \ {r} : request'[q] = request[q]
  BY <1>1
<1>4. request'[r][Blocking].st = "null"
  BY <1>2, NullIsRequest DEF RequestBecomes
<1>5. \A a \in Slots : request[r][a].st = "posted" => request'[r][a] = request[r][a]
  BY <1>2 DEF RequestBecomes
<1>6. request' \in [Ranks -> [Slots -> Request]]
  BY <1>2 DEF RequestBecomes
<1> QED
  BY <1>1, <1>3, <1>4, <1>5, <1>6, ReceivingLeaveKeeps

LEMMA LeaveRecvKeeps ==
  ASSUME RequestsInv, NEW r \in Ranks, LeaveRecv(r) \/ LeaveSendrecv(r)
  PROVE  RequestsInv'
<1>1. /\ call[r].op \in {"MPI_Recv"} \cup SendrecvOps /\ \E events : Leave(r, events)
      /\ request[r][Blocking].st = "arrived"
      /\ request' = [request EXCEPT ![r][Blocking] = Null]
      /\ UNCHANGED <<send_mark, irecv_root, isend_root, nsent, net, posted>>
  BY DEF LeaveRecv, LeaveSendrecv
<1>2. call[r].op \notin SendOps
  BY <1>1 DEF SendOps, BlockingSends, ForgottenSends, SendrecvOps
<1> QED
  BY <1>1, <1>2, BlockingLeaveKeeps

LEMMA LeaveIrecvKeeps ==
  ASSUME RequestsInv, NEW r \in Ranks, LeaveIrecv(r)
  PROVE  RequestsInv'
<1>1. /\ call[r].op = "MPI_Irecv" /\ \E events : Leave(r, events)
      /\ irecv_root' = [irecv_root EXCEPT ![r] = aky_insert_irecv(@, call[r].req)]
      /\ UNCHANGED <<send_mark, isend_root, nsent, net, posted, request>>
  BY DEF LeaveIrecv, mpiVars
<1>2. call[r].op \notin SendOps /\ ~Within(r, {"MPI_Recv"} \cup SendrecvOps)
  BY <1>1 DEF SendOps, BlockingSends, ForgottenSends, SendrecvOps, Within
<1>3. RequestsTypeOK /\ CallsAreOwn /\ request[r][Blocking].st = "null"
  BY <1>2 DEF RequestsInv, BlockingUse
<1>4. call[r] \in Calls[r] /\ call[r].req \in Reqs
  BY <1>1, <1>3, TracerAssumption DEF Leave, CallsAreOwn, RequestOps, Finalize
<1>5. irecv_root' \in [Ranks -> Trees]
  <2>1. irecv_root \in [Ranks -> Trees]
    BY <1>3 DEF RequestsTypeOK
  <2>2. PICK S \in SUBSET Reqs : irecv_root[r] \in [S -> Nat]
    BY <2>1 DEF Trees
  <2>3. aky_insert_irecv(irecv_root[r], call[r].req) \in [S \cup {call[r].req} -> Nat]
    BY <2>2 DEF aky_insert_irecv, aky_insert
  <2>4. aky_insert_irecv(irecv_root[r], call[r].req) \in Trees
    BY <1>4, <2>3 DEF Trees
  <2> QED
    BY <1>1, <2>1, <2>4
<1>6. request' \in [Ranks -> [Slots -> Request]]
  BY <1>1, <1>3 DEF RequestsTypeOK
<1> QED
  BY <1>1, <1>2, <1>3, <1>5, <1>6, ReceivingLeaveKeeps

\* Waits complete requests whose receive does not wait any more.
LEMMA FinishKeeps ==
  ASSUME RequestsInv, NEW r \in Ranks, NEW done, FinishRequests(r, done),
         call[r].op \in QuietOps
  PROVE  RequestsInv'
<1>1. /\ \A a \in done : Complete(request[r][a])
      /\ \E events : Leave(r, events)
      /\ irecv_root' = [irecv_root EXCEPT ![r] = [a \in DOMAIN @ \ done |-> @[a]]]
      /\ request' = [request EXCEPT ![r] = [a \in DOMAIN @ |-> IF a \in done THEN Null ELSE @[a]]]
      /\ UNCHANGED <<send_mark, isend_root, nsent, net, posted>>
  BY DEF FinishRequests
<1>2. /\ request \in [Ranks -> [Slots -> Request]] /\ irecv_root \in [Ranks -> Trees]
  BY DEF RequestsInv, RequestsTypeOK
<1>3. request' = [request EXCEPT ![r] = [a \in Slots |-> IF a \in done THEN Null
                                                         ELSE request[r][a]]]
  BY <1>1, <1>2
<1>4. [a \in Slots |-> IF a \in done THEN Null ELSE request[r][a]] \in [Slots -> Request]
  BY <1>2, NullIsRequest
<1>5. /\ request' \in [Ranks -> [Slots -> Request]]
      /\ \A q \in Ranks \ {r} : request'[q] = request[q]
      /\ \A a \in Slots : request'[r][a] = IF a \in done THEN Null ELSE request[r][a]
  BY <1>2, <1>3, <1>4
<1>6. \A a \in Slots : request[r][a].st = "posted" => request'[r][a] = request[r][a]
  BY <1>1, <1>5 DEF Complete
<1>7. call[r].op \notin SendOps /\ ~Within(r, {"MPI_Recv"} \cup SendrecvOps)
  BY OpsApart DEF MovingOps, Within
<1>8. request'[r][Blocking].st = "null"
  <2>1. request[r][Blocking].st = "null"
    BY <1>7 DEF RequestsInv, BlockingUse
  <2> QED
    BY <1>5, <2>1, BlockingApart, NullIsRequest
<1>9. irecv_root' \in [Ranks -> Trees]
  <2>1. PICK S \in SUBSET Reqs : irecv_root[r] \in [S -> Nat]
    BY <1>2 DEF Trees
  <2>2. [a \in DOMAIN irecv_root[r] \ done |-> irecv_root[r][a]] \in [S \ done -> Nat]
    BY <2>1
  <2>3. [a \in DOMAIN irecv_root[r] \ done |-> irecv_root[r][a]] \in Trees
    BY <2>2 DEF Trees
  <2> QED
    BY <1>1, <1>2, <2>3
<1> QED
  BY <1>1, <1>5, <1>6, <1>7, <1>8, <1>9, ReceivingLeaveKeeps

LEMMA LeaveTestKeeps ==
  ASSUME RequestsInv, NEW r \in Ranks, LeaveTest(r)
  PROVE  RequestsInv'
<1> DEFINE a == call[r].req
<1>1. /\ call[r].op \in TestOps /\ pc[r] = "call" /\ \E events : Leave(r, events)
      /\ request' = IF Complete(request[r][a])
                    THEN [request EXCEPT ![r][a] = Null] ELSE request
      /\ UNCHANGED <<send_mark, irecv_root, isend_root, nsent, net, posted>>
  BY DEF LeaveTest, Leave
<1>2. /\ request \in [Ranks -> [Slots -> Request]] /\ irecv_root \in [Ranks -> Trees]
      /\ CallsAreOwn
  BY DEF RequestsInv, RequestsTypeOK
<1>3. call[r] \in Calls[r] /\ a \in Reqs /\ a \in Slots /\ a # Blocking
  <2>1. call[r] # Finalize
    BY <1>1 DEF TestOps, Finalize
  <2> QED
    BY <1>1, <1>2, <2>1, TracerAssumption, BlockingApart DEF CallsAreOwn, RequestOps, Slots
<1> HIDE DEF a
<1>4. call[r].op \notin SendOps /\ ~Within(r, {"MPI_Recv"} \cup SendrecvOps)
  BY <1>1, OpsApart DEF QuietOps, MovingOps, Within
<1>5. request[r][Blocking].st = "null"
  BY <1>4 DEF RequestsInv, BlockingUse
<1>6. CASE ~Complete(request[r][a])
  BY <1>1, <1>2, <1>4, <1>5, <1>6, ReceivingLeaveKeeps
<1>7. CASE Complete(request[r][a])
  <2>1. RequestBecomes(r, a, Null)
    BY <1>1, <1>2, <1>3, <1>7, NullIsRequest, RequestShape
  <2>2. /\ request' \in [Ranks -> [Slots -> Request]]
        /\ \A q \in Ranks \ {r} : request'[q] = request[q]
        /\ \A b \in Slots : request[r][b].st = "posted" => request'[r][b] = request[r][b]
        /\ request'[r][Blocking].st = "null"
    BY <1>1, <1>2, <1>3, <1>5, <1>7, <2>1, BlockingApart DEF RequestBecomes, Complete
  <2> QED
    BY <1>1, <1>2, <1>4, <2>2, ReceivingLeaveKeeps
<1> QED
  BY <1>6, <1>7

-----------------------------------------------------------------------------
\* One place less, the others in their order.
Shortens(t, s, i) ==
  /\ Len(t) = Len(s) - 1
  /\ DOMAIN t = 1..(Len(s) - 1)
  /\ \A k \in 1..(Len(s) - 1) : t[k] = s[IF k < i THEN k ELSE k + 1]

Concatenates(t, a, b) ==
  /\ Len(t) = Len(a) + Len(b)
  /\ DOMAIN t = 1..(Len(a) + Len(b))
  /\ \A k \in 1..Len(a) : t[k] = a[k]
  /\ \A k \in 1..Len(b) : t[Len(a) + k] = b[k]

LEMMA ConcatShape ==
  ASSUME NEW S, NEW a \in Seq(S), NEW b \in Seq(S)
  PROVE  a \o b \in Seq(S) /\ Concatenates(a \o b, a, b)
  BY DEF Concatenates

LEMMA JoinShape ==
  ASSUME NEW S, NEW s \in Seq(S), NEW i \in 1..Len(s),
         NEW a \in Seq(S), Len(a) = i - 1, \A k \in 1..(i - 1) : a[k] = s[k],
         NEW b \in Seq(S), Len(b) = Len(s) - i, \A k \in 1..(Len(s) - i) : b[k] = s[i + k]
  PROVE  a \o b \in Seq(S) /\ Shortens(a \o b, s, i)
<1>1. /\ a \o b \in Seq(S) /\ Len(a \o b) = Len(a) + Len(b)
      /\ DOMAIN (a \o b) = 1..(Len(a) + Len(b))
      /\ \A k \in 1..Len(a) : (a \o b)[k] = a[k]
      /\ \A k \in 1..Len(b) : (a \o b)[Len(a) + k] = b[k]
  <2>1. a \o b \in Seq(S) /\ Concatenates(a \o b, a, b)
    BY ConcatShape
  <2> QED
    BY <2>1 DEF Concatenates
<1>2. Len(s) \in Nat /\ Len(a) + Len(b) = Len(s) - 1
  OBVIOUS
<1>3. ASSUME NEW k \in 1..(Len(s) - 1)
      PROVE  (a \o b)[k] = s[IF k < i THEN k ELSE k + 1]
  <2>1. CASE k < i
    <3>1. k \in 1..Len(a) /\ k \in 1..(i - 1)
      BY <1>2, <1>3, <2>1
    <3> QED
      BY <1>1, <2>1, <3>1
  <2>2. CASE k >= i
    <3>1. k - (i - 1) \in 1..(Len(s) - i)
      BY <1>2, <1>3, <2>2
    <3>2. (a \o b)[(i - 1) + (k - (i - 1))] = s[i + (k - (i - 1))]
      BY <1>1, <3>1
    <3>3. (i - 1) + (k - (i - 1)) = k /\ i + (k - (i - 1)) = k + 1 /\ ~(k < i)
      BY <1>2, <1>3, <2>2
    <3> QED
      BY <3>2, <3>3
  <2> QED
    BY <1>2, <1>3, <2>1, <2>2
<1> QED
  BY <1>1, <1>2, <1>3 DEF Shortens

LEMMA WithoutShape ==
  ASSUME NEW S, NEW s \in Seq(S), NEW i \in DOMAIN s
  PROVE  Without(s, i) \in Seq(S) /\ Shortens(Without(s, i), s, i)
<1>1. i \in 1..Len(s) /\ Len(s) \in Nat
  OBVIOUS
<1>2. /\ SubSeq(s, 1, i - 1) \in Seq(S) /\ Len(SubSeq(s, 1, i - 1)) = i - 1
      /\ \A k \in 1..(i - 1) : SubSeq(s, 1, i - 1)[k] = s[k]
  BY <1>1
<1>3. /\ SubSeq(s, i + 1, Len(s)) \in Seq(S) /\ Len(SubSeq(s, i + 1, Len(s))) = Len(s) - i
      /\ \A k \in 1..(Len(s) - i) : SubSeq(s, i + 1, Len(s))[k] = s[i + k]
  BY <1>1
<1> QED
  BY <1>1, <1>2, <1>3, JoinShape DEF Without

\* A message meets a receive.
LEMMA MatchShape ==
  ASSUME RequestsInv, NEW s \in Ranks, NEW d \in Ranks, Match(s, d)
  PROVE  /\ net' \in [Ranks -> [Ranks -> Seq(NetMessage)]]
         /\ posted' \in [Ranks -> Seq(Receive)]
         /\ \E j \in DOMAIN posted[d], v \in Request :
              /\ v.st = "arrived"
              /\ RequestBecomes(d, posted[d][j].slot, v)
              /\ Shortens(posted'[d], posted[d], j)
         /\ \A q \in Ranks \ {d} : posted'[q] = posted[q]
         /\ nsent' = nsent
<1>1. PICK i \in DOMAIN net[s][d], j \in DOMAIN posted[d] :
        /\ net' = [net EXCEPT ![s][d] = Without(@, i)]
        /\ posted' = [posted EXCEPT ![d] = Without(@, j)]
        /\ request' = [request EXCEPT ![d][posted[d][j].slot] =
                         [st |-> "arrived", src |-> CommRank(posted[d][j].comm, s),
                          msg |-> net[s][d][i].msg, mark |-> 0]]
        /\ nsent' = nsent
  BY DEF Match
<1> DEFINE v == [st |-> "arrived", src |-> CommRank(posted[d][j].comm, s),
                 msg |-> net[s][d][i].msg, mark |-> 0]
<1>2. /\ net \in [Ranks -> [Ranks -> Seq(NetMessage)]] /\ posted \in [Ranks -> Seq(Receive)]
      /\ request \in [Ranks -> [Slots -> Request]]
  BY DEF RequestsInv, RequestsTypeOK
<1>3. net[s] \in [Ranks -> Seq(NetMessage)] /\ net[s][d] \in Seq(NetMessage)
      /\ posted[d] \in Seq(Receive)
  BY <1>2
<1>4. Without(net[s][d], i) \in Seq(NetMessage)
  BY <1>1, <1>3, WithoutShape
<1>5. Without(posted[d], j) \in Seq(Receive) /\ Shortens(Without(posted[d], j), posted[d], j)
  BY <1>1, <1>3, WithoutShape
<1>6. net' \in [Ranks -> [Ranks -> Seq(NetMessage)]]
  <2>1. net' = [net EXCEPT ![s] = [net[s] EXCEPT ![d] = Without(net[s][d], i)]]
    BY <1>1, <1>2
  <2>2. [net[s] EXCEPT ![d] = Without(net[s][d], i)] \in [Ranks -> Seq(NetMessage)]
    BY <1>3, <1>4
  <2> QED
    BY <1>2, <2>1, <2>2
<1>7. /\ posted' \in [Ranks -> Seq(Receive)] /\ posted'[d] = Without(posted[d], j)
      /\ \A q \in Ranks \ {d} : posted'[q] = posted[q]
  BY <1>1, <1>2, <1>5
<1>8. v \in Request /\ v.st = "arrived"
  <2>1. net[s][d][i] \in NetMessage /\ net[s][d][i].msg \in Messages
    <3>1. net[s][d][i] \in NetMessage
      BY <1>3
    <3> QED
      BY <3>1 DEF NetMessage
  <2>2. posted[d][j] \in Receive /\ posted[d][j].comm \in DOMAIN Comms
    <3>1. posted[d][j] \in Receive
      BY <1>3
    <3> QED
      BY <3>1 DEF Receive
  <2>3. CommRank(posted[d][j].comm, s) \in Sources
    BY <2>2 DEF Sources
  <2> QED
    BY <2>1, <2>3 DEF Request
<1>9. posted[d][j].slot \in Slots
  BY <1>2, SlotsOfPosted
<1> HIDE DEF v
<1>10. RequestBecomes(d, posted[d][j].slot, v)
  BY <1>1, <1>2, <1>8, <1>9, RequestShape DEF v
<1> QED
  <2>1. Shortens(posted'[d], posted[d], j)
    BY <1>5, <1>7
  <2>2. \E k \in DOMAIN posted[d], w \in Request :
          /\ w.st = "arrived"
          /\ RequestBecomes(d, posted[d][k].slot, w)
          /\ Shortens(posted'[d], posted[d], k)
    BY <1>8, <1>10, <2>1
  <2> QED
    BY <1>1, <1>6, <1>7, <2>2

LEMMA DeliverKeeps ==
  ASSUME RequestsInv, NEW s \in Ranks, NEW d \in Ranks, Deliver(s, d)
  PROVE  RequestsInv'
<1>1. RequestsTypeOK /\ CallsAreOwn /\ PostedOnce /\ PostedWait /\ BlockingUse /\ MarksCountSends
  BY DEF RequestsInv
<1>2. UNCHANGED <<pc, call, ncalls, send_mark, irecv_root, isend_root>>
  BY DEF Deliver
<1>3. /\ net' \in [Ranks -> [Ranks -> Seq(NetMessage)]]
      /\ posted' \in [Ranks -> Seq(Receive)]
      /\ \A q \in Ranks \ {d} : posted'[q] = posted[q]
      /\ nsent' = nsent
  BY MatchShape DEF Deliver
<1>4. PICK j \in DOMAIN posted[d], v \in Request :
        /\ v.st = "arrived"
        /\ RequestBecomes(d, posted[d][j].slot, v)
        /\ Shortens(posted'[d], posted[d], j)
  BY MatchShape DEF Deliver
<1>5. RequestsTypeOK'
  BY <1>1, <1>2, <1>3, <1>4 DEF RequestsTypeOK, RequestBecomes
<1>6. CallsAreOwn' /\ MarksCountSends'
  BY <1>1, <1>2 DEF CallsAreOwn, MarksCountSends, Within
<1>7. posted[d] \in Seq(Receive) /\ Len(posted[d]) \in Nat /\ j \in 1..Len(posted[d])
      /\ DOMAIN posted[d] = 1..Len(posted[d])
  BY <1>1 DEF RequestsTypeOK
<1> DEFINE old(k) == IF k < j THEN k ELSE k + 1
<1>8. \A k \in DOMAIN posted'[d] :
        /\ old(k) \in DOMAIN posted[d] /\ old(k) # j /\ posted'[d][k] = posted[d][old(k)]
        /\ \A l \in DOMAIN posted'[d] : old(k) = old(l) => k = l
  <2>1. /\ DOMAIN posted'[d] = 1..(Len(posted[d]) - 1)
        /\ \A k \in DOMAIN posted'[d] : posted'[d][k] = posted[d][old(k)]
    BY <1>4 DEF Shortens
  <2>2. \A k \in 1..(Len(posted[d]) - 1) :
          /\ old(k) \in 1..Len(posted[d]) /\ old(k) # j
          /\ \A l \in 1..(Len(posted[d]) - 1) : old(k) = old(l) => k = l
    BY <1>7
  <2> QED
    BY <1>7, <2>1, <2>2
<1> HIDE DEF old
<1>9. PostedOnce'
  <2> SUFFICES ASSUME NEW q \in Ranks, NEW k \in DOMAIN posted'[q], NEW l \in DOMAIN posted'[q],
                      posted'[q][k].slot = posted'[q][l].slot
               PROVE  k = l
    BY DEF PostedOnce
  <2>1. CASE q # d
    BY <1>1, <1>3, <2>1 DEF PostedOnce
  <2>2. CASE q = d
    BY <1>1, <1>8, <2>2 DEF PostedOnce
  <2> QED
    BY <2>1, <2>2
<1>10. PostedWait'
  <2> SUFFICES ASSUME NEW q \in Ranks, NEW k \in DOMAIN posted'[q]
               PROVE  request'[q][posted'[q][k].slot].st = "posted"
    BY DEF PostedWait
  <2>1. CASE q # d
    <3>1. posted'[q] = posted[q] /\ posted[q][k].slot \in Slots
      BY <1>1, <1>3, <2>1, SlotsOfPosted DEF RequestsTypeOK
    <3> QED
      BY <1>1, <1>4, <2>1, <3>1 DEF PostedWait, RequestBecomes
  <2>2. CASE q = d
    <3>1. /\ old(k) \in DOMAIN posted[d] /\ posted'[d][k] = posted[d][old(k)]
          /\ posted[d][old(k)].slot # posted[d][j].slot
      BY <1>1, <1>8, <2>2 DEF PostedOnce
    <3>2. posted[d][old(k)].slot \in Slots /\ request[d][posted[d][old(k)].slot].st = "posted"
      BY <1>1, <3>1, SlotsOfPosted DEF RequestsTypeOK, PostedWait
    <3> QED
      BY <1>4, <2>2, <3>1, <3>2 DEF RequestBecomes
  <2> QED
    BY <2>1, <2>2
<1>11. BlockingUse'
  <2> SUFFICES ASSUME NEW q \in Ranks, ~Within(q, {"MPI_Recv"} \cup SendrecvOps)
               PROVE  request'[q][Blocking].st = "null"
    BY <1>2 DEF BlockingUse, Within
  <2>1. request[q][Blocking].st = "null"
    BY <1>1 DEF BlockingUse
  <2>2. q = d => posted[d][j].slot # Blocking
    BY <1>4, <2>1, FreeSlots
  <2> QED
    BY <1>4, <2>1, <2>2, BlockingApart DEF RequestBecomes
<1> QED
  BY <1>5, <1>6, <1>9, <1>10, <1>11 DEF RequestsInv

-----------------------------------------------------------------------------
LEMMA EnterWaitKeeps ==
  ASSUME RequestsInv, NEW r \in Ranks, NEW c \in Calls[r], EnterWait(r, c)
  PROVE  RequestsInv'
<1>1. /\ c.op = "MPI_Wait" /\ \E events : Enter(r, c, events)
      /\ \/ isend_root' = isend_root
         \/ isend_root' = [isend_root EXCEPT ![r] = aky_remove(@, c.req)]
      /\ UNCHANGED <<send_mark, irecv_root, nsent, net, posted, request>>
  BY DEF EnterWait, mpiVars
<1>2. isend_root \in [Ranks -> Trees]
  BY DEF RequestsInv, RequestsTypeOK
<1>3. isend_root' \in [Ranks -> Trees]
  <2>1. PICK S \in SUBSET Reqs : isend_root[r] \in [S -> Nat]
    BY <1>2 DEF Trees
  <2>2. aky_remove(isend_root[r], c.req) \in [S \ {c.req} -> Nat]
    BY <2>1 DEF aky_remove
  <2>3. aky_remove(isend_root[r], c.req) \in Trees
    BY <2>2 DEF Trees
  <2> QED
    BY <1>1, <1>2, <2>3
<1>4. c.op \in QuietOps
  BY <1>1 DEF QuietOps
<1> QED
  BY <1>1, <1>3, <1>4, QuietEnterKeeps

\* The other wrappers, on the way in ...
QuietEnter(r, c) ==
  EnterWaitArray(r, c) \/ EnterTest(r, c) \/ EnterDown(r, c) \/ EnterUp(r, c) \/ EnterPlain(r, c)

LEMMA QuietEnterShape ==
  ASSUME NEW r, NEW c, QuietEnter(r, c)
  PROVE  /\ c.op \in QuietOps \ {"MPI_Wait", "MPI_Finalize"}
         /\ \E events : Enter(r, c, events)
         /\ UNCHANGED <<send_mark, irecv_root, isend_root, nsent, net, posted, request>>
<1>1. CASE EnterWaitArray(r, c)
  BY <1>1 DEF EnterWaitArray, QuietOps, mpiVars
<1>2. CASE EnterTest(r, c)
  BY <1>2 DEF EnterTest, QuietOps, TestOps, mpiVars
<1>3. CASE EnterDown(r, c)
  BY <1>3 DEF EnterDown, QuietOps, DownOps
<1>4. CASE EnterUp(r, c)
  BY <1>4 DEF EnterUp, QuietOps, UpOps
<1>5. CASE EnterPlain(r, c)
  <2>1. c.op \in PlainOps /\ c.op \in QuietOps
    BY <1>5 DEF EnterPlain, QuietOps
  <2>2. c.op # "MPI_Wait" /\ c.op # "MPI_Finalize"
    BY <2>1, PlainApart
  <2> QED
    BY <1>5, <2>1, <2>2 DEF EnterPlain
<1> QED
  BY <1>1, <1>2, <1>3, <1>4, <1>5 DEF QuietEnter

\* ... and on the way out.
QuietLeave(r) == LeaveDown(r) \/ LeaveUp(r) \/ LeavePlain(r)

LEMMA QuietLeaveShape ==
  ASSUME NEW r, QuietLeave(r)
  PROVE  /\ call[r].op \in QuietOps \ {"MPI_Wait", "MPI_Finalize"}
         /\ \E events : Leave(r, events)
         /\ UNCHANGED <<send_mark, irecv_root, isend_root, nsent, net, posted, request>>
<1>1. CASE LeaveDown(r)
  BY <1>1 DEF LeaveDown, QuietOps, DownOps, mpiVars
<1>2. CASE LeaveUp(r)
  BY <1>2 DEF LeaveUp, QuietOps, UpOps, mpiVars
<1>3. CASE LeavePlain(r)
  <2>1. call[r].op \in PlainOps /\ call[r].op \in QuietOps
    BY <1>3 DEF LeavePlain, QuietOps
  <2>2. call[r].op # "MPI_Wait" /\ call[r].op # "MPI_Finalize"
    BY <2>1, PlainApart
  <2> QED
    BY <1>3, <2>1, <2>2 DEF LeavePlain, mpiVars
<1> QED
  BY <1>1, <1>2, <1>3 DEF QuietLeave

LEMMA EnterCallKeeps ==
  ASSUME RequestsInv, NEW r \in Ranks, NEW c \in Calls[r], EnterCall(r, c)
  PROVE  RequestsInv'
<1>1. CASE QuietEnter(r, c)
  <2>1. isend_root' \in [Ranks -> Trees]
    BY <1>1, QuietEnterShape DEF RequestsInv, RequestsTypeOK
  <2> QED
    BY <1>1, <2>1, QuietEnterShape, QuietEnterKeeps
<1> QED
  BY <1>1, EnterSendKeeps, EnterRecvKeeps, EnterIrecvKeeps, EnterSendrecvKeeps, EnterWaitKeeps
     DEF EnterCall, QuietEnter

LEMMA LeaveCallKeeps ==
  ASSUME RequestsInv, NEW r \in Ranks, LeaveCall(r)
  PROVE  RequestsInv'
<1>1. CASE QuietLeave(r)
  BY <1>1, QuietLeaveShape, QuietLeaveKeeps
<1>2. CASE LeaveWait(r) \/ LeaveWaitall(r) \/ LeaveWaitany(r)
  <2>1. call[r].op \in QuietOps
    BY <1>2 DEF LeaveWait, LeaveWaitall, LeaveWaitany, QuietOps
  <2>2. \E done : FinishRequests(r, done)
    BY <1>2 DEF LeaveWait, LeaveWaitall, LeaveWaitany
  <2> QED
    BY <2>1, <2>2, FinishKeeps
<1> QED
  BY <1>1, <1>2, LeaveSendKeeps, LeaveRecvKeeps, LeaveIrecvKeeps, LeaveTestKeeps
     DEF LeaveCall, QuietLeave

requestVars ==
  <<pc, call, ncalls, send_mark, irecv_root, isend_root, nsent, net, posted, request>>

\* aky_converter changes nothing that the processes of the application know.
LEMMA ConverterApart ==
  ASSUME ConverterNext \/ UNCHANGED vars
  PROVE  UNCHANGED requestVars
  BY DEF ConverterNext, DecodeNext, CloseTrace, vars, tracerVars, mpiVars, requestVars

LEMMA UnchangedKeeps ==
  ASSUME RequestsInv, UNCHANGED requestVars
  PROVE  RequestsInv'
<1> USE DEF requestVars
<1>1. RequestsTypeOK' /\ CallsAreOwn' /\ PostedOnce' /\ PostedWait'
  BY DEF RequestsInv, RequestsTypeOK, CallsAreOwn, PostedOnce, PostedWait
<1>2. BlockingUse' /\ MarksCountSends'
  BY DEF RequestsInv, BlockingUse, MarksCountSends, Within
<1> QED
  BY <1>1, <1>2 DEF RequestsInv

LEMMA RequestsInvStep ==
  ASSUME RequestsInv, [Next]_vars
  PROVE  RequestsInv'
<1>1. CASE \E r \in Ranks : InitCall(r) \/ EnterFinalize(r) \/ LeaveFinalize(r) \/ LeaveCall(r)
  BY <1>1, InitKeeps, EnterFinalizeKeeps, LeaveFinalizeKeeps, LeaveCallKeeps
<1>2. CASE \E r \in Ranks : \E c \in Calls[r] : EnterCall(r, c)
  BY <1>2, EnterCallKeeps
<1>3. CASE \E s, d \in Ranks : Deliver(s, d)
  BY <1>3, DeliverKeeps
<1>4. CASE ConverterNext \/ UNCHANGED vars
  BY <1>4, ConverterApart, UnchangedKeeps
<1> QED
  BY <1>1, <1>2, <1>3, <1>4 DEF Next, TracerStep, TracerNext

-----------------------------------------------------------------------------
(***************************************************************************)
(* The irecvs.  Between the start of PMPI_Irecv and the return of          *)
(* MPI_Irecv the request is known to MPI and not yet to the wrapper.       *)
(***************************************************************************)
\* The requests of receives that no call has completed.
Live(r) == {a \in Reqs : request[r][a].st \in {"posted", "arrived"}}

IrecvsOf(r) ==
  /\ DOMAIN irecv_root[r] = Live(r) \ (IF Within(r, {"MPI_Irecv"}) THEN {call[r].req} ELSE {})
  /\ Within(r, {"MPI_Irecv"}) => call[r].req \in Live(r)

IrecvsInv == \A r \in Ranks : IrecvsOf(r)

\* The application completes its receives with MPI_Wait, MPI_Waitall and MPI_Waitany,
\* which look at irecv_root; MPI_Waitsome and the tests complete them and do not.
NoTests == \A r \in Ranks : \A c \in Calls[r] : c.op \notin TestOps

\* A step of rank r after which its irecvs are the same, or said to be right.
LEMMA OtherIrecvs ==
  ASSUME IrecvsInv, NEW r \in Ranks,
         \A q \in Ranks \ {r} :
           /\ pc'[q] = pc[q] /\ call'[q] = call[q] /\ irecv_root'[q] = irecv_root[q]
           /\ \A a \in Reqs : request'[q][a] = request[q][a],
         IrecvsOf(r)'
  PROVE  IrecvsInv'
<1> SUFFICES ASSUME NEW q \in Ranks, q # r PROVE IrecvsOf(q)'
  BY DEF IrecvsInv
<1>1. Live(q)' = Live(q) /\ IrecvsOf(q)
  BY DEF Live, IrecvsInv
<1> QED
  BY <1>1 DEF IrecvsOf, Within

LEMMA SameIrecvs ==
  ASSUME IrecvsInv, NEW r \in Ranks,
         \A q \in Ranks \ {r} :
           /\ pc'[q] = pc[q] /\ call'[q] = call[q]
           /\ \A a \in Reqs : request'[q][a] = request[q][a],
         \A a \in Reqs : a \in Live(r)' <=> a \in Live(r),
         irecv_root' = irecv_root,
         ~Within(r, {"MPI_Irecv"}), ~Within(r, {"MPI_Irecv"})'
  PROVE  IrecvsInv'
<1>1. Live(r)' = Live(r)
  BY DEF Live
<1>2. IrecvsOf(r)'
  BY <1>1 DEF IrecvsOf, IrecvsInv
<1> QED
  BY <1>2, OtherIrecvs

LEMMA IrecvsEnter ==
  ASSUME RequestsInv, IrecvsInv, NEW r \in Ranks, NEW c \in Calls[r], EnterCall(r, c)
  PROVE  IrecvsInv'
<1>1. /\ RequestsTypeOK /\ CallsAreOwn /\ request \in [Ranks -> [Slots -> Request]]
  BY DEF RequestsInv, RequestsTypeOK
<1>2. ASSUME NEW events, Enter(r, c, events)
      PROVE  /\ ~Within(r, {"MPI_Irecv"})
             /\ Within(r, {"MPI_Irecv"})' <=> c.op = "MPI_Irecv"
             /\ call'[r] = c
             /\ \A q \in Ranks \ {r} : pc'[q] = pc[q] /\ call'[q] = call[q]
  BY <1>1, <1>2, EnterShape DEF Within
<1>3. CASE QuietEnter(r, c) \/ EnterWait(r, c)
  <2>1. /\ \E events : Enter(r, c, events)
        /\ c.op # "MPI_Irecv" /\ irecv_root' = irecv_root /\ request' = request
    BY <1>3, QuietEnterShape, OpsApart DEF EnterWait, mpiVars, MovingOps
  <2>2. \A a \in Reqs : a \in Live(r)' <=> a \in Live(r)
    BY <2>1 DEF Live
  <2> QED
    BY <1>2, <2>1, <2>2, SameIrecvs
<1>4. CASE EnterSend(r, c)
  <2>1. /\ \E events : Enter(r, c, events)
        /\ c.op \in SendOps /\ c.op # "MPI_Irecv" /\ irecv_root' = irecv_root
    BY <1>4 DEF EnterSend, SendOps, BlockingSends, ForgottenSends
  <2>2. \/ request' = request
        \/ /\ c.req \in Slots /\ request[r][c.req].st = "null"
           /\ \E v \in Request : v.st \in {"send", "isend"} /\ RequestBecomes(r, c.req, v)
    BY <1>4, SendsRequest
  <2>3. /\ \A q \in Ranks \ {r} : \A a \in Reqs : request'[q][a] = request[q][a]
        /\ \A a \in Reqs : a \in Live(r)' <=> a \in Live(r)
    BY <2>2 DEF RequestBecomes, Live, Slots
  <2> QED
    BY <1>2, <2>1, <2>3, SameIrecvs
<1>5. CASE EnterRecv(r, c) \/ EnterSendrecv(r, c)
  <2>1. /\ \E events : Enter(r, c, events)
        /\ c.op # "MPI_Irecv" /\ irecv_root' = irecv_root
        /\ request' = [request EXCEPT ![r][Blocking] = [Null EXCEPT !.st = "posted"]]
    BY <1>5 DEF EnterRecv, EnterSendrecv, SendrecvOps, Post
  <2>2. /\ \A q \in Ranks \ {r} : \A a \in Reqs : request'[q][a] = request[q][a]
        /\ \A a \in Reqs : request'[r][a] = request[r][a]
    BY <1>1, <2>1, BlockingApart DEF Slots
  <2>3. \A a \in Reqs : a \in Live(r)' <=> a \in Live(r)
    BY <2>2 DEF Live
  <2> QED
    BY <1>2, <2>1, <2>2, <2>3, SameIrecvs
<1>6. CASE EnterIrecv(r, c)
  <2>1. /\ \E events : Enter(r, c, events)
        /\ c.op = "MPI_Irecv" /\ irecv_root' = irecv_root /\ request[r][c.req].st = "null"
        /\ Post(r, c.req, c.comm, c.peer, c.tag)
    BY <1>6 DEF EnterIrecv
  <2>2. c.req \in Reqs /\ c.req \in Slots
    BY <2>1, TracerAssumption DEF RequestOps, Slots
  <2>3. RequestBecomes(r, c.req, [Null EXCEPT !.st = "posted"])
    BY <2>1, <2>2, PostShape DEF Posts
  <2>4. /\ request'[r][c.req].st = "posted"
        /\ \A q \in Ranks, a \in Reqs : q # r \/ a # c.req => request'[q][a] = request[q][a]
    BY <2>3 DEF RequestBecomes, Null, Slots
  <2>5. Live(r)' = Live(r) \cup {c.req} /\ c.req \notin Live(r)
    BY <2>1, <2>2, <2>4 DEF Live
  <2>6. IrecvsOf(r)'
    BY <1>2, <2>1, <2>5 DEF IrecvsOf, IrecvsInv
  <2> QED
    BY <1>2, <2>1, <2>4, <2>6, OtherIrecvs
<1> QED
  BY <1>3, <1>4, <1>5, <1>6 DEF EnterCall, QuietEnter

LEMMA IrecvsFinish ==
  ASSUME RequestsInv, IrecvsInv, NEW r \in Ranks, NEW done, FinishRequests(r, done),
         call[r].op \in QuietOps
  PROVE  IrecvsInv'
<1>1. /\ \E events : Leave(r, events)
      /\ irecv_root' = [irecv_root EXCEPT ![r] = [a \in DOMAIN @ \ done |-> @[a]]]
      /\ request' = [request EXCEPT ![r] = [a \in DOMAIN @ |-> IF a \in done THEN Null ELSE @[a]]]
  BY DEF FinishRequests
<1>2. /\ request \in [Ranks -> [Slots -> Request]] /\ irecv_root \in [Ranks -> Trees]
      /\ RequestsTypeOK /\ CallsAreOwn
  BY DEF RequestsInv, RequestsTypeOK
<1>3. /\ pc'[r] = "app" /\ \A q \in Ranks \ {r} : pc'[q] = pc[q] /\ call'[q] = call[q]
  BY <1>1, <1>2, LeaveShape
<1>4. /\ \A q \in Ranks \ {r} : request'[q] = request[q] /\ irecv_root'[q] = irecv_root[q]
      /\ irecv_root'[r] = [a \in DOMAIN irecv_root[r] \ done |-> irecv_root[r][a]]
      /\ \A a \in Slots : request'[r][a] = IF a \in done THEN Null ELSE request[r][a]
  BY <1>1, <1>2
<1>5. Live(r)' = Live(r) \ done
  BY <1>4, NullIsRequest DEF Live, Slots
<1>6. ~Within(r, {"MPI_Irecv"}) /\ ~Within(r, {"MPI_Irecv"})'
  BY <1>3, OpsApart DEF Within, MovingOps
<1>7. DOMAIN irecv_root[r] = Live(r)
  BY <1>6 DEF IrecvsInv, IrecvsOf
<1>8. IrecvsOf(r)'
  BY <1>4, <1>5, <1>6, <1>7 DEF IrecvsOf
<1> QED
  BY <1>3, <1>4, <1>8, OtherIrecvs

LEMMA IrecvsLeave ==
  ASSUME RequestsInv, IrecvsInv, NoTests, NEW r \in Ranks, LeaveCall(r)
  PROVE  IrecvsInv'
<1>1. /\ RequestsTypeOK /\ CallsAreOwn /\ request \in [Ranks -> [Slots -> Request]]
      /\ irecv_root \in [Ranks -> Trees]
  BY DEF RequestsInv, RequestsTypeOK
<1>2. ASSUME NEW events, Leave(r, events)
      PROVE  /\ ~Within(r, {"MPI_Irecv"})' /\ pc[r] = "call"
             /\ call[r] \in Calls[r] \cup {Finalize}
             /\ \A q \in Ranks \ {r} : pc'[q] = pc[q] /\ call'[q] = call[q]
  BY <1>1, <1>2, LeaveShape DEF Within
<1>3. CASE QuietLeave(r)
  <2>1. /\ \E events : Leave(r, events)
        /\ call[r].op # "MPI_Irecv" /\ irecv_root' = irecv_root /\ request' = request
    BY <1>3, QuietLeaveShape, OpsApart DEF MovingOps
  <2>2. \A a \in Reqs : a \in Live(r)' <=> a \in Live(r)
    BY <2>1 DEF Live
  <2>3. ~Within(r, {"MPI_Irecv"})
    BY <2>1 DEF Within
  <2> QED
    BY <1>2, <2>1, <2>2, <2>3, SameIrecvs
<1>4. CASE LeaveSend(r)
  <2>1. /\ \E events : Leave(r, events)
        /\ call[r].op # "MPI_Irecv" /\ irecv_root' = irecv_root /\ request' = request
    BY <1>4 DEF LeaveSend, SendOps, BlockingSends, ForgottenSends, mpiVars
  <2>2. \A a \in Reqs : a \in Live(r)' <=> a \in Live(r)
    BY <2>1 DEF Live
  <2>3. ~Within(r, {"MPI_Irecv"})
    BY <2>1 DEF Within
  <2> QED
    BY <1>2, <2>1, <2>2, <2>3, SameIrecvs
<1>5. CASE LeaveRecv(r) \/ LeaveSendrecv(r)
  <2>1. /\ \E events : Leave(r, events)
        /\ call[r].op # "MPI_Irecv" /\ irecv_root' = irecv_root
        /\ request' = [request EXCEPT ![r][Blocking] = Null]
    BY <1>5 DEF LeaveRecv, LeaveSendrecv, SendrecvOps
  <2>2. /\ \A q \in Ranks \ {r} : \A a \in Reqs : request'[q][a] = request[q][a]
        /\ \A a \in Reqs : request'[r][a] = request[r][a]
    BY <1>1, <2>1, BlockingApart DEF Slots
  <2>3. \A a \in Reqs : a \in Live(r)' <=> a \in Live(r)
    BY <2>2 DEF Live
  <2>4. ~Within(r, {"MPI_Irecv"})
    BY <2>1 DEF Within
  <2> QED
    BY <1>2, <2>1, <2>2, <2>3, <2>4, SameIrecvs
<1>6. CASE LeaveIrecv(r)
  <2>1. /\ \E events : Leave(r, events)
        /\ call[r].op = "MPI_Irecv" /\ request' = request
        /\ irecv_root' = [irecv_root EXCEPT ![r] = aky_insert_irecv(@, call[r].req)]
    BY <1>6 DEF LeaveIrecv, mpiVars
  <2>2. Within(r, {"MPI_Irecv"})
    BY <1>2, <2>1 DEF Within
  <2>3. /\ DOMAIN irecv_root[r] = Live(r) \ {call[r].req} /\ call[r].req \in Live(r)
        /\ Live(r)' = Live(r)
    BY <2>1, <2>2 DEF IrecvsInv, IrecvsOf, Live
  <2>4. /\ \A q \in Ranks \ {r} : irecv_root'[q] = irecv_root[q]
        /\ DOMAIN irecv_root'[r] = DOMAIN irecv_root[r] \cup {call[r].req}
    BY <1>1, <2>1 DEF aky_insert_irecv, aky_insert
  <2>5. IrecvsOf(r)'
    BY <1>2, <2>1, <2>3, <2>4 DEF IrecvsOf
  <2> QED
    BY <1>2, <2>1, <2>4, <2>5, OtherIrecvs
<1>7. CASE LeaveWait(r) \/ LeaveWaitall(r) \/ LeaveWaitany(r)
  <2>1. call[r].op \in QuietOps
    BY <1>7 DEF LeaveWait, LeaveWaitall, LeaveWaitany, QuietOps
  <2>2. \E done : FinishRequests(r, done)
    BY <1>7 DEF LeaveWait, LeaveWaitall, LeaveWaitany
  <2> QED
    BY <2>1, <2>2, IrecvsFinish
<1>8. CASE LeaveTest(r)
  <2>1. call[r].op \in TestOps /\ \E events : Leave(r, events)
    BY <1>8 DEF LeaveTest
  <2>2. call[r] \in Calls[r]
    BY <1>2, <2>1 DEF TestOps, Finalize
  <2> QED
    BY <2>1, <2>2 DEF NoTests
<1> QED
  BY <1>3, <1>4, <1>5, <1>6, <1>7, <1>8 DEF LeaveCall, QuietLeave

LEMMA IrecvsDeliver ==
  ASSUME RequestsInv, IrecvsInv, NEW s \in Ranks, NEW d \in Ranks, Deliver(s, d)
  PROVE  IrecvsInv'
<1>1. UNCHANGED <<pc, call, irecv_root>> /\ Match(s, d)
  BY DEF Deliver
<1>2. PICK j \in DOMAIN posted[d], v \in Request :
        v.st = "arrived" /\ RequestBecomes(d, posted[d][j].slot, v)
  BY <1>1, MatchShape
<1>3. posted[d][j].slot \in Slots /\ request[d][posted[d][j].slot].st = "posted"
  BY SlotsOfPosted DEF RequestsInv, RequestsTypeOK, PostedWait
<1>4. ASSUME NEW q \in Ranks PROVE Live(q)' = Live(q)
  BY <1>2, <1>3 DEF Live, RequestBecomes, Slots
<1> QED
  BY <1>1, <1>4 DEF IrecvsInv, IrecvsOf, Within

\* MPI_Init and MPI_Finalize.
LEMMA IrecvsEnds ==
  ASSUME RequestsInv, IrecvsInv, NEW r \in Ranks,
         InitCall(r) \/ EnterFinalize(r) \/ LeaveFinalize(r)
  PROVE  IrecvsInv'
<1>1. pc \in [Ranks -> {"start", "app", "call", "end"}]
      /\ call \in [Ranks -> AllCalls \cup {NoCall, Finalize}]
  BY DEF RequestsInv, RequestsTypeOK
<1>2. /\ \A q \in Ranks \ {r} : pc'[q] = pc[q] /\ call'[q] = call[q]
      /\ ~Within(r, {"MPI_Irecv"}) /\ ~Within(r, {"MPI_Irecv"})'
      /\ UNCHANGED <<irecv_root, request>>
  <2>1. CASE InitCall(r)
    BY <1>1, <2>1 DEF InitCall, mpiVars, Within
  <2>2. CASE EnterFinalize(r)
    BY <1>1, <2>2 DEF EnterFinalize, mpiVars, Within
  <2>3. CASE LeaveFinalize(r)
    BY <1>1, <2>3 DEF LeaveFinalize, mpiVars, Within
  <2> QED
    BY <2>1, <2>2, <2>3
<1>3. \A a \in Reqs : a \in Live(r)' <=> a \in Live(r)
  BY <1>2 DEF Live
<1> QED
  BY <1>2, <1>3, SameIrecvs

LEMMA IrecvsInvStep ==
  ASSUME RequestsInv, IrecvsInv, NoTests, [Next]_vars
  PROVE  IrecvsInv'
<1>1. CASE \E r \in Ranks : InitCall(r) \/ EnterFinalize(r) \/ LeaveFinalize(r) \/ LeaveCall(r)
  BY <1>1, IrecvsEnds, IrecvsLeave
<1>2. CASE \E r \in Ranks : \E c \in Calls[r] : EnterCall(r, c)
  BY <1>2, IrecvsEnter
<1>3. CASE \E s, d \in Ranks : Deliver(s, d)
  BY <1>3, IrecvsDeliver
<1>4. CASE ConverterNext \/ UNCHANGED vars
  <2>1. UNCHANGED requestVars
    BY <1>4, ConverterApart
  <2> QED
    BY <2>1 DEF requestVars, IrecvsInv, IrecvsOf, Live, Within
<1> QED
  BY <1>1, <1>2, <1>3, <1>4 DEF Next, TracerStep, TracerNext

LEMMA IrecvsInvInit ==
  ASSUME Init
  PROVE  IrecvsInv
  BY BlockingApart
  DEF Init, TracerInit, MpiInit, IrecvsInv, IrecvsOf, Live, Within, NoTree, Null

\* aky_irecv_root of every process holds the requests of the receives that are not
\* completed, whatever the calls and their order, and wherever PMPI matches messages.
THEOREM IrecvsAreRemembered ==
  ASSUME NoTests
  PROVE  Spec => []IrecvsRemembered
<1>1. Init => RequestsInv /\ IrecvsInv
  <2> SUFFICES ASSUME Init PROVE RequestsInv /\ IrecvsInv
    OBVIOUS
  <2>1. RequestsInv
    BY RequestsInvInit DEF Init
  <2>2. IrecvsInv
    BY IrecvsInvInit
  <2> QED
    BY <2>1, <2>2
<1>2. RequestsInv /\ IrecvsInv /\ [Next]_vars => (RequestsInv /\ IrecvsInv)'
  BY RequestsInvStep, IrecvsInvStep
<1>3. RequestsInv /\ IrecvsInv => IrecvsRemembered
  BY DEF IrecvsInv, IrecvsOf, Within, Live, IrecvsRemembered, BetweenCalls
<1> QED
  BY <1>1, <1>2, <1>3, PTL DEF Spec

-----------------------------------------------------------------------------
(***************************************************************************)
(* The isends.  MPI_Isend remembers its request when it returns, and       *)
(* MPI_Wait forgets it before PMPI_Wait: in both calls MPI still knows it.  *)
(***************************************************************************)
\* The requests of MPI_Isend that no call has completed.
Isends(r) == {a \in Reqs : request[r][a].st = "isend"}
IsendCalls == {"MPI_Isend", "MPI_Wait"}

IsendsOf(r) ==
  /\ DOMAIN isend_root[r] = Isends(r) \ (IF Within(r, IsendCalls) THEN {call[r].req} ELSE {})
  /\ \A a \in DOMAIN isend_root[r] : isend_root[r][a] = request[r][a].mark
  /\ Within(r, {"MPI_Isend"}) =>
       /\ call[r].req \in Isends(r)
       /\ request[r][call[r].req].mark = send_mark[r]
  /\ Isends(r) # {} => \E c \in Calls[r] : c.op = "MPI_Isend"

IsendsInv == \A r \in Ranks : IsendsOf(r)

\* A rank that calls MPI_Isend waits for its requests one by one: no other call that
\* completes requests looks at isend_root.
WaitsForIsends ==
  \A r \in Ranks : (\E c \in Calls[r] : c.op = "MPI_Isend") =>
    \A c \in Calls[r] : c.op \notin {"MPI_Waitall", "MPI_Waitany"} \cup TestOps

LEMMA OtherIsends ==
  ASSUME IsendsInv, NEW r \in Ranks,
         \A q \in Ranks \ {r} :
           /\ pc'[q] = pc[q] /\ call'[q] = call[q] /\ isend_root'[q] = isend_root[q]
           /\ send_mark'[q] = send_mark[q]
           /\ \A a \in Reqs : request'[q][a] = request[q][a],
         IsendsOf(r)'
  PROVE  IsendsInv'
<1> SUFFICES ASSUME NEW q \in Ranks, q # r PROVE IsendsOf(q)'
  BY DEF IsendsInv
<1>1. Isends(q)' = Isends(q) /\ IsendsOf(q)
  BY DEF Isends, IsendsInv
<1>2. DOMAIN isend_root[q] \subseteq Reqs
  BY <1>1 DEF IsendsOf, Isends
<1>3. Within(q, {"MPI_Isend"}) => call[q].req \in Reqs
  BY <1>1 DEF IsendsOf, Isends
<1> QED
  BY <1>1, <1>2, <1>3 DEF IsendsOf, Within

\* A step of rank r that changes neither its isends nor the tree.
LEMMA SameIsends ==
  ASSUME IsendsInv, NEW r \in Ranks,
         \A q \in Ranks \ {r} :
           /\ pc'[q] = pc[q] /\ call'[q] = call[q] /\ send_mark'[q] = send_mark[q]
           /\ \A a \in Reqs : request'[q][a] = request[q][a],
         isend_root' = isend_root,
         \A a \in Reqs : /\ a \in Isends(r)' <=> a \in Isends(r)
                         /\ a \in Isends(r) => request'[r][a] = request[r][a],
         ~Within(r, IsendCalls), ~Within(r, IsendCalls)'
  PROVE  IsendsInv'
<1>1. Isends(r)' = Isends(r) /\ IsendsOf(r)
  BY DEF Isends, IsendsInv
<1>2. DOMAIN isend_root[r] = Isends(r)
  BY <1>1 DEF IsendsOf
<1>3. ~Within(r, {"MPI_Isend"})'
  BY DEF Within, IsendCalls
<1>4. \A a \in Isends(r) : request'[r][a] = request[r][a]
  BY DEF Isends
<1>5. IsendsOf(r)'
  BY <1>1, <1>2, <1>3, <1>4 DEF IsendsOf
<1> QED
  BY <1>5, OtherIsends

LEMMA IsendsEnter ==
  ASSUME RequestsInv, IsendsInv, NEW r \in Ranks, NEW c \in Calls[r], EnterCall(r, c)
  PROVE  IsendsInv'
<1>1. /\ RequestsTypeOK /\ CallsAreOwn /\ request \in [Ranks -> [Slots -> Request]]
      /\ isend_root \in [Ranks -> Trees]
  BY DEF RequestsInv, RequestsTypeOK
<1>2. ASSUME NEW events, Enter(r, c, events)
      PROVE  /\ ~Within(r, IsendCalls)
             /\ Within(r, IsendCalls)' <=> c.op \in IsendCalls
             /\ Within(r, {"MPI_Isend"})' <=> c.op = "MPI_Isend"
             /\ call'[r] = c
             /\ \A q \in Ranks \ {r} : pc'[q] = pc[q] /\ call'[q] = call[q]
  BY <1>1, <1>2, EnterShape DEF Within
<1>3. CASE QuietEnter(r, c)
  <2>1. /\ \E events : Enter(r, c, events)
        /\ c.op \notin IsendCalls
        /\ isend_root' = isend_root /\ request' = request /\ send_mark' = send_mark
    BY <1>3, QuietEnterShape, OpsApart DEF MovingOps, SendOps, IsendCalls
  <2>2. \A a \in Reqs : a \in Isends(r)' <=> a \in Isends(r)
    BY <2>1 DEF Isends
  <2> QED
    BY <1>2, <2>1, <2>2, SameIsends
<1>4. CASE EnterRecv(r, c) \/ EnterSendrecv(r, c) \/ EnterIrecv(r, c)
  <2>1. /\ \E events : Enter(r, c, events)
        /\ c.op \in {"MPI_Recv", "MPI_Irecv"} \cup SendrecvOps
        /\ isend_root' = isend_root /\ send_mark' = send_mark
    BY <1>4 DEF EnterRecv, EnterSendrecv, EnterIrecv
  <2>2. \E slot \in Slots :
          request[r][slot].st = "null" /\ RequestBecomes(r, slot, [Null EXCEPT !.st = "posted"])
    <3>1. CASE EnterIrecv(r, c)
      <4>1. c.req \in Slots
        BY <3>1, TracerAssumption DEF EnterIrecv, RequestOps, Slots
      <4> QED
        BY <3>1, <4>1, PostShape DEF EnterIrecv, Posts
    <3>2. CASE EnterRecv(r, c) \/ EnterSendrecv(r, c)
      <4>1. request[r][Blocking].st = "null"
        BY <2>1 DEF RequestsInv, BlockingUse, Within, Enter
      <4> QED
        BY <3>2, <4>1, BlockingApart, PostShape DEF EnterRecv, EnterSendrecv, Posts
    <3> QED
      BY <1>4, <3>1, <3>2
  <2>3. /\ \A q \in Ranks \ {r} : \A a \in Reqs : request'[q][a] = request[q][a]
        /\ \A a \in Reqs : /\ a \in Isends(r)' <=> a \in Isends(r)
                           /\ a \in Isends(r) => request'[r][a] = request[r][a]
    BY <2>2 DEF RequestBecomes, Isends, Null, Slots
  <2>4. c.op \notin IsendCalls
    BY <2>1 DEF IsendCalls, SendrecvOps
  <2> QED
    BY <1>2, <2>1, <2>3, <2>4, SameIsends
<1>5. CASE EnterSend(r, c) /\ c.op # "MPI_Isend"
  <2>1. /\ \E events : Enter(r, c, events)
        /\ isend_root' = isend_root /\ send_mark' = send_mark
        /\ c.op \notin IsendCalls
    BY <1>5 DEF EnterSend, IsendCalls, SendOps, BlockingSends, ForgottenSends
  <2>2. /\ \A q \in Ranks \ {r} : \A a \in Reqs : request'[q][a] = request[q][a]
        /\ \A a \in Reqs : /\ a \in Isends(r)' <=> a \in Isends(r)
                           /\ a \in Isends(r) => request'[r][a] = request[r][a]
    BY <1>5, SendsRequest DEF RequestBecomes, Isends, Slots
  <2> QED
    BY <1>2, <2>1, <2>2, SameIsends
<1>6. CASE EnterSend(r, c) /\ c.op = "MPI_Isend"
  <2>1. /\ \E events : Enter(r, c, events)
        /\ isend_root' = isend_root /\ send_mark' = send_mark
    BY <1>6 DEF EnterSend
  <2>2. PICK v \in Request :
          /\ c.req \in Reqs /\ c.req \in Slots /\ request[r][c.req].st = "null"
          /\ v.st = "isend" /\ v.mark = send_mark[r] /\ RequestBecomes(r, c.req, v)
    BY <1>6, SendsRequest DEF BlockingSends
  <2>3. /\ \A q \in Ranks \ {r} : \A a \in Reqs : request'[q][a] = request[q][a]
        /\ Isends(r)' = Isends(r) \cup {c.req} /\ c.req \notin Isends(r)
        /\ \A a \in Isends(r) : request'[r][a] = request[r][a]
        /\ request'[r][c.req].mark = send_mark[r]
    BY <2>2 DEF RequestBecomes, Isends, Slots
  <2>4. DOMAIN isend_root[r] = Isends(r)
    BY <1>2, <2>1 DEF IsendsInv, IsendsOf
  <2>5. IsendsOf(r)'
    <3>1. Within(r, IsendCalls)' /\ call'[r].req = c.req
      BY <1>2, <1>6, <2>1 DEF IsendCalls
    <3>2. \A a \in DOMAIN isend_root[r] : isend_root[r][a] = request'[r][a].mark
      BY <2>3, <2>4 DEF IsendsInv, IsendsOf
    <3> QED
      BY <1>6, <2>1, <2>3, <2>4, <3>1, <3>2 DEF IsendsOf
  <2> QED
    BY <1>2, <2>1, <2>3, <2>5, OtherIsends
<1>7. CASE EnterWait(r, c)
  <2>1. /\ \E events : Enter(r, c, events)
        /\ c.op = "MPI_Wait" /\ send_mark' = send_mark /\ request' = request
        /\ isend_root' = IF aky_check(isend_root[r], c.req) = 0 THEN isend_root
                         ELSE [isend_root EXCEPT ![r] = aky_remove(@, c.req)]
    BY <1>7 DEF EnterWait, mpiVars
  <2>2. /\ \A q \in Ranks \ {r} : isend_root'[q] = isend_root[q]
        /\ DOMAIN isend_root'[r] = DOMAIN isend_root[r] \ {c.req}
        /\ \A a \in DOMAIN isend_root'[r] : isend_root'[r][a] = isend_root[r][a]
    <3>1. CASE aky_check(isend_root[r], c.req) = 0
      <4>1. c.req \notin DOMAIN isend_root[r]
        BY <3>1 DEF aky_check
      <4> QED
        BY <2>1, <3>1, <4>1
    <3>2. CASE aky_check(isend_root[r], c.req) # 0
      <4>1. /\ isend_root'[r] = aky_remove(isend_root[r], c.req)
            /\ \A q \in Ranks \ {r} : isend_root'[q] = isend_root[q]
        BY <1>1, <2>1, <3>2
      <4> QED
        BY <4>1 DEF aky_remove
    <3> QED
      BY <3>1, <3>2
  <2>3. Isends(r)' = Isends(r) /\ DOMAIN isend_root[r] = Isends(r)
    BY <1>2, <2>1 DEF IsendsInv, IsendsOf, Isends
  <2>4. IsendsOf(r)'
    <3>1. Within(r, IsendCalls)' /\ call'[r].req = c.req /\ ~Within(r, {"MPI_Isend"})'
      BY <1>2, <2>1 DEF IsendCalls
    <3>2. \A a \in DOMAIN isend_root'[r] : isend_root'[r][a] = request'[r][a].mark
      BY <2>1, <2>2 DEF IsendsInv, IsendsOf
    <3>3. DOMAIN isend_root'[r] = Isends(r)' \ {c.req}
      BY <2>2, <2>3
    <3>4. Isends(r)' # {} => \E b \in Calls[r] : b.op = "MPI_Isend"
      BY <2>3 DEF IsendsInv, IsendsOf
    <3> QED
      BY <3>1, <3>2, <3>3, <3>4 DEF IsendsOf
  <2> QED
    BY <1>2, <2>1, <2>2, <2>4, OtherIsends
<1> QED
  BY <1>3, <1>4, <1>5, <1>6, <1>7 DEF EnterCall, QuietEnter

\* Where a rank never calls MPI_Isend there is nothing to remember.
LEMMA NoIsends ==
  ASSUME IsendsInv, NEW r \in Ranks, \A c \in Calls[r] : c.op # "MPI_Isend"
  PROVE  Isends(r) = {} /\ DOMAIN isend_root[r] = {}
  BY DEF IsendsInv, IsendsOf

\* A call returns that completes requests, none of them an isend of its rank.
LEMMA IsendsUntouched ==
  ASSUME RequestsInv, IsendsInv, NEW r \in Ranks, NEW events, Leave(r, events),
         isend_root' = isend_root, send_mark' = send_mark,
         \A q \in Ranks \ {r} : request'[q] = request[q],
         \A a \in Reqs : request'[r][a] = Null \/ request'[r][a] = request[r][a],
         Isends(r) = {}, call[r].op \notin IsendCalls
  PROVE  IsendsInv'
<1>1. RequestsTypeOK /\ CallsAreOwn
  BY DEF RequestsInv
<1>2. /\ pc'[r] = "app" /\ \A q \in Ranks \ {r} : pc'[q] = pc[q] /\ call'[q] = call[q]
  BY <1>1, LeaveShape
<1>3. ~Within(r, IsendCalls) /\ ~Within(r, IsendCalls)'
  BY <1>2 DEF Within
<1>4. \A a \in Reqs : /\ a \in Isends(r)' <=> a \in Isends(r)
                      /\ a \in Isends(r) => request'[r][a] = request[r][a]
  BY NullIsRequest DEF Isends
<1> QED
  BY <1>2, <1>3, <1>4, SameIsends

LEMMA IsendsLeave ==
  ASSUME RequestsInv, IsendsInv, WaitsForIsends, NEW r \in Ranks, LeaveCall(r)
  PROVE  IsendsInv'
<1>1. /\ RequestsTypeOK /\ CallsAreOwn /\ request \in [Ranks -> [Slots -> Request]]
      /\ isend_root \in [Ranks -> Trees] /\ send_mark \in [Ranks -> Nat]
  BY DEF RequestsInv, RequestsTypeOK
<1>2. ASSUME NEW events, Leave(r, events)
      PROVE  /\ ~Within(r, IsendCalls)' /\ ~Within(r, {"MPI_Isend"})' /\ pc[r] = "call"
             /\ call[r] \in Calls[r] \cup {Finalize}
             /\ \A q \in Ranks \ {r} : pc'[q] = pc[q] /\ call'[q] = call[q]
  BY <1>1, <1>2, LeaveShape DEF Within
<1>3. CASE QuietLeave(r) \/ LeaveIrecv(r) \/ LeaveRecv(r) \/ LeaveSendrecv(r)
  <2>1. /\ \E events : Leave(r, events)
        /\ call[r].op \notin IsendCalls
        /\ isend_root' = isend_root /\ send_mark' = send_mark
    <3>1. CASE QuietLeave(r)
      BY <3>1, QuietLeaveShape, OpsApart DEF MovingOps, SendOps, IsendCalls
    <3>2. CASE LeaveIrecv(r) \/ LeaveRecv(r) \/ LeaveSendrecv(r)
      BY <3>2 DEF LeaveIrecv, LeaveRecv, LeaveSendrecv, SendrecvOps, IsendCalls
    <3> QED
      BY <1>3, <3>1, <3>2
  <2>2. request' = request \/ request' = [request EXCEPT ![r][Blocking] = Null]
    BY <1>3, QuietLeaveShape DEF LeaveIrecv, LeaveRecv, LeaveSendrecv, mpiVars
  <2>3. \A q \in Ranks, a \in Reqs : request'[q][a] = request[q][a]
    BY <1>1, <2>2, BlockingApart DEF Slots
  <2>4. ~Within(r, IsendCalls)
    BY <2>1 DEF Within
  <2>5. \A a \in Reqs : a \in Isends(r)' <=> a \in Isends(r)
    BY <2>3 DEF Isends
  <2> QED
    BY <1>2, <2>1, <2>3, <2>4, <2>5, SameIsends
<1>4. CASE LeaveSend(r)
  <2>1. /\ \E events : Leave(r, events)
        /\ call[r].op \in SendOps /\ request' = request
        /\ isend_root' = IF call[r].op = "MPI_Isend"
                         THEN [isend_root EXCEPT ![r] = aky_insert(@, call[r].req, send_mark[r])]
                         ELSE isend_root
        /\ send_mark' = [send_mark EXCEPT ![r] = @ + 1]
    BY <1>4 DEF LeaveSend, mpiVars
  <2>2. /\ \A q \in Ranks \ {r} : send_mark'[q] = send_mark[q]
        /\ \A q \in Ranks \ {r} : isend_root'[q] = isend_root[q]
        /\ Isends(r)' = Isends(r) /\ IsendsOf(r)
    BY <1>1, <2>1 DEF Isends, IsendsInv
  <2>3. CASE call[r].op # "MPI_Isend"
    <3>1. ~Within(r, IsendCalls) /\ isend_root' = isend_root
      BY <2>1, <2>3 DEF Within, IsendCalls, SendOps, BlockingSends, ForgottenSends
    <3>2. DOMAIN isend_root[r] = Isends(r)
      BY <2>2, <3>1 DEF IsendsOf
    <3>3. IsendsOf(r)'
      BY <1>2, <2>1, <2>2, <3>1, <3>2 DEF IsendsOf
    <3> QED
      BY <1>2, <2>1, <2>2, <3>3, OtherIsends
  <2>4. CASE call[r].op = "MPI_Isend"
    <3>1. /\ Within(r, {"MPI_Isend"}) /\ Within(r, IsendCalls)
      BY <1>2, <2>1, <2>4 DEF Within, IsendCalls
    <3>2. /\ DOMAIN isend_root[r] = Isends(r) \ {call[r].req} /\ call[r].req \in Isends(r)
          /\ request[r][call[r].req].mark = send_mark[r]
          /\ \A a \in DOMAIN isend_root[r] : isend_root[r][a] = request[r][a].mark
      BY <2>2, <3>1 DEF IsendsOf
    <3>3. isend_root'[r] = aky_insert(isend_root[r], call[r].req, send_mark[r])
      BY <1>1, <2>1, <2>4
    <3>4. /\ DOMAIN isend_root'[r] = DOMAIN isend_root[r] \cup {call[r].req}
          /\ \A a \in DOMAIN isend_root'[r] :
               isend_root'[r][a] = IF a \in DOMAIN isend_root[r] THEN isend_root[r][a]
                                   ELSE send_mark[r]
      BY <3>3 DEF aky_insert
    <3>5. \A a \in DOMAIN isend_root'[r] : isend_root'[r][a] = request'[r][a].mark
      BY <2>1, <3>2, <3>4
    <3>6. DOMAIN isend_root'[r] = Isends(r)'
      BY <2>2, <3>2, <3>4
    <3>7. IsendsOf(r)'
      BY <1>2, <2>1, <2>2, <3>5, <3>6 DEF IsendsOf
    <3> QED
      BY <1>2, <2>1, <2>2, <3>7, OtherIsends
  <2> QED
    BY <2>3, <2>4
<1>5. CASE LeaveWait(r)
  <2> DEFINE a == call[r].req
             done == {a}
  <2>1. /\ \E events : Leave(r, events)
        /\ call[r].op = "MPI_Wait" /\ isend_root' = isend_root /\ send_mark' = send_mark
        /\ request' = [request EXCEPT ![r] = [b \in DOMAIN @ |-> IF b \in done THEN Null
                                                                 ELSE @[b]]]
    BY <1>5 DEF LeaveWait, FinishRequests
  <2>3. /\ \A q \in Ranks \ {r} : request'[q] = request[q]
        /\ \A b \in Reqs : request'[r][b] = IF b = a THEN Null ELSE request[r][b]
    BY <1>1, <2>1 DEF Slots
  <2>4. Isends(r)' = Isends(r) \ {a}
    BY <2>3, NullIsRequest DEF Isends
  <2>5. Within(r, IsendCalls) /\ IsendsOf(r)
    BY <1>2, <2>1 DEF Within, IsendCalls, IsendsInv
  <2>6. DOMAIN isend_root[r] = Isends(r) \ {a}
    BY <2>5 DEF IsendsOf
  <2>7. \A b \in DOMAIN isend_root[r] : request'[r][b] = request[r][b]
    BY <2>3, <2>6 DEF Isends
  <2>8. IsendsOf(r)'
    BY <1>2, <2>1, <2>4, <2>5, <2>6, <2>7 DEF IsendsOf
  <2> QED
    BY <1>2, <2>1, <2>3, <2>8, OtherIsends
<1>6. CASE LeaveWaitall(r) \/ LeaveWaitany(r)
  <2>1. PICK done : FinishRequests(r, done)
    BY <1>6 DEF LeaveWaitall, LeaveWaitany
  <2>2. /\ \E events : Leave(r, events)
        /\ call[r].op \in {"MPI_Waitall", "MPI_Waitany"} /\ isend_root' = isend_root
        /\ send_mark' = send_mark
    BY <1>6, <2>1 DEF LeaveWaitall, LeaveWaitany, FinishRequests
  <2>3. request' = [request EXCEPT ![r] = [b \in DOMAIN @ |-> IF b \in done THEN Null
                                                              ELSE @[b]]]
    BY <2>1 DEF FinishRequests
  <2>4. /\ \A q \in Ranks \ {r} : request'[q] = request[q]
        /\ \A a \in Reqs : request'[r][a] = Null \/ request'[r][a] = request[r][a]
    BY <1>1, <2>3 DEF Slots
  <2>5. call[r] \in Calls[r] /\ call[r].op \notin IsendCalls
    BY <1>2, <2>2 DEF Finalize, IsendCalls
  <2>6. Isends(r) = {}
    BY <2>2, <2>5, NoIsends DEF WaitsForIsends
  <2> QED
    BY <2>2, <2>4, <2>5, <2>6, IsendsUntouched
<1>7. CASE LeaveTest(r)
  <2>1. /\ \E events : Leave(r, events)
        /\ call[r].op \in TestOps /\ isend_root' = isend_root /\ send_mark' = send_mark
        /\ \/ request' = request
           \/ request' = [request EXCEPT ![r][call[r].req] = Null]
    BY <1>7 DEF LeaveTest
  <2>2. call[r] \in Calls[r] /\ call[r].op \notin IsendCalls
    BY <1>2, <2>1 DEF Finalize, TestOps, IsendCalls
  <2>3. call[r].req \in Slots
    BY <2>1, <2>2, TracerAssumption DEF RequestOps, Slots
  <2>4. /\ \A q \in Ranks \ {r} : request'[q] = request[q]
        /\ \A a \in Reqs : request'[r][a] = Null \/ request'[r][a] = request[r][a]
    BY <1>1, <2>1, <2>3 DEF Slots
  <2>5. Isends(r) = {}
    BY <2>1, <2>2, NoIsends DEF WaitsForIsends
  <2> QED
    BY <2>1, <2>2, <2>4, <2>5, IsendsUntouched
<1> QED
  BY <1>3, <1>4, <1>5, <1>6, <1>7 DEF LeaveCall, QuietLeave

LEMMA IsendsDeliver ==
  ASSUME RequestsInv, IsendsInv, NEW s \in Ranks, NEW d \in Ranks, Deliver(s, d)
  PROVE  IsendsInv'
<1>1. UNCHANGED <<pc, call, isend_root, send_mark>> /\ Match(s, d)
  BY DEF Deliver
<1>2. PICK j \in DOMAIN posted[d], v \in Request :
        v.st = "arrived" /\ RequestBecomes(d, posted[d][j].slot, v)
  BY <1>1, MatchShape
<1>3. posted[d][j].slot \in Slots /\ request[d][posted[d][j].slot].st = "posted"
  BY SlotsOfPosted DEF RequestsInv, RequestsTypeOK, PostedWait
<1>4. ASSUME NEW q \in Ranks, NEW a \in Reqs
      PROVE  \/ request'[q][a] = request[q][a]
             \/ request[q][a].st # "isend" /\ request'[q][a].st # "isend"
  BY <1>2, <1>3 DEF RequestBecomes, Slots
<1> SUFFICES ASSUME NEW q \in Ranks PROVE IsendsOf(q)'
  BY DEF IsendsInv
<1>5. Isends(q)' = Isends(q) /\ IsendsOf(q)
  BY <1>4 DEF Isends, IsendsInv
<1>6. \A a \in Isends(q) : request'[q][a] = request[q][a]
  BY <1>4 DEF Isends
<1>7. DOMAIN isend_root[q] \subseteq Isends(q)
  BY <1>5 DEF IsendsOf
<1> QED
  BY <1>1, <1>5, <1>6, <1>7 DEF IsendsOf, Within

LEMMA IsendsEnds ==
  ASSUME RequestsInv, IsendsInv, NEW r \in Ranks,
         InitCall(r) \/ EnterFinalize(r) \/ LeaveFinalize(r)
  PROVE  IsendsInv'
<1>1. pc \in [Ranks -> {"start", "app", "call", "end"}]
      /\ call \in [Ranks -> AllCalls \cup {NoCall, Finalize}]
  BY DEF RequestsInv, RequestsTypeOK
<1>2. /\ \A q \in Ranks \ {r} : pc'[q] = pc[q] /\ call'[q] = call[q]
      /\ ~Within(r, IsendCalls) /\ ~Within(r, IsendCalls)'
      /\ UNCHANGED <<isend_root, send_mark, request>>
  <2>1. CASE InitCall(r)
    BY <1>1, <2>1 DEF InitCall, mpiVars, Within
  <2>2. CASE EnterFinalize(r)
    BY <1>1, <2>2 DEF EnterFinalize, mpiVars, Within, IsendCalls
  <2>3. CASE LeaveFinalize(r)
    BY <1>1, <2>3 DEF LeaveFinalize, mpiVars, Within, IsendCalls
  <2> QED
    BY <2>1, <2>2, <2>3
<1>3. \A a \in Reqs : a \in Isends(r)' <=> a \in Isends(r)
  BY <1>2 DEF Isends
<1> QED
  BY <1>2, <1>3, SameIsends

LEMMA IsendsInvStep ==
  ASSUME RequestsInv, IsendsInv, WaitsForIsends, [Next]_vars
  PROVE  IsendsInv'
<1>1. CASE \E r \in Ranks : InitCall(r) \/ EnterFinalize(r) \/ LeaveFinalize(r) \/ LeaveCall(r)
  BY <1>1, IsendsEnds, IsendsLeave
<1>2. CASE \E r \in Ranks : \E c \in Calls[r] : EnterCall(r, c)
  BY <1>2, IsendsEnter
<1>3. CASE \E s, d \in Ranks : Deliver(s, d)
  BY <1>3, IsendsDeliver
<1>4. CASE ConverterNext \/ UNCHANGED vars
  <2>1. UNCHANGED requestVars
    BY <1>4, ConverterApart
  <2> QED
    BY <2>1 DEF requestVars, IsendsInv, IsendsOf, Isends, Within
<1> QED
  BY <1>1, <1>2, <1>3, <1>4 DEF Next, TracerStep, TracerNext

LEMMA IsendsInvariant ==
  ASSUME WaitsForIsends
  PROVE  Spec => [](RequestsInv /\ IsendsInv)
<1>1. Init => RequestsInv /\ IsendsInv
  <2> SUFFICES ASSUME Init PROVE RequestsInv /\ IsendsInv
    OBVIOUS
  <2>1. RequestsInv
    BY RequestsInvInit DEF Init
  <2>2. IsendsInv
    <3>1. \A r \in Ranks : Isends(r) = {} /\ isend_root[r] = NoTree /\ pc[r] = "start"
      BY DEF Init, TracerInit, MpiInit, Isends, Null
    <3> QED
      BY <3>1 DEF IsendsInv, IsendsOf, Within, NoTree
  <2> QED
    BY <2>1, <2>2
<1>2. RequestsInv /\ IsendsInv /\ [Next]_vars => (RequestsInv /\ IsendsInv)'
  BY RequestsInvStep, IsendsInvStep
<1> QED
  BY <1>1, <1>2, PTL DEF Spec

\* aky_isend_root of every process holds the requests of MPI_Isend that were not
\* waited for, each with the mark its AKY_PTP_SEND was recorded with.
THEOREM IsendsAreRemembered ==
  ASSUME WaitsForIsends
  PROVE  Spec => []IsendsRemembered
<1>1. RequestsInv /\ IsendsInv => IsendsRemembered
  BY DEF IsendsInv, IsendsOf, Within, Isends, IsendsRemembered, BetweenCalls
<1> QED
  BY <1>1, IsendsInvariant, PTL

-----------------------------------------------------------------------------
\* MPI_Wait records the mark of the isend that it waits for.
LEMMA WaitNamesIsend ==
  ASSUME RequestsInv, IsendsInv, NEW r \in Ranks, NEW c \in Calls[r], EnterWait(r, c)
  PROVE  trace' = trace \o <<In(r, "MPI_Wait", IF request[r][c.req].st = "isend"
                                              THEN request[r][c.req].mark ELSE NoMark)>>
<1> DEFINE isend == aky_check(isend_root[r], c.req)
           recorded == IF isend = 0 THEN NoMark ELSE IF isend = -1 THEN 0 ELSE isend
<1>1. c.op = "MPI_Wait" /\ pc[r] = "app" /\ trace' = trace \o <<In(r, c.op, recorded)>>
  BY DEF EnterWait, Enter, Record
<1>2. c.req \in Reqs
  BY <1>1, TracerAssumption DEF RequestOps
<1>3. /\ DOMAIN isend_root[r] = Isends(r)
      /\ \A a \in DOMAIN isend_root[r] : isend_root[r][a] = request[r][a].mark
  BY <1>1 DEF IsendsInv, IsendsOf, Within
<1>4. PICK S \in SUBSET Reqs : isend_root[r] \in [S -> Nat]
  BY DEF RequestsInv, RequestsTypeOK, Trees
<1>5. CASE request[r][c.req].st = "isend"
  <2>1. c.req \in DOMAIN isend_root[r] /\ isend_root[r][c.req] \in Nat
    BY <1>2, <1>3, <1>4, <1>5 DEF Isends
  <2>2. recorded = isend_root[r][c.req]
    BY <2>1 DEF aky_check
  <2> QED
    BY <1>1, <1>3, <1>5, <2>1, <2>2
<1>6. CASE request[r][c.req].st # "isend"
  <2>1. c.req \notin DOMAIN isend_root[r]
    BY <1>3, <1>6 DEF Isends
  <2>2. recorded = NoMark
    BY <2>1 DEF aky_check
  <2> QED
    BY <1>1, <1>6, <2>2
<1> QED
  BY <1>5, <1>6

\* The other wrappers are not MPI_Wait.
LEMMA WaitIsEnterWait ==
  ASSUME RequestsInv, NEW r \in Ranks, NEW c \in Calls[r], EnterCall(r, c), c.op = "MPI_Wait"
  PROVE  EnterWait(r, c)
<1>1. ~QuietEnter(r, c)
  BY QuietEnterShape
<1>2. ~EnterSend(r, c)
  BY DEF EnterSend, SendOps, BlockingSends, ForgottenSends
<1>3. ~EnterRecv(r, c) /\ ~EnterIrecv(r, c) /\ ~EnterSendrecv(r, c)
  BY DEF EnterRecv, EnterIrecv, EnterSendrecv, SendrecvOps
<1> QED
  BY <1>1, <1>2, <1>3 DEF EnterCall, QuietEnter

LEMMA EnterCallEnters ==
  ASSUME NEW r \in Ranks, NEW c \in Calls[r], EnterCall(r, c)
  PROVE  \E events : Enter(r, c, events)
<1>1. CASE QuietEnter(r, c)
  BY <1>1, QuietEnterShape
<1>2. CASE EnterSend(r, c) \/ EnterRecv(r, c) \/ EnterIrecv(r, c) \/ EnterSendrecv(r, c)
  BY <1>2 DEF EnterSend, EnterRecv, EnterIrecv, EnterSendrecv
<1>3. CASE EnterWait(r, c)
  BY <1>3 DEF EnterWait
<1> QED
  BY <1>1, <1>2, <1>3 DEF EnterCall, QuietEnter

LEMMA LeaveCallLeaves ==
  ASSUME NEW r \in Ranks, LeaveCall(r)
  PROVE  \E events : Leave(r, events)
<1>1. CASE QuietLeave(r)
  BY <1>1, QuietLeaveShape
<1>2. CASE LeaveSend(r) \/ LeaveRecv(r) \/ LeaveIrecv(r) \/ LeaveSendrecv(r) \/ LeaveTest(r)
  BY <1>2 DEF LeaveSend, LeaveRecv, LeaveIrecv, LeaveSendrecv, LeaveTest
<1>3. CASE LeaveWait(r) \/ LeaveWaitall(r) \/ LeaveWaitany(r)
  <2>1. PICK done : FinishRequests(r, done)
    BY <1>3 DEF LeaveWait, LeaveWaitall, LeaveWaitany
  <2> QED
    BY <2>1 DEF FinishRequests
<1> QED
  BY <1>1, <1>2, <1>3 DEF LeaveCall, QuietLeave

\* The steps in which a process enters MPI_Wait.
EntersWait(r) == pc[r] = "app" /\ pc'[r] = "call" /\ call'[r].op = "MPI_Wait"

LEMMA EntersWaitByCall ==
  ASSUME RequestsInv, [Next]_vars, NEW r \in Ranks, EntersWait(r)
  PROVE  \E c \in Calls[r] : EnterCall(r, c) /\ call'[r] = c
<1>1. RequestsTypeOK /\ CallsAreOwn
  BY DEF RequestsInv
<1>2. pc[r] # pc'[r]
  BY DEF EntersWait
<1>3. ASSUME NEW q \in Ranks, InitCall(q) \/ EnterFinalize(q) \/ LeaveFinalize(q)
      PROVE  FALSE
  <2>1. CASE InitCall(q) \/ LeaveFinalize(q)
    BY <1>1, <1>2, <2>1 DEF InitCall, LeaveFinalize, RequestsTypeOK, EntersWait
  <2>2. CASE EnterFinalize(q)
    BY <1>1, <1>2, <2>2 DEF EnterFinalize, RequestsTypeOK, EntersWait
  <2> QED
    BY <1>3, <2>1, <2>2
<1>4. ASSUME NEW q \in Ranks, LeaveCall(q)
      PROVE  FALSE
  <2>1. PICK events : Leave(q, events)
    BY <1>4, LeaveCallLeaves
  <2> QED
    BY <1>1, <1>2, <2>1, LeaveShape DEF EntersWait
<1>5. ASSUME NEW s \in Ranks, NEW d \in Ranks, Deliver(s, d)
      PROVE  FALSE
  BY <1>2, <1>5 DEF Deliver
<1>6. ASSUME ConverterNext \/ UNCHANGED vars
      PROVE  FALSE
  <2>1. UNCHANGED requestVars
    BY <1>6, ConverterApart
  <2> QED
    BY <1>2, <2>1 DEF requestVars
<1>7. PICK q \in Ranks : \E c \in Calls[q] : EnterCall(q, c)
  BY <1>3, <1>4, <1>5, <1>6 DEF Next, TracerStep, TracerNext
<1>8. PICK c \in Calls[q] : EnterCall(q, c)
  BY <1>7
<1>9. call'[q] = c /\ \A p \in Ranks \ {q} : pc'[p] = pc[p]
  <2>1. PICK events : Enter(q, c, events)
    BY <1>8, EnterCallEnters
  <2> QED
    BY <1>1, <2>1, EnterShape
<1>10. q = r
  BY <1>2, <1>9
<1> QED
  BY <1>8, <1>9, <1>10

\* The event of every MPI_Wait names the very send of its MPI_Isend, the first one,
\* whose mark is 0, included, though aky_check answers 0 for `not there'.
THEOREM WaitsNameTheirSends ==
  ASSUME WaitsForIsends
  PROVE  Spec => WaitNamesItsSend
<1> DEFINE NamesSend(r) ==
      EntersWait(r) =>
        trace' = trace \o <<In(r, "MPI_Wait", IF request[r][call'[r].req].st = "isend"
                                             THEN request[r][call'[r].req].mark ELSE NoMark)>>
<1>1. ASSUME RequestsInv, IsendsInv, [Next]_vars, NEW r \in Ranks PROVE NamesSend(r)
  <2> SUFFICES ASSUME EntersWait(r)
               PROVE  trace' = trace \o
                        <<In(r, "MPI_Wait", IF request[r][call'[r].req].st = "isend"
                                            THEN request[r][call'[r].req].mark ELSE NoMark)>>
    OBVIOUS
  <2>1. PICK c \in Calls[r] : EnterCall(r, c) /\ call'[r] = c
    BY <1>1, EntersWaitByCall
  <2>2. EnterWait(r, c)
    BY <1>1, <2>1, WaitIsEnterWait DEF EntersWait
  <2> QED
    BY <1>1, <2>1, <2>2, WaitNamesIsend
<1>2. RequestsInv /\ IsendsInv /\ [Next]_vars => [\A r \in Ranks : NamesSend(r)]_vars
  BY <1>1
<1>3. [\A r \in Ranks : NamesSend(r)]_vars =>
        [\A r \in Ranks :
           pc[r] = "app" /\ pc'[r] = "call" /\ call'[r].op = "MPI_Wait" =>
             LET q == request[r][call'[r].req]
             IN trace' = trace \o <<In(r, "MPI_Wait",
                                       IF q.st = "isend" THEN q.mark ELSE NoMark)>>]_vars
  BY Zenon DEF EntersWait
<1> HIDE DEF NamesSend
<1> QED
  BY <1>2, <1>3, IsendsInvariant, PTL DEF Spec, WaitNamesItsSend
===============================================================================
