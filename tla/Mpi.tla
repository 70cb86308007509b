--------------------------------- MODULE Mpi ---------------------------------
(***************************************************************************)
(* The MPI library below the wrappers (external to the repository), as far *)
(* as src/src/aky.c relies on it: PMPI calls that start an operation, the  *)
(* matching of messages with receives, and the condition under which a     *)
(* PMPI call may return.  Messages between two ranks on one communicator   *)
(* do not overtake each other; a receive takes the first message of its    *)
(* tag, a message goes to the first posted receive that accepts it.  Sends *)
(* are buffered: they may return before they are matched.                  *)
(***************************************************************************)
EXTENDS AkyAux, FiniteSets

CONSTANTS
  N,        \* the number of processes of MPI_COMM_WORLD
  Reqs      \* the addresses of MPI_Request variables, the same in every rank

Ranks == 0..(N - 1)
AnySource == -2
Blocking == 0        \* the slot of a receive without an MPI_Request

ASSUME MpiAssumption ==
  /\ N \in Nat \ {0}
  /\ Reqs \subseteq Nat \ {Blocking} /\ IsFiniteSet(Reqs)
  /\ \A c \in DOMAIN Comms :
       /\ Comms[c] \in Seq(Ranks)
       /\ \A i, j \in DOMAIN Comms[c] : Comms[c][i] = Comms[c][j] => i = j

VARIABLES
  nsent,     \* how many messages each rank has sent, to number them
  net,       \* net[s][d]: messages sent by s to d and not matched, in order
  posted,    \* receives of each rank not matched, in the order of posting
  request,   \* what each request of each rank stands for
  clog,      \* the collective calls made on each communicator, in order
  ccount     \* how many of them each rank has made

mpiVars == <<nsent, net, posted, request, clog, ccount>>

NoMsg == <<"none", 0, 0>>
Null == [st |-> "null", src |-> AnySource, msg |-> NoMsg, mark |-> 0]

Members(comm) == {Comms[comm][i] : i \in DOMAIN Comms[comm]}
Size(comm) == Len(Comms[comm])

MpiInit ==
  /\ nsent = [r \in Ranks |-> 0]
  /\ net = [s \in Ranks |-> [d \in Ranks |-> <<>>]]
  /\ posted = [r \in Ranks |-> <<>>]
  /\ request = [r \in Ranks |-> [a \in Reqs \cup {Blocking} |-> Null]]
  /\ clog = [c \in DOMAIN Comms |-> <<>>]
  /\ ccount = [r \in Ranks |-> [c \in DOMAIN Comms |-> 0]]

-----------------------------------------------------------------------------
\* The next message of rank r, as an identity that its receive can be told by.
NextMsg(r) == <<"ptp", r, nsent[r]>>

\* r starts sending to rank `peer' of the communicator.
Transmit(r, comm, peer, tag) ==
  LET d == AKY_translate_rank(comm, peer)
  IN /\ net' = [net EXCEPT ![r][d] =
                  Append(@, [comm |-> comm, tag |-> tag, msg |-> NextMsg(r)])]
     /\ nsent' = [nsent EXCEPT ![r] = @ + 1]

\* r posts a receive from rank `peer' (or any source) into a slot.
Post(r, slot, comm, peer, tag) ==
  /\ posted' = [posted EXCEPT ![r] = Append(@,
                  [slot |-> slot, comm |-> comm, tag |-> tag,
                   src |-> AKY_translate_rank(comm, peer)])]
  /\ request' = [request EXCEPT ![r][slot] = [Null EXCEPT !.st = "posted"]]

Accepts(p, s, m) ==
  p.comm = m.comm /\ p.tag = m.tag /\ p.src \in {s, AnySource}

Without(seq, i) == SubSeq(seq, 1, i - 1) \o SubSeq(seq, i + 1, Len(seq))

\* The rank that `comm' gives to the process of world rank s.
CommRank(comm, s) == (CHOOSE i \in DOMAIN Comms[comm] : Comms[comm][i] = s) - 1

\* A message meets a receive: the status gets its source as a rank of the comm.
Match(s, d) ==
  \E i \in DOMAIN net[s][d], j \in DOMAIN posted[d] :
    LET m == net[s][d][i]
        p == posted[d][j]
    IN /\ Accepts(p, s, m)
       /\ \A k \in 1..(i - 1) : ~Accepts(p, s, net[s][d][k])
       /\ \A k \in 1..(j - 1) : ~Accepts(posted[d][k], s, m)
       /\ net' = [net EXCEPT ![s][d] = Without(@, i)]
       /\ posted' = [posted EXCEPT ![d] = Without(@, j)]
       /\ request' = [request EXCEPT ![d][p.slot] =
                        [st |-> "arrived", src |-> CommRank(p.comm, s),
                         msg |-> m.msg, mark |-> 0]]
       /\ UNCHANGED <<nsent, clog, ccount>>

\* The MPI_SOURCE that a completed request leaves in the status: the sender for
\* a receive, MPI_ANY_SOURCE for a null request, anything for a send.
StatusSources(q) == IF q.st \in {"send", "isend"} THEN Ranks \cup {AnySource} ELSE {q.src}

\* A request is complete when its operation is: a buffered send always is.
Complete(q) == q.st # "posted"

\* r makes the next collective call on comm; all its members make the same one.
JoinCollective(r, comm, op, root) ==
  LET k == ccount[r][comm] + 1
      this == [op |-> op, root |-> AKY_translate_rank(comm, root)]
  IN /\ r \in Members(comm)
     /\ IF k <= Len(clog[comm]) THEN clog[comm][k] = this /\ UNCHANGED clog
        ELSE clog' = [clog EXCEPT ![comm] = Append(@, this)]
     /\ ccount' = [ccount EXCEPT ![r][comm] = k]

\* The collective call that r is in, as an identity shared by its participants.
ThisCollective(r, comm) == <<comm, 0, ccount[r][comm]>>

Joined(ranks, comm, k) == \A x \in ranks : ccount[x][comm] >= k

\* When PMPI may return to r: data flows from the root, to it, or both ways.
CollectiveDone(r, comm, op, root) ==
  LET k == ccount[r][comm]
      rootw == AKY_translate_rank(comm, root)
  IN CASE op \in {"MPI_Bcast", "MPI_Scatter"} -> Joined({rootw}, comm, k)
       [] op \in {"MPI_Gather", "MPI_Reduce"} ->
            r = rootw => Joined(Members(comm), comm, k)
       [] OTHER -> Joined(Members(comm), comm, k)
=============================================================================
