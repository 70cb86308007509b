------------------------------ MODULE OtfProofs ------------------------------
(***************************************************************************)
(* What each line of PajeOutput does to a trace, for any containers; then  *)
(* what otf2paje prints of any OTF trace, otf22paje of any OTF2 archive or *)
(* hostfile, and the filters of otf2-omp-print of any text, whatever their *)
(* sizes.  Tau2PajeProofs rests on the first part.                         *)
(***************************************************************************)
EXTENDS Otf2Paje, Otf22Paje, OtfOmpPrint, WellFoundedInduction, FiniteSetTheorems, TLAPS

Prints == ~arguments.dummy

Text == {String(s) : s \in StringRefs}
Kinds ==
  {"none", "gone", "0", "ROOT", "PROCESS", "H", "L0", "L1", "L2", "L3", "P", "thread",
   Uninitialized} \cup Text
Reasons == {"absent", "again", "untyped", "early"}

\* The traces of the converters whose states and links are of given sets, and the command
\* lines.
TraceOf(States_, Links_) ==
  [types : SUBSET (Kinds \X Kinds),
   kind : [Containers -> Kinds],
   parent : [Containers -> Containers],
   stack : [Containers -> Seq(States_)],
   latest : [Containers -> Nat],
   links : Seq(Links_),
   refused : SUBSET (Reasons \X Containers)]

CommandLines ==
  [program : STRING, dummy : BOOLEAN, no_links : BOOLEAN, no_states : BOOLEAN,
   only_mpi : BOOLEAN, ignore_errors : BOOLEAN, flat : BOOLEAN, hostfile : BOOLEAN]

\* What a line at a time about a container changes of a trace besides what it says.
Dated(before, after, time, c) ==
  \A d \in Containers :
    after.latest[d] = IF d \in {c, Root} /\ before.latest[d] < time THEN time
                      ELSE before.latest[d]

-----------------------------------------------------------------------------
\* A line only moves the times on.
LEMMA AtShape ==
  ASSUME NEW S, NEW L, NEW t \in TraceOf(S, L), NEW time \in Int, NEW c \in Containers
  PROVE  /\ At(t, time, c) \in TraceOf(S, L)
         /\ Dated(t, At(t, time, c), time, c)
         /\ At(t, time, c).types = t.types /\ At(t, time, c).kind = t.kind
         /\ At(t, time, c).parent = t.parent /\ At(t, time, c).stack = t.stack
         /\ At(t, time, c).links = t.links /\ At(t, time, c).refused = t.refused
<1> DEFINE latest == [d \in Containers |->
                       IF d \in {c, Root} /\ t.latest[d] < time THEN time ELSE t.latest[d]]
<1>1. t.latest \in [Containers -> Nat]
  BY DEF TraceOf
<1>2. latest \in [Containers -> Nat]
  <2> SUFFICES ASSUME NEW d \in Containers PROVE latest[d] \in Nat
    OBVIOUS
  <2>1. t.latest[d] \in Nat
    BY <1>1
  <2> QED
    BY <2>1
<1>3. At(t, time, c) = [t EXCEPT !.latest = latest]
  BY <1>1 DEF At
<1> HIDE DEF latest
<1>4. At(t, time, c) \in TraceOf(S, L)
  BY <1>2, <1>3 DEF TraceOf
<1>5. At(t, time, c).latest = latest
  BY <1>3 DEF TraceOf
<1>6. Dated(t, At(t, time, c), time, c)
  BY <1>5 DEF Dated, latest
<1> QED
  BY <1>3, <1>4, <1>6 DEF TraceOf

\* A line that left the times alone until it was dated.
LEMMA DatedFrom ==
  ASSUME NEW S, NEW L, NEW t, NEW p \in TraceOf(S, L), NEW time \in Int, NEW c \in Containers,
         p.latest = t.latest
  PROVE  LET u == At(p, time, c)
         IN /\ u \in TraceOf(S, L) /\ Dated(t, u, time, c)
            /\ u.types = p.types /\ u.kind = p.kind /\ u.parent = p.parent
            /\ u.stack = p.stack /\ u.links = p.links /\ u.refused = p.refused
<1> DEFINE u == At(p, time, c)
<1>1. /\ u \in TraceOf(S, L) /\ Dated(p, u, time, c)
      /\ u.types = p.types /\ u.kind = p.kind /\ u.parent = p.parent
      /\ u.stack = p.stack /\ u.links = p.links /\ u.refused = p.refused
  BY AtShape
<1> HIDE DEF u
<1>2. Dated(t, u, time, c)
  BY <1>1 DEF Dated
<1> QED
  BY <1>1, <1>2 DEF u

\* Nothing but the stacks, but the refusals.
ButStacks(t, u) ==
  /\ u.types = t.types /\ u.kind = t.kind /\ u.parent = t.parent
  /\ u.latest = t.latest /\ u.links = t.links /\ u.refused = t.refused
ButRefusals(t, u) ==
  /\ u.types = t.types /\ u.kind = t.kind /\ u.parent = t.parent
  /\ u.stack = t.stack /\ u.latest = t.latest /\ u.links = t.links

\* Fields replaced one at a time.
LEMMA WithRefusals ==
  ASSUME NEW S, NEW L, NEW t \in TraceOf(S, L), NEW all \in SUBSET (Reasons \X Containers)
  PROVE  LET u == [t EXCEPT !.refused = all]
         IN u \in TraceOf(S, L) /\ u.refused = all /\ ButRefusals(t, u)
BY DEF TraceOf, ButRefusals

LEMMA WithStacks ==
  ASSUME NEW S, NEW L, NEW t \in TraceOf(S, L), NEW all \in [Containers -> Seq(S)]
  PROVE  LET u == [t EXCEPT !.stack = all]
         IN u \in TraceOf(S, L) /\ u.stack = all /\ ButStacks(t, u)
BY DEF TraceOf, ButStacks

\* A refusal is all that refusing changes.
Refusals(bad, why, c) == IF bad THEN {<<why, c>>} ELSE {}

LEMMA RefuseShape ==
  ASSUME NEW S, NEW L, NEW t \in TraceOf(S, L), NEW bad, NEW why \in Reasons,
         NEW c \in Containers
  PROVE  /\ Refuse(t, bad, why, c) \in TraceOf(S, L)
         /\ Refuse(t, bad, why, c).refused = t.refused \cup Refusals(bad, why, c)
         /\ ButRefusals(t, Refuse(t, bad, why, c))
<1>1. CASE bad
  <2> DEFINE all == t.refused \cup {<<why, c>>}
  <2>1. all \in SUBSET (Reasons \X Containers)
    BY DEF TraceOf
  <2>2. Refuse(t, bad, why, c) = [t EXCEPT !.refused = all]
    BY <1>1 DEF Refuse
  <2>3. Refusals(bad, why, c) = {<<why, c>>}
    BY <1>1 DEF Refusals
  <2> HIDE DEF all
  <2> QED
    BY <2>1, <2>2, <2>3, WithRefusals DEF all
<1>2. CASE ~bad
  BY <1>2 DEF Refuse, ButRefusals, Refusals, TraceOf
<1> QED
  BY <1>1, <1>2

\* A state pushed is on top, and refused where its container is absent.
Pushes(S, L, t, u, time, c, state) ==
  /\ u \in TraceOf(S, L)
  /\ u.stack = [t.stack EXCEPT ![c] = Append(@, state)]
  /\ u.refused = t.refused \cup Refusals(Absent(t, c), "absent", c)
  /\ Dated(t, u, time, c)
  /\ u.types = t.types /\ u.kind = t.kind /\ u.parent = t.parent /\ u.links = t.links

LEMMA PushShape ==
  ASSUME NEW S, NEW L, NEW t \in TraceOf(S, L), NEW time \in Nat, NEW c \in Containers,
         NEW state \in S
  PROVE  Pushes(S, L, t, PushState(t, time, c, state), time, c, state)
<1> DEFINE r == Refuse(t, Absent(t, c), "absent", c)
           pushed == [t.stack EXCEPT ![c] = Append(@, state)]
           p == [r EXCEPT !.stack = pushed]
<1>1. /\ r \in TraceOf(S, L) /\ ButRefusals(t, r)
      /\ r.refused = t.refused \cup Refusals(Absent(t, c), "absent", c)
  BY RefuseShape DEF Reasons
<1>2. PushState(t, time, c, state) = At(p, time, c)
  BY <1>1 DEF PushState, ButRefusals
<1> HIDE DEF r
<1>3. pushed \in [Containers -> Seq(S)]
  BY DEF TraceOf
<1> HIDE DEF pushed
<1>4. p \in TraceOf(S, L) /\ p.stack = pushed /\ ButStacks(r, p)
  BY <1>1, <1>3, WithStacks
<1> HIDE DEF p
<1> DEFINE u == At(p, time, c)
<1>5. /\ u \in TraceOf(S, L) /\ u.stack = pushed /\ Dated(t, u, time, c)
      /\ u.types = t.types /\ u.kind = t.kind /\ u.parent = t.parent /\ u.links = t.links
      /\ u.refused = r.refused
  <2>1. /\ p.latest = t.latest /\ p.types = t.types /\ p.kind = t.kind /\ p.parent = t.parent
        /\ p.links = t.links /\ p.refused = r.refused
    BY <1>1, <1>4 DEF ButStacks, ButRefusals
  <2>2. /\ u \in TraceOf(S, L) /\ Dated(t, u, time, c)
        /\ u.types = p.types /\ u.kind = p.kind /\ u.parent = p.parent
        /\ u.stack = p.stack /\ u.links = p.links /\ u.refused = p.refused
    BY <1>4, <2>1, DatedFrom
  <2> HIDE DEF u
  <2> QED
    BY <1>4, <2>1, <2>2
<1>6. PushState(t, time, c, state) = u
  BY <1>2
<1> HIDE DEF u
<1> QED
  BY <1>1, <1>5, <1>6 DEF pushed, Pushes

\* A state popped is off, and refused where the container is absent or has none.
Pops(S, L, t, u, time, c) ==
  /\ u \in TraceOf(S, L)
  /\ u.stack = [t.stack EXCEPT ![c] = SubSeq(@, 1, Len(@) - 1)]
  /\ u.refused = t.refused \cup Refusals(Absent(t, c) \/ t.stack[c] = <<>>, "absent", c)
  /\ Dated(t, u, time, c)
  /\ u.types = t.types /\ u.kind = t.kind /\ u.parent = t.parent /\ u.links = t.links

LEMMA PopShape ==
  ASSUME NEW S, NEW L, NEW t \in TraceOf(S, L), NEW time \in Nat, NEW c \in Containers
  PROVE  Pops(S, L, t, PopState(t, time, c), time, c)
<1> DEFINE bad == Absent(t, c) \/ t.stack[c] = <<>>
           r == Refuse(t, bad, "absent", c)
           popped == [t.stack EXCEPT ![c] = SubSeq(@, 1, Len(@) - 1)]
           p == [r EXCEPT !.stack = popped]
<1>1. /\ r \in TraceOf(S, L) /\ ButRefusals(t, r)
      /\ r.refused = t.refused \cup Refusals(bad, "absent", c)
  <2> HIDE DEF bad
  <2> QED
    BY RefuseShape DEF Reasons
<1>2. PopState(t, time, c) = At(p, time, c)
  BY <1>1 DEF PopState, ButRefusals
<1> HIDE DEF r
<1>3. popped \in [Containers -> Seq(S)]
  <2>1. t.stack[c] \in Seq(S)
    BY DEF TraceOf
  <2>2. CASE t.stack[c] = <<>>
    BY <2>2 DEF TraceOf
  <2>3. CASE t.stack[c] # <<>>
    <3>1. SubSeq(t.stack[c], 1, Len(t.stack[c]) - 1) \in Seq(S)
      BY <2>1, <2>3
    <3> QED
      BY <3>1 DEF TraceOf
  <2> QED
    BY <2>2, <2>3
<1> HIDE DEF popped
<1>4. p \in TraceOf(S, L) /\ p.stack = popped /\ ButStacks(r, p)
  BY <1>1, <1>3, WithStacks
<1> HIDE DEF p
<1> DEFINE u == At(p, time, c)
<1>5. /\ u \in TraceOf(S, L) /\ u.stack = popped /\ Dated(t, u, time, c)
      /\ u.types = t.types /\ u.kind = t.kind /\ u.parent = t.parent /\ u.links = t.links
      /\ u.refused = r.refused
  <2>1. /\ p.latest = t.latest /\ p.types = t.types /\ p.kind = t.kind /\ p.parent = t.parent
        /\ p.links = t.links /\ p.refused = r.refused
    BY <1>1, <1>4 DEF ButStacks, ButRefusals
  <2>2. /\ u \in TraceOf(S, L) /\ Dated(t, u, time, c)
        /\ u.types = p.types /\ u.kind = p.kind /\ u.parent = p.parent
        /\ u.stack = p.stack /\ u.links = p.links /\ u.refused = p.refused
    BY <1>4, <2>1, DatedFrom
  <2> HIDE DEF u
  <2> QED
    BY <1>4, <2>1, <2>2
<1>6. PopState(t, time, c) = u
  BY <1>2
<1> HIDE DEF u
<1> QED
  BY <1>1, <1>5, <1>6 DEF popped, bad, Pops

\* A container created is there, and refused where it was there before or its type was
\* not defined in that of the one above.
Creates(S, L, t, u, time, c, type, above) ==
  /\ u \in TraceOf(S, L)
  /\ u.kind = [t.kind EXCEPT ![c] = type]
  /\ u.refused = t.refused \cup Refusals(t.kind[c] # "none", "again", c)
       \cup Refusals(<<type, t.kind[above]>> \notin t.types, "untyped", c)
  /\ Dated(t, u, time, c)
  /\ u.types = t.types /\ u.stack = t.stack /\ u.links = t.links
  /\ u.parent = [t.parent EXCEPT ![c] = above]

LEMMA CreateShape ==
  ASSUME NEW S, NEW L, NEW t \in TraceOf(S, L), NEW time \in Nat, NEW c \in Containers,
         NEW type \in Kinds, NEW above \in Containers
  PROVE  Creates(S, L, t, CreateContainer(t, time, c, type, above), time, c, type, above)
<1> DEFINE again == t.kind[c] # "none"
           stray == <<type, t.kind[above]>> \notin t.types
           r == Refuse(t, again, "again", c)
           q == Refuse(r, stray, "untyped", c)
           shown == [t.kind EXCEPT ![c] = type]
           parents == [t.parent EXCEPT ![c] = above]
           p == [q EXCEPT !.kind = shown, !.parent = parents]
<1> HIDE DEF again, stray, p, shown, parents
<1>1. /\ r \in TraceOf(S, L) /\ ButRefusals(t, r)
      /\ r.refused = t.refused \cup Refusals(again, "again", c)
  BY RefuseShape DEF Reasons
<1> HIDE DEF r
<1>2. /\ q \in TraceOf(S, L) /\ ButRefusals(r, q)
      /\ q.refused = r.refused \cup Refusals(stray, "untyped", c)
  <2>1. "untyped" \in Reasons
    BY DEF Reasons
  <2> HIDE DEF stray
  <2> QED
    BY <1>1, <2>1, RefuseShape
<1> USE DEF p, shown, parents
<1>3. CreateContainer(t, time, c, type, above) = At(p, time, c)
  <2>1. CreateContainer(t, time, c, type, above)
          = At([q EXCEPT !.kind[c] = type, !.parent[c] = above], time, c)
    BY DEF CreateContainer, r, again, stray
  <2>2. q.kind = t.kind /\ q.parent = t.parent
    BY <1>1, <1>2 DEF ButRefusals
  <2> HIDE DEF q
  <2>3. [q EXCEPT !.kind[c] = type, !.parent[c] = above] = p
    BY <2>2
  <2> QED
    BY <2>1, <2>3
<1> HIDE DEF q
<1>4. shown \in [Containers -> Kinds] /\ parents \in [Containers -> Containers]
  BY DEF TraceOf
<1> HIDE DEF shown, parents
<1>5. /\ p \in TraceOf(S, L) /\ p.kind = shown /\ p.types = q.types /\ p.stack = q.stack
      /\ p.latest = q.latest /\ p.links = q.links /\ p.refused = q.refused
      /\ p.parent = parents
  BY <1>2, <1>4 DEF TraceOf
<1> HIDE DEF p
<1> DEFINE u == At(p, time, c)
<1>6. /\ u \in TraceOf(S, L) /\ u.kind = shown /\ Dated(t, u, time, c)
      /\ u.types = t.types /\ u.stack = t.stack /\ u.links = t.links
      /\ u.refused = q.refused /\ u.parent = parents
  <2>1. /\ p.latest = t.latest /\ p.types = t.types /\ p.stack = t.stack /\ p.links = t.links
    BY <1>1, <1>2, <1>5 DEF ButRefusals
  <2>2. /\ u \in TraceOf(S, L) /\ Dated(t, u, time, c) /\ u.types = p.types /\ u.kind = p.kind
        /\ u.stack = p.stack /\ u.links = p.links /\ u.refused = p.refused
        /\ u.parent = p.parent
    BY <1>5, <2>1, DatedFrom
  <2> HIDE DEF u
  <2> QED
    BY <1>5, <2>1, <2>2
<1> HIDE DEF u
<1>7. u.refused = t.refused \cup Refusals(again, "again", c)
                    \cup Refusals(stray, "untyped", c)
  BY <1>1, <1>2, <1>6
<1> QED
  BY <1>3, <1>6, <1>7 DEF u, shown, parents, again, stray, Creates

\* A container destroyed is gone, and refused where it was absent or has later lines.
Destroys(S, L, t, u, time, c) ==
  /\ u \in TraceOf(S, L)
  /\ u.kind = [t.kind EXCEPT ![c] = "gone"]
  /\ u.refused = t.refused \cup Refusals(Absent(t, c), "absent", c)
       \cup Refusals(time < t.latest[c], "early", c)
  /\ Dated(t, u, time, c)
  /\ u.types = t.types /\ u.stack = t.stack /\ u.links = t.links /\ u.parent = t.parent

LEMMA DestroyShape ==
  ASSUME NEW S, NEW L, NEW t \in TraceOf(S, L), NEW time \in Int, NEW c \in Containers
  PROVE  Destroys(S, L, t, DestroyContainer(t, time, c), time, c)
<1> DEFINE early == time < t.latest[c]
           r == Refuse(t, Absent(t, c), "absent", c)
           q == Refuse(r, early, "early", c)
           shown == [t.kind EXCEPT ![c] = "gone"]
           p == [q EXCEPT !.kind = shown]
<1> HIDE DEF early
<1>1. /\ r \in TraceOf(S, L) /\ ButRefusals(t, r)
      /\ r.refused = t.refused \cup Refusals(Absent(t, c), "absent", c)
  BY RefuseShape DEF Reasons
<1> HIDE DEF r
<1>2. /\ q \in TraceOf(S, L) /\ ButRefusals(r, q)
      /\ q.refused = r.refused \cup Refusals(early, "early", c)
  BY <1>1, RefuseShape DEF Reasons
<1>3. DestroyContainer(t, time, c) = At(p, time, c)
  BY <1>1, <1>2 DEF DestroyContainer, ButRefusals, r, early
<1> HIDE DEF q
<1>4. shown \in [Containers -> Kinds]
  BY DEF TraceOf, Kinds
<1> HIDE DEF shown
<1>5. /\ p \in TraceOf(S, L) /\ p.kind = shown /\ p.types = q.types /\ p.stack = q.stack
      /\ p.latest = q.latest /\ p.links = q.links /\ p.refused = q.refused
      /\ p.parent = q.parent
  BY <1>2, <1>4 DEF TraceOf
<1> HIDE DEF p
<1> DEFINE u == At(p, time, c)
<1>6. /\ u \in TraceOf(S, L) /\ u.kind = shown /\ Dated(t, u, time, c)
      /\ u.types = t.types /\ u.stack = t.stack /\ u.links = t.links
      /\ u.refused = q.refused /\ u.parent = t.parent
  <2>1. /\ p.latest = t.latest /\ p.types = t.types /\ p.stack = t.stack /\ p.links = t.links
        /\ p.parent = t.parent
    BY <1>1, <1>2, <1>5 DEF ButRefusals
  <2>2. /\ u \in TraceOf(S, L) /\ Dated(t, u, time, c) /\ u.types = p.types /\ u.kind = p.kind
        /\ u.stack = p.stack /\ u.links = p.links /\ u.refused = p.refused
        /\ u.parent = p.parent
    BY <1>5, <2>1, DatedFrom
  <2> HIDE DEF u
  <2> QED
    BY <1>5, <2>1, <2>2
<1> HIDE DEF u
<1>7. u.refused = t.refused \cup Refusals(Absent(t, c), "absent", c)
                    \cup Refusals(early, "early", c)
  BY <1>1, <1>2, <1>6
<1> QED
  BY <1>3, <1>6, <1>7 DEF u, shown, early, Destroys

\* The end of a link is the last of the links.
Joins(S, L, t, u, time, c, link) ==
  /\ u \in TraceOf(S, L)
  /\ u.links = Append(t.links, link)
  /\ u.refused = t.refused \cup Refusals(Absent(t, c), "absent", c)
  /\ Dated(t, u, time, c)
  /\ u.types = t.types /\ u.kind = t.kind /\ u.stack = t.stack

LEMMA LinkShape ==
  ASSUME NEW S, NEW L, NEW t \in TraceOf(S, L), NEW time \in Nat, NEW c \in Containers,
         NEW side, NEW key, NEW about,
         [side |-> side, at |-> c, key |-> key, about |-> about] \in L
  PROVE  Joins(S, L, t, LinkLine(t, time, side, c, key, about), time, c,
               [side |-> side, at |-> c, key |-> key, about |-> about])
<1> DEFINE l == [side |-> side, at |-> c, key |-> key, about |-> about]
           r == Refuse(t, Absent(t, c), "absent", c)
           more == Append(t.links, l)
           p == [r EXCEPT !.links = more]
<1>1. /\ r \in TraceOf(S, L) /\ ButRefusals(t, r)
      /\ r.refused = t.refused \cup Refusals(Absent(t, c), "absent", c)
  BY RefuseShape DEF Reasons
<1>2. LinkLine(t, time, side, c, key, about) = At(p, time, c)
  BY <1>1 DEF LinkLine, ButRefusals
<1> HIDE DEF r, l
<1>3. more \in Seq(L)
  BY DEF TraceOf, l
<1> HIDE DEF more
<1>4. /\ p \in TraceOf(S, L) /\ p.links = more /\ p.types = r.types /\ p.stack = r.stack
      /\ p.latest = r.latest /\ p.kind = r.kind /\ p.refused = r.refused
  BY <1>1, <1>3 DEF TraceOf
<1> HIDE DEF p
<1> DEFINE u == At(p, time, c)
<1>5. /\ u \in TraceOf(S, L) /\ u.links = more /\ Dated(t, u, time, c)
      /\ u.types = t.types /\ u.kind = t.kind /\ u.stack = t.stack
      /\ u.refused = r.refused
  <2>1. p.latest = t.latest /\ p.types = t.types /\ p.kind = t.kind /\ p.stack = t.stack
    BY <1>1, <1>4 DEF ButRefusals
  <2>2. /\ u \in TraceOf(S, L) /\ Dated(t, u, time, c) /\ u.links = p.links
        /\ u.types = p.types /\ u.kind = p.kind /\ u.stack = p.stack /\ u.refused = p.refused
    BY <1>4, <2>1, DatedFrom
  <2> HIDE DEF u
  <2> QED
    BY <1>4, <2>1, <2>2
<1>6. LinkLine(t, time, side, c, key, about) = u
  BY <1>2
<1> HIDE DEF u
<1> QED
  BY <1>1, <1>5, <1>6 DEF more, l, Joins

\* The empty trace, and the one that tau2paje and otf2paje begin with.
LEMMA NewTraceShape ==
  ASSUME NEW S, NEW L, World \in Containers
  PROVE  NewTrace \in TraceOf(S, L)
BY DEF NewTrace, TraceOf, Kinds

LEMMA RootShape ==
  ASSUME NEW S, NEW L, World \in Containers, Root \in Containers
  PROVE  /\ TraceWithRoot \in TraceOf(S, L)
         /\ TraceWithRoot.kind[Root] = "ROOT"
         /\ <<"PROCESS", "ROOT">> \in TraceWithRoot.types
         /\ \A c \in Containers \ {Root, World} : TraceWithRoot.kind[c] = "none"
         /\ \A c \in Containers : /\ TraceWithRoot.stack[c] = <<>>
                                  /\ TraceWithRoot.latest[c] = 0
         /\ TraceWithRoot.links = <<>> /\ TraceWithRoot.refused = {}
<1> DEFINE types == {<<"ROOT", "0">>, <<"PROCESS", "ROOT">>}
           t == [NewTrace EXCEPT !.types = types]
<1>1. NewTrace \in TraceOf(S, L)
  BY NewTraceShape
<1>2. types \in SUBSET (Kinds \X Kinds)
  BY DEF Kinds
<1>3. t \in TraceOf(S, L) /\ t.types = types /\ t.kind = NewTrace.kind
      /\ t.stack = NewTrace.stack /\ t.latest = NewTrace.latest
      /\ t.links = NewTrace.links /\ t.refused = NewTrace.refused
  <2> HIDE DEF types
  <2> QED
    BY <1>1, <1>2 DEF TraceOf
<1>4. DefineContainerType(DefineContainerType(NewTrace, "ROOT", "0"), "PROCESS", "ROOT") = t
  BY DEF DefineContainerType, NewTrace
<1> HIDE DEF t
<1>5. Root # World /\ "ROOT" \in Kinds
  BY DEF Root, World, Kinds
<1>6. TraceWithRoot = CreateContainer(t, 0, Root, "ROOT", World)
  BY <1>4 DEF TraceWithRoot
<1>7. /\ \A c \in Containers : /\ t.kind[c] = IF c = World THEN "0" ELSE "none"
                               /\ t.stack[c] = <<>> /\ t.latest[c] = 0
      /\ t.links = <<>> /\ t.refused = {}
  BY <1>3 DEF NewTrace
<1>8. Refusals(t.kind[Root] # "none", "again", Root) = {}
  BY <1>5, <1>7 DEF Refusals
<1>9. Refusals(<<"ROOT", t.kind[World]>> \notin t.types, "untyped", Root) = {}
  BY <1>3, <1>7 DEF Refusals
<1>10. DOMAIN t.kind = Containers
  BY <1>3 DEF TraceOf
<1> DEFINE u == CreateContainer(t, 0, Root, "ROOT", World)
<1>11. /\ u \in TraceOf(S, L) /\ u.kind = [t.kind EXCEPT ![Root] = "ROOT"]
       /\ u.refused = {} /\ Dated(t, u, 0, Root)
       /\ u.types = types /\ u.stack = t.stack /\ u.links = t.links
  <2> HIDE DEF types
  <2> QED
    <3>1. /\ u \in TraceOf(S, L) /\ u.kind = [t.kind EXCEPT ![Root] = "ROOT"]
          /\ u.refused = t.refused \cup Refusals(t.kind[Root] # "none", "again", Root)
               \cup Refusals(<<"ROOT", t.kind[World]>> \notin t.types, "untyped", Root)
          /\ Dated(t, u, 0, Root)
          /\ u.types = t.types /\ u.stack = t.stack /\ u.links = t.links
      <4>1. Creates(S, L, t, u, 0, Root, "ROOT", World)
        BY <1>3, <1>5, CreateShape
      <4> HIDE DEF u
      <4> QED
        BY <4>1 DEF Creates
    <3> HIDE DEF u
    <3> QED
      BY <1>3, <1>7, <1>8, <1>9, <3>1
<1> HIDE DEF u
<1>12. \A c \in Containers : u.latest[c] = 0
  BY <1>7, <1>11 DEF Dated
<1> QED
  BY <1>5, <1>6, <1>7, <1>10, <1>11, <1>12 DEF u

-----------------------------------------------------------------------------
(***************************************************************************)
(* Stacks.  The named states of a sequence, counted from its beginning.    *)
(***************************************************************************)
NamedIn(states, names) == {i \in DOMAIN states : states[i] \in names}
UpTo(places, i) == {j \in places : j <= i}

LEMMA MirrorsMeans ==
  ASSUME NEW stack, NEW states, NEW names
  PROVE  Mirrors(stack, states, names) <=>
           /\ Len(stack) = Cardinality(NamedIn(states, names))
           /\ \A i \in NamedIn(states, names) :
                stack[Cardinality(UpTo(NamedIn(states, names), i))] = states[i]
BY DEF Mirrors, NamedIn, UpTo

LEMMA NamedFinite ==
  ASSUME NEW S, NEW s \in Seq(S), NEW K
  PROVE  /\ NamedIn(s, K) \subseteq 1..Len(s)
         /\ IsFiniteSet(NamedIn(s, K)) /\ Cardinality(NamedIn(s, K)) \in Nat
         /\ \A i \in NamedIn(s, K) :
              /\ IsFiniteSet(UpTo(NamedIn(s, K), i))
              /\ Cardinality(UpTo(NamedIn(s, K), i)) \in 1..Cardinality(NamedIn(s, K))
<1> DEFINE N == NamedIn(s, K)
<1>1. Len(s) \in Nat /\ N \subseteq 1..Len(s)
  BY DEF NamedIn
<1>2. IsFiniteSet(1..Len(s))
  BY <1>1, FS_Interval
<1>3. IsFiniteSet(N) /\ Cardinality(N) \in Nat
  BY <1>1, <1>2, FS_Subset, FS_CardinalityType
<1>4. ASSUME NEW i \in N
      PROVE  IsFiniteSet(UpTo(N, i)) /\ Cardinality(UpTo(N, i)) \in 1..Cardinality(N)
  <2>1. UpTo(N, i) \subseteq N /\ i \in UpTo(N, i)
    BY <1>1, <1>4 DEF UpTo
  <2>2. IsFiniteSet(UpTo(N, i)) /\ Cardinality(UpTo(N, i)) <= Cardinality(N)
    BY <1>3, <2>1, FS_Subset
  <2>3. Cardinality(UpTo(N, i)) \in Nat /\ Cardinality(UpTo(N, i)) # 0
    BY <2>1, <2>2, FS_CardinalityType, FS_EmptySet
  <2> QED
    BY <1>3, <2>2, <2>3
<1> QED
  BY <1>1, <1>3, <1>4

\* A state without a name leaves the stack as it is.
LEMMA MirrorsUnnamed ==
  ASSUME NEW S, NEW s \in Seq(S), NEW x \in S, NEW K, x \notin K, NEW stack
  PROVE  Mirrors(stack, s, K) <=> Mirrors(stack, Append(s, x), K)
<1>1. NamedIn(Append(s, x), K) = NamedIn(s, K)
  BY DEF NamedIn
<1>2. \A i \in NamedIn(s, K) : Append(s, x)[i] = s[i]
  BY DEF NamedIn
<1> QED
  BY <1>1, <1>2, MirrorsMeans

\* One with a name is pushed.
LEMMA MirrorsPushed ==
  ASSUME NEW S, NEW s \in Seq(S), NEW x \in S, NEW K, x \in K, NEW stack \in Seq(S),
         Mirrors(stack, s, K)
  PROVE  Mirrors(Append(stack, x), Append(s, x), K)
<1> DEFINE N == NamedIn(s, K)
           n == Len(s) + 1
           M == NamedIn(Append(s, x), K)
<1>1. Len(s) \in Nat /\ n \in Nat /\ n \notin 1..Len(s)
  OBVIOUS
<1>2. M = N \cup {n} /\ \A i \in N : Append(s, x)[i] = s[i]
  BY DEF NamedIn
<1>3. Append(s, x)[n] = x /\ n \notin N
  BY <1>1, NamedFinite
<1>4. Cardinality(M) = Cardinality(N) + 1
  <2> HIDE DEF N, M
  <2>1. IsFiniteSet(N)
    BY NamedFinite DEF N
  <2> QED
    BY <1>2, <1>3, <2>1, FS_AddElement
<1>5. Len(stack) = Cardinality(N) /\ \A i \in N : stack[Cardinality(UpTo(N, i))] = s[i]
  BY MirrorsMeans
<1>6. \A i \in N : i < n /\ UpTo(M, i) = UpTo(N, i)
  BY <1>1, <1>2, NamedFinite DEF UpTo
<1>7. UpTo(M, n) = M
  BY <1>1, <1>2, NamedFinite DEF UpTo
<1>8. Cardinality(N) \in Nat /\ \A i \in N : Cardinality(UpTo(N, i)) \in 1..Cardinality(N)
  BY NamedFinite
<1> HIDE DEF N, M, n
<1>9. Len(Append(stack, x)) = Cardinality(M)
  BY <1>4, <1>5
<1>10. ASSUME NEW i \in M
       PROVE  Append(stack, x)[Cardinality(UpTo(M, i))] = Append(s, x)[i]
  <2>1. CASE i \in N
    <3> DEFINE k == Cardinality(UpTo(N, i))
    <3>1. k \in 1..Len(stack) /\ stack[k] = s[i]
      BY <1>5, <1>8, <2>1
    <3> HIDE DEF k
    <3>2. Append(stack, x)[k] = stack[k]
      BY <3>1
    <3> QED
      BY <1>2, <1>6, <2>1, <3>1, <3>2 DEF k
  <2>2. CASE i = n
    <3>1. Cardinality(UpTo(M, i)) = Len(stack) + 1
      BY <1>4, <1>5, <1>7, <2>2
    <3>2. Append(stack, x)[Len(stack) + 1] = x
      OBVIOUS
    <3> QED
      BY <1>3, <2>2, <3>1, <3>2
  <2> QED
    BY <1>2, <1>10, <2>1, <2>2
<1> QED
  BY <1>9, <1>10, MirrorsMeans DEF M

\* The state entered last: the one before it were entered before.
LEMMA LastOf ==
  ASSUME NEW S, NEW s \in Seq(S), s # <<>>
  PROVE  LET rest == SubSeq(s, 1, Len(s) - 1)
         IN /\ rest \in Seq(S) /\ Len(s) \in Nat \ {0} /\ s[Len(s)] \in S
            /\ Len(rest) = Len(s) - 1 /\ \A i \in 1..Len(rest) : rest[i] = s[i]
            /\ s = Append(rest, s[Len(s)])
<1> DEFINE rest == SubSeq(s, 1, Len(s) - 1)
<1>1. Len(s) \in Nat \ {0}
  OBVIOUS
<1>2. \A i \in 1..(Len(s) - 1) : s[i] \in S
  BY <1>1
<1>3. \A n \in 0..Len(s) : /\ SubSeq(s, 1, n) \in Seq(S) /\ Len(SubSeq(s, 1, n)) = n
                          /\ \A i \in 1..n : SubSeq(s, 1, n)[i] = s[i]
  <2> TAKE n \in 0..Len(s)
  <2>1. \A i \in 1..n : s[i] \in S /\ SubSeq(s, 1, n)[i] = s[i]
    BY <1>1
  <2>2. Len(SubSeq(s, 1, n)) = n
    BY <1>1
  <2>3. SubSeq(s, 1, n) \in Seq(S)
    BY <1>1, <2>1
  <2> QED
    BY <2>1, <2>2, <2>3
<1>4. rest \in Seq(S) /\ Len(rest) = Len(s) - 1 /\ \A i \in 1..(Len(s) - 1) : rest[i] = s[i]
  <2>1. Len(s) - 1 \in 0..Len(s)
    BY <1>1
  <2> QED
    BY <1>3, <2>1
<1>5. s[Len(s)] \in S
  BY <1>1
<1> HIDE DEF rest
<1>6. s = Append(rest, s[Len(s)])
  BY <1>1, <1>3, <1>4, <1>5
<1> QED
  BY <1>1, <1>3, <1>4, <1>5, <1>6 DEF rest

\* And popped when it is left.
LEMMA MirrorsPopped ==
  ASSUME NEW S, NEW s \in Seq(S), NEW x \in S, NEW K, x \in K, NEW stack \in Seq(S),
         Mirrors(stack, Append(s, x), K)
  PROVE  /\ stack # <<>>
         /\ Mirrors(SubSeq(stack, 1, Len(stack) - 1), s, K)
<1> DEFINE N == NamedIn(s, K)
           n == Len(s) + 1
           M == NamedIn(Append(s, x), K)
           low == SubSeq(stack, 1, Len(stack) - 1)
<1>1. Len(s) \in Nat /\ n \in Nat /\ n \notin 1..Len(s)
  OBVIOUS
<1>2. M = N \cup {n} /\ \A i \in N : Append(s, x)[i] = s[i]
  BY DEF NamedIn
<1>3. n \notin N
  BY <1>1, NamedFinite
<1>4. Cardinality(M) = Cardinality(N) + 1
  <2> HIDE DEF N, M
  <2>1. IsFiniteSet(N)
    BY NamedFinite DEF N
  <2> QED
    BY <1>2, <1>3, <2>1, FS_AddElement
<1>5. Len(stack) = Cardinality(M) /\ \A i \in M : stack[Cardinality(UpTo(M, i))] = Append(s, x)[i]
  BY MirrorsMeans
<1>6. \A i \in N : i < n /\ UpTo(M, i) = UpTo(N, i)
  BY <1>1, <1>2, NamedFinite DEF UpTo
<1>7. Cardinality(N) \in Nat /\ \A i \in N : Cardinality(UpTo(N, i)) \in 1..Cardinality(N)
  BY NamedFinite
<1> HIDE DEF N, M, n
<1>8. stack # <<>>
  BY <1>4, <1>5, <1>7
<1>9. Len(low) = Cardinality(N) /\ \A k \in 1..Cardinality(N) : low[k] = stack[k]
  BY <1>4, <1>5, <1>7, <1>8, LastOf
<1>10. ASSUME NEW i \in N PROVE low[Cardinality(UpTo(N, i))] = s[i]
  <2> DEFINE k == Cardinality(UpTo(N, i))
  <2>1. k \in 1..Cardinality(N) /\ stack[k] = s[i]
    BY <1>2, <1>5, <1>6, <1>7, <1>10
  <2> HIDE DEF k
  <2>2. low[k] = stack[k]
    BY <1>9, <2>1
  <2> QED
    BY <2>1, <2>2 DEF k
<1> HIDE DEF low
<1> QED
  BY <1>8, <1>9, <1>10, MirrorsMeans DEF N, low

\* A name given to a state that was not entered changes nothing.
LEMMA MirrorsNames ==
  ASSUME NEW S, NEW s \in Seq(S), NEW K, NEW L, \A i \in 1..Len(s) : s[i] \in K <=> s[i] \in L,
         NEW stack
  PROVE  Mirrors(stack, s, K) <=> Mirrors(stack, s, L)
<1>1. NamedIn(s, K) = NamedIn(s, L)
  BY DEF NamedIn
<1> QED
  BY <1>1, MirrorsMeans

-----------------------------------------------------------------------------
(***************************************************************************)
(* otf2paje.                                                               *)
(***************************************************************************)
StateNames == {Value(f) : f \in Functions}

OtfTypeOK ==
  /\ arguments \in CommandLines /\ RunBy("otf2paje")
  /\ otf \in {"definitions", "events", "closed"}
  /\ paje \in TraceOf(StateNames, {})
  /\ process_names \subseteq Processes /\ begun \subseteq Processes
  /\ functions \subseteq Functions
  /\ entered_in \in [Processes -> Seq(Functions)]
  /\ events \in Nat /\ otf_last_time \in Nat

\* A function that may be entered was defined, and has its value.
EnteredAreDefined ==
  \A p \in Processes : \A i \in 1..Len(entered_in[p]) : entered_in[p][i] \in functions
DefinedHaveValues ==
  Prints /\ ~arguments.no_states => \A f \in functions : Value(f) \in values

\* The stack of each process.
OtfStacksMirror ==
  Prints => \A p \in Processes :
    paje.stack[Alias(p)] = IF arguments.no_states THEN <<>>
                           ELSE [i \in 1..Len(entered_in[p]) |-> Value(entered_in[p][i])]

\* The root is there until the end, and no line is later than the last one printed.
OtfRootLives ==
  Prints =>
    /\ <<"PROCESS", "ROOT">> \in paje.types
    /\ otf # "closed" => paje.kind[Root] = "ROOT"
    /\ paje.latest[Root] <= otf_last_time
NothingLate == otf_last_time <= events /\ \A c \in Containers : paje.latest[c] <= events

\* A process with a name has its container while it runs.
NamedLive ==
  Prints => \A p \in Processes :
    /\ p \notin begun => paje.kind[Alias(p)] = "none"
    /\ p \in (begun \ over) \cap process_names => paje.kind[Alias(p)] = "PROCESS"
DefinitionsFirst == otf = "definitions" => begun = {} /\ paje.refused = {}

\* The inductive invariant.
OtfInv ==
  /\ OtfTypeOK
  /\ EnteredAreDefined /\ DefinedHaveValues
  /\ OtfStacksMirror
  /\ OtfRootLives /\ NothingLate
  /\ NamedLive /\ DefinitionsFirst
  /\ OtfRefusedOnlyUnnamed

\* Processes have containers of their own.
LEMMA Aliases ==
  ASSUME OtfAssumption
  PROVE  /\ \A p \in Processes : Alias(p) \in Containers /\ Alias(p) \notin {Root, World}
         /\ \A p, q \in Processes : Alias(p) = Alias(q) => p = q
         /\ Root \in Containers /\ World \in Containers
BY DEF OtfAssumption, Alias, Root, World

LEMMA OtfInvInit ==
  ASSUME OtfAssumption, arguments \in CommandLines, RunBy("otf2paje"), OtfInit
  PROVE  OtfInv
<1>1. CASE arguments.dummy
  <2>1. paje = NewTrace
    BY <1>1 DEF OtfInit, OutputInit
  <2>2. /\ paje \in TraceOf(StateNames, {}) /\ paje.refused = {}
        /\ \A c \in Containers : paje.latest[c] = 0
    BY <2>1, Aliases, NewTraceShape DEF NewTrace
  <2> QED
    BY <1>1, <2>2
    DEF OtfInit, OtfStart, OtfInv, OtfTypeOK, EnteredAreDefined, DefinedHaveValues, OtfStacksMirror,
        OtfRootLives, NothingLate, NamedLive, DefinitionsFirst, OtfRefusedOnlyUnnamed, Prints
<1>2. CASE ~arguments.dummy
  <2>1. paje = TraceWithRoot
    BY <1>2 DEF OtfInit, OutputInit, RunBy
  <2>2. /\ paje \in TraceOf(StateNames, {}) /\ paje.refused = {}
        /\ paje.kind[Root] = "ROOT" /\ <<"PROCESS", "ROOT">> \in paje.types
        /\ \A c \in Containers \ {Root, World} : paje.kind[c] = "none"
        /\ \A c \in Containers : paje.stack[c] = <<>> /\ paje.latest[c] = 0
    BY <2>1, Aliases, RootShape
  <2>3. OtfTypeOK /\ EnteredAreDefined /\ DefinedHaveValues
    BY <2>2
    DEF OtfInit, OtfStart, OtfTypeOK, EnteredAreDefined, DefinedHaveValues
  <2>4. OtfStacksMirror
    BY <2>2, Aliases DEF OtfInit, OtfStart, OtfStacksMirror
  <2>5. OtfRootLives /\ NothingLate /\ NamedLive /\ DefinitionsFirst /\ OtfRefusedOnlyUnnamed
    BY <2>2, Aliases
    DEF OtfInit, OtfStart, OtfRootLives, NothingLate, NamedLive, DefinitionsFirst,
        OtfRefusedOnlyUnnamed
  <2> QED
    BY <2>3, <2>4, <2>5 DEF OtfInv
<1> QED
  BY <1>1, <1>2

\* The definitions touch nothing that was printed.
LEMMA DefinitionsKeep ==
  ASSUME OtfAssumption, OtfInv,
         \/ \E p \in Processes : DefProcess(p)
         \/ \E f \in Functions : DefFunction(f)
         \/ \E op \in CollectiveOps : DefCollectiveOperation(op)
         \/ DefinitionsRead
  PROVE  OtfInv'
<1> USE DEF OtfInv, OtfTypeOK
<1>1. UNCHANGED <<arguments, paje, otf_last_time, begun, over, entered_in, events>>
  BY DEF DefProcess, DefFunction, DefCollectiveOperation, DefinitionsRead, OtfDefinition,
         otfTables, otfTrace
<1>2. OtfTypeOK'
  BY <1>1 DEF DefProcess, DefFunction, DefCollectiveOperation, DefinitionsRead, OtfDefinition,
              otfTables, otfTrace, RunBy
<1>3. functions \subseteq functions' /\ EnteredAreDefined'
  BY <1>1 DEF DefProcess, DefFunction, DefCollectiveOperation, DefinitionsRead, otfTables, otfTrace,
              EnteredAreDefined
<1>4. DefinedHaveValues'
  BY <1>1 DEF DefProcess, DefFunction, DefCollectiveOperation, DefinitionsRead, otfTables, otfTrace,
              DefineEntityValue, DefinedHaveValues, Prints
<1>5. otf = "definitions" /\ begun = {} /\ paje.refused = {}
  BY DEF DefProcess, DefFunction, DefCollectiveOperation, DefinitionsRead, OtfDefinition,
         DefinitionsFirst
<1>6. otf' \in {"definitions", "events"}
  BY <1>5 DEF DefProcess, DefFunction, DefCollectiveOperation, DefinitionsRead, OtfDefinition
<1>7. OtfStacksMirror' /\ NothingLate'
  BY <1>1 DEF OtfStacksMirror, NothingLate, Prints
<1>8. OtfRootLives' /\ NamedLive' /\ DefinitionsFirst' /\ OtfRefusedOnlyUnnamed'
  BY <1>1, <1>5, <1>6
  DEF OtfRootLives, NamedLive, DefinitionsFirst, OtfRefusedOnlyUnnamed, Prints, RunBy
<1> QED
  BY <1>2, <1>3, <1>4, <1>7, <1>8

\* An event that is not printed, or with --dummy, leaves the trace and the time.
LEMMA EventTime ==
  ASSUME OtfInv, OtfEvent
  PROVE  /\ events' = events + 1 /\ events' \in Nat /\ events < events'
         /\ otf = "events" /\ otf' = "events"
         /\ UNCHANGED <<process_names, values, functions, arguments>>
BY DEF OtfInv, OtfTypeOK, OtfEvent

\* A line printed at the time of the event keeps all the times in order.
LEMMA DatedKeeps ==
  ASSUME OtfAssumption, OtfInv, NEW c \in Containers, Dated(paje, paje', events', c),
         events' \in Nat, events < events', otf_last_time' = events',
         paje' \in TraceOf(StateNames, {})
  PROVE  NothingLate' /\ paje'.latest[Root] <= otf_last_time'
<1>1. \A d \in Containers : paje.latest[d] \in Nat /\ paje.latest[d] <= events
  BY DEF OtfInv, OtfTypeOK, TraceOf, NothingLate
<1>2. \A d \in Containers : paje'.latest[d] <= events'
  BY <1>1 DEF Dated, OtfInv, OtfTypeOK
<1> QED
  BY <1>2, Aliases DEF NothingLate

\* Where nothing is printed, an event is only counted.
LEMMA SilentKeeps ==
  ASSUME OtfInv, OtfEvent, UNCHANGED <<paje, otf_last_time>>
  PROVE  OtfRootLives' /\ NothingLate' /\ DefinitionsFirst' /\ OtfRefusedOnlyUnnamed'
<1>1. events \in Nat /\ events' = events + 1 /\ otf_last_time <= events /\ otf_last_time \in Nat
      /\ \A c \in Containers : paje.latest[c] \in Nat /\ paje.latest[c] <= events
  BY DEF OtfInv, OtfTypeOK, OtfEvent, NothingLate, TraceOf
<1>2. NothingLate'
  BY <1>1 DEF NothingLate
<1> QED
  BY <1>2, EventTime
  DEF OtfInv, OtfRootLives, DefinitionsFirst, OtfRefusedOnlyUnnamed, Prints, RunBy

\* A line about a state: what Enter and Leave have in common.
LEMMA StateLineKeeps ==
  ASSUME OtfAssumption, OtfInv, OtfEvent, NEW p \in begun \ over, UNCHANGED <<begun, over>>,
         Prints, otf_last_time' = events', paje' \in TraceOf(StateNames, {}),
         paje'.refused = paje.refused \cup Refusals(Absent(paje, Alias(p)), "absent", Alias(p)),
         Dated(paje, paje', events', Alias(p)),
         paje'.types = paje.types, paje'.kind = paje.kind
  PROVE  /\ OtfRootLives' /\ NothingLate' /\ NamedLive' /\ DefinitionsFirst'
         /\ OtfRefusedOnlyUnnamed'
<1>1. p \in Processes /\ Alias(p) \in Containers
  BY Aliases DEF OtfInv, OtfTypeOK
<1>2. NothingLate' /\ paje'.latest[Root] <= otf_last_time'
  BY <1>1, EventTime, DatedKeeps
<1>3. OtfRootLives' /\ NamedLive' /\ DefinitionsFirst'
  BY <1>2, EventTime DEF OtfInv, OtfRootLives, NamedLive, DefinitionsFirst, Prints
<1>4. p \in process_names => Refusals(Absent(paje, Alias(p)), "absent", Alias(p)) = {}
  BY <1>1 DEF OtfInv, NamedLive, Absent, Refusals
<1>5. Refusals(Absent(paje, Alias(p)), "absent", Alias(p)) \subseteq {<<"absent", Alias(p)>>}
  BY DEF Refusals
<1>6. process_names' = process_names /\ UNCHANGED arguments
  BY EventTime
<1>7. OtfRefusedOnlyUnnamed'
  BY <1>1, <1>4, <1>5, <1>6 DEF OtfInv, OtfRefusedOnlyUnnamed, RunBy
<1> QED
  BY <1>2, <1>3, <1>7

\* Enter pushes what it enters.
LEMMA EnterKeeps ==
  ASSUME OtfAssumption, OtfInv, NEW p \in Processes, NEW f \in Functions, Enter(p, f)
  PROVE  OtfInv'
<1>1. /\ OtfEvent /\ p \in begun \ over /\ f \in functions /\ UNCHANGED <<begun, over>>
      /\ entered_in' = [entered_in EXCEPT ![p] = Append(@, f)]
  BY DEF Enter
<1>2. /\ UNCHANGED <<process_names, values, functions, arguments>> /\ events' \in Nat
      /\ otf' = otf /\ otf = "events"
  BY <1>1, EventTime
<1>3. entered_in \in [Processes -> Seq(Functions)] /\ entered_in' \in [Processes -> Seq(Functions)]
  BY <1>1 DEF OtfInv, OtfTypeOK
<1>4. EnteredAreDefined' /\ DefinedHaveValues'
  <2>1. \A q \in Processes : \A i \in 1..Len(entered_in'[q]) :
           entered_in'[q][i] = f \/ (i \in 1..Len(entered_in[q]) /\ entered_in'[q][i] = entered_in[q][i])
    BY <1>1, <1>3
  <2> QED
    BY <1>1, <1>2, <2>1 DEF OtfInv, EnteredAreDefined, DefinedHaveValues, Prints
<1>5. CASE arguments.no_states \/ arguments.dummy
  <2>1. UNCHANGED <<paje, otf_last_time>>
    BY <1>5 DEF Enter, PrintedAtLast
  <2>2. OtfStacksMirror' /\ NamedLive' /\ OtfTypeOK'
    BY <1>1, <1>2, <1>3, <1>5, <2>1
    DEF OtfInv, OtfTypeOK, OtfStacksMirror, NamedLive, Prints, RunBy
  <2> QED
    BY <1>1, <1>4, <2>1, <2>2, SilentKeeps DEF OtfInv
<1>6. CASE ~(arguments.no_states \/ arguments.dummy)
  <2> DEFINE c == Alias(p)
  <2>1. paje' = PushState(paje, events', c, Value(f)) /\ otf_last_time' = events'
    BY <1>6 DEF Enter, PrintedAtLast
  <2>2. c \in Containers /\ Value(f) \in StateNames /\ paje \in TraceOf(StateNames, {})
    BY Aliases DEF StateNames, OtfInv, OtfTypeOK
  <2>3. /\ paje' \in TraceOf(StateNames, {})
        /\ paje'.stack = [paje.stack EXCEPT ![c] = Append(@, Value(f))]
        /\ paje'.refused = paje.refused \cup Refusals(Absent(paje, c), "absent", c)
        /\ Dated(paje, paje', events', c)
        /\ paje'.types = paje.types /\ paje'.kind = paje.kind
    <3>1. Pushes(StateNames, {}, paje, PushState(paje, events', c, Value(f)), events', c, Value(f))
      BY <1>2, <2>2, PushShape
    <3> QED
      BY <2>1, <3>1 DEF Pushes
  <2>4. OtfTypeOK'
    BY <1>1, <1>2, <1>3, <2>1, <2>3 DEF OtfInv, OtfTypeOK, RunBy
  <2>5. OtfStacksMirror'
    <3> SUFFICES ASSUME NEW q \in Processes
                 PROVE  paje'.stack[Alias(q)]
                          = [i \in 1..Len(entered_in'[q]) |-> Value(entered_in'[q][i])]
      BY <1>2, <1>6 DEF OtfStacksMirror
    <3>1. paje.stack[Alias(q)] = [i \in 1..Len(entered_in[q]) |-> Value(entered_in[q][i])]
      BY <1>6 DEF OtfInv, OtfStacksMirror, Prints
    <3>2. CASE q # p
      BY <1>1, <1>3, <2>2, <2>3, <3>1, <3>2, Aliases DEF TraceOf
    <3>3. CASE q = p
      <4>1. paje'.stack[c] = Append(paje.stack[c], Value(f)) /\ entered_in'[p] = Append(entered_in[p], f)
        BY <1>1, <1>3, <2>2, <2>3 DEF TraceOf
      <4>2. entered_in[p] \in Seq(Functions)
        BY <1>3
      <4> DEFINE e == entered_in[p]
      <4>3. paje.stack[c] = [i \in 1..Len(e) |-> Value(e[i])]
        BY <3>1, <3>3
      <4> HIDE DEF e, c
      <4>4. Append([i \in 1..Len(e) |-> Value(e[i])], Value(f))
              = [i \in 1..Len(Append(e, f)) |-> Value(Append(e, f)[i])]
        BY <4>2 DEF e
      <4> QED
        BY <3>3, <4>1, <4>3, <4>4 DEF e, c
    <3> QED
      BY <3>2, <3>3
  <2>6. OtfRootLives' /\ NothingLate' /\ NamedLive' /\ DefinitionsFirst' /\ OtfRefusedOnlyUnnamed'
    BY <1>1, <1>6, <2>1, <2>3, StateLineKeeps DEF Prints
  <2> QED
    BY <1>4, <2>4, <2>5, <2>6 DEF OtfInv
<1> QED
  BY <1>5, <1>6

\* Leave pops what was entered last: the stack is not empty where a function is left.
LEMMA LeaveKeeps ==
  ASSUME OtfAssumption, OtfInv, NEW p \in Processes, Leave(p)
  PROVE  OtfInv'
<1> DEFINE e == entered_in[p]
           rest == SubSeq(e, 1, Len(e) - 1)
<1>1. /\ OtfEvent /\ p \in begun \ over /\ e # <<>> /\ UNCHANGED <<begun, over>>
      /\ entered_in' = [entered_in EXCEPT ![p] = rest]
  BY DEF Leave
<1>2. /\ UNCHANGED <<process_names, values, functions, arguments>> /\ events' \in Nat
      /\ otf' = otf /\ otf = "events"
  BY <1>1, EventTime
<1>3. /\ entered_in \in [Processes -> Seq(Functions)] /\ e \in Seq(Functions)
      /\ rest \in Seq(Functions)
      /\ Len(rest) = Len(e) - 1 /\ Len(e) \in Nat \ {0}
      /\ \A i \in 1..(Len(e) - 1) : rest[i] = e[i]
  <2>1. e \in Seq(Functions)
    BY DEF OtfInv, OtfTypeOK
  <2>2. entered_in \in [Processes -> Seq(Functions)] /\ e # <<>>
    BY <1>1 DEF OtfInv, OtfTypeOK
  <2> HIDE DEF e
  <2>3. Len(e) \in Nat \ {0}
    BY <2>1, <2>2
  <2>4. Len(e) - 1 \in 0..Len(e)
    BY <2>3
  <2>5. \A n \in 0..Len(e) : SubSeq(e, 1, n) \in Seq(Functions) /\ Len(SubSeq(e, 1, n)) = n
    <3> TAKE n \in 0..Len(e)
    <3>1. \A i \in 1..n : e[i] \in Functions
      BY <2>1, <2>3
    <3>2. Len(SubSeq(e, 1, n)) = n
      BY <2>1, <2>3
    <3>3. SubSeq(e, 1, n) \in Seq(Functions)
      BY <2>1, <2>3, <3>1
    <3> QED
      BY <3>2, <3>3
  <2>6. \A i \in 1..(Len(e) - 1) : rest[i] = e[i]
    BY <2>1, <2>3
  <2> QED
    BY <2>1, <2>2, <2>3, <2>4, <2>5, <2>6
<1> HIDE DEF rest
<1>4. entered_in' \in [Processes -> Seq(Functions)]
  BY <1>1, <1>3
<1>5. EnteredAreDefined' /\ DefinedHaveValues'
  <2>1. \A q \in Processes : \A i \in 1..Len(entered_in'[q]) :
           i \in 1..Len(entered_in[q]) /\ entered_in'[q][i] = entered_in[q][i]
    BY <1>1, <1>3
  <2> QED
    BY <1>1, <1>2, <2>1 DEF OtfInv, EnteredAreDefined, DefinedHaveValues, Prints
<1>6. CASE arguments.no_states \/ arguments.dummy
  <2>1. UNCHANGED <<paje, otf_last_time>>
    BY <1>6 DEF Leave, PrintedAtLast
  <2>2. OtfStacksMirror' /\ NamedLive' /\ OtfTypeOK'
    BY <1>1, <1>2, <1>4, <1>6, <2>1
    DEF OtfInv, OtfTypeOK, OtfStacksMirror, NamedLive, Prints, RunBy
  <2> QED
    BY <1>1, <1>5, <2>1, <2>2, SilentKeeps DEF OtfInv
<1>7. CASE ~(arguments.no_states \/ arguments.dummy)
  <2> DEFINE c == Alias(p)
  <2>1. paje' = PopState(paje, events', c) /\ otf_last_time' = events'
    BY <1>7 DEF Leave, PrintedAtLast
  <2>2. c \in Containers /\ paje \in TraceOf(StateNames, {})
    BY Aliases DEF OtfInv, OtfTypeOK
  <2>3. paje.stack[c] = [i \in 1..Len(e) |-> Value(e[i])]
    BY <1>7 DEF OtfInv, OtfStacksMirror, Prints
  <2>4. paje.stack[c] # <<>>
    BY <1>3, <2>3
  <2>5. /\ paje' \in TraceOf(StateNames, {})
        /\ paje'.stack = [paje.stack EXCEPT ![c] = SubSeq(@, 1, Len(@) - 1)]
        /\ paje'.refused = paje.refused \cup Refusals(Absent(paje, c), "absent", c)
        /\ Dated(paje, paje', events', c)
        /\ paje'.types = paje.types /\ paje'.kind = paje.kind
    <3>1. Pops(StateNames, {}, paje, PopState(paje, events', c), events', c)
      BY <1>2, <2>2, PopShape
    <3>2. Refusals(Absent(paje, c) \/ paje.stack[c] = <<>>, "absent", c)
            = Refusals(Absent(paje, c), "absent", c)
      BY <2>4 DEF Refusals
    <3> QED
      BY <2>1, <3>1, <3>2 DEF Pops
  <2>6. OtfTypeOK'
    BY <1>1, <1>2, <1>4, <2>1, <2>5 DEF OtfInv, OtfTypeOK, RunBy
  <2>7. OtfStacksMirror'
    <3> SUFFICES ASSUME NEW q \in Processes
                 PROVE  paje'.stack[Alias(q)]
                          = [i \in 1..Len(entered_in'[q]) |-> Value(entered_in'[q][i])]
      BY <1>2, <1>7 DEF OtfStacksMirror
    <3>1. paje.stack[Alias(q)] = [i \in 1..Len(entered_in[q]) |-> Value(entered_in[q][i])]
      BY <1>7 DEF OtfInv, OtfStacksMirror, Prints
    <3>2. CASE q # p
      BY <1>1, <1>3, <2>2, <2>5, <3>1, <3>2, Aliases DEF TraceOf
    <3>3. CASE q = p
      <4>1. /\ paje'.stack[c] = SubSeq(paje.stack[c], 1, Len(paje.stack[c]) - 1)
            /\ entered_in'[p] = rest
        BY <1>1, <1>3, <2>2, <2>5 DEF TraceOf
      <4> HIDE DEF e, c
      <4>2. SubSeq([i \in 1..Len(e) |-> Value(e[i])], 1, Len([i \in 1..Len(e) |-> Value(e[i])]) - 1)
              = [i \in 1..Len(rest) |-> Value(rest[i])]
        BY <1>3
      <4> QED
        BY <2>3, <3>3, <4>1, <4>2 DEF c
    <3> QED
      BY <3>2, <3>3
  <2>8. OtfRootLives' /\ NothingLate' /\ NamedLive' /\ DefinitionsFirst' /\ OtfRefusedOnlyUnnamed'
    BY <1>1, <1>7, <2>1, <2>5, StateLineKeeps DEF Prints
  <2> QED
    BY <1>5, <2>6, <2>7, <2>8 DEF OtfInv
<1> QED
  BY <1>6, <1>7

\* A process begins or ends: its states are left alone.
LEMMA ProcessKeepsStates ==
  ASSUME OtfInv, OtfEvent, UNCHANGED entered_in,
         paje'.stack = paje.stack, paje' \in TraceOf(StateNames, {}),
         begun' \subseteq Processes, otf_last_time' \in Nat
  PROVE  OtfTypeOK' /\ EnteredAreDefined' /\ DefinedHaveValues' /\ OtfStacksMirror'
<1>1. /\ UNCHANGED <<process_names, values, functions, arguments>> /\ events' \in Nat
      /\ otf' = otf
  BY EventTime
<1> QED
  BY <1>1
  DEF OtfInv, OtfTypeOK, EnteredAreDefined, DefinedHaveValues, OtfStacksMirror, Prints, RunBy

\* A process with a name gets a container, which was not there before.
LEMMA BeginKeeps ==
  ASSUME OtfAssumption, OtfInv, NEW p \in Processes, BeginProcess(p)
  PROVE  OtfInv'
<1>1. /\ OtfEvent /\ p \notin begun /\ begun' = begun \cup {p} /\ UNCHANGED <<over, entered_in>>
  BY DEF BeginProcess
<1>2. /\ UNCHANGED <<process_names, values, functions, arguments>> /\ events' \in Nat
      /\ otf' = otf /\ otf = "events"
  BY <1>1, EventTime
<1>3. begun' \subseteq Processes
  BY <1>1 DEF OtfInv, OtfTypeOK
<1>4. CASE p \notin process_names \/ arguments.dummy
  <2>1. UNCHANGED <<paje, otf_last_time>>
    BY <1>4 DEF BeginProcess, PrintedAtLast
  <2>2. OtfTypeOK' /\ EnteredAreDefined' /\ DefinedHaveValues' /\ OtfStacksMirror'
    BY <1>1, <1>3, <2>1, ProcessKeepsStates DEF OtfInv, OtfTypeOK
  <2>3. NamedLive'
    BY <1>1, <1>2, <1>4, <2>1 DEF OtfInv, NamedLive, Prints
  <2> QED
    BY <1>1, <2>1, <2>2, <2>3, SilentKeeps DEF OtfInv
<1>5. CASE p \in process_names /\ ~arguments.dummy
  <2> DEFINE c == Alias(p)
  <2>1. paje' = CreateContainer(paje, events', c, "PROCESS", Root) /\ otf_last_time' = events'
    BY <1>5 DEF BeginProcess, PrintedAtLast
  <2>2. /\ c \in Containers /\ Root \in Containers /\ c # Root
        /\ paje \in TraceOf(StateNames, {}) /\ "PROCESS" \in Kinds
    BY Aliases DEF OtfInv, OtfTypeOK, Kinds
  <2>3. /\ paje' \in TraceOf(StateNames, {})
        /\ paje'.kind = [paje.kind EXCEPT ![c] = "PROCESS"]
        /\ paje'.refused = paje.refused \cup Refusals(paje.kind[c] # "none", "again", c)
             \cup Refusals(<<"PROCESS", paje.kind[Root]>> \notin paje.types, "untyped", c)
        /\ Dated(paje, paje', events', c)
        /\ paje'.types = paje.types /\ paje'.stack = paje.stack
    <3>1. Creates(StateNames, {}, paje, CreateContainer(paje, events', c, "PROCESS", Root), events', c, "PROCESS", Root)
      BY <1>2, <2>2, CreateShape
    <3> QED
      BY <2>1, <3>1 DEF Creates
  <2>4. Refusals(paje.kind[c] # "none", "again", c) = {}
    BY <1>1, <1>5 DEF OtfInv, NamedLive, Prints, Refusals
  <2>5. Refusals(<<"PROCESS", paje.kind[Root]>> \notin paje.types, "untyped", c) = {}
    BY <1>2, <1>5 DEF OtfInv, OtfRootLives, Prints, Refusals
  <2>6. NothingLate' /\ paje'.latest[Root] <= otf_last_time'
    BY <1>1, <2>1, <2>2, <2>3, EventTime, DatedKeeps
  <2>7. OtfRootLives' /\ DefinitionsFirst'
    BY <1>2, <2>2, <2>3, <2>6 DEF OtfInv, OtfRootLives, DefinitionsFirst, Prints, TraceOf
  <2>8. NamedLive'
    <3> SUFFICES ASSUME NEW q \in Processes
                 PROVE  /\ q \notin begun' => paje'.kind[Alias(q)] = "none"
                        /\ q \in (begun' \ over') \cap process_names'
                             => paje'.kind[Alias(q)] = "PROCESS"
      BY DEF NamedLive
    <3>1. /\ q \notin begun => paje.kind[Alias(q)] = "none"
          /\ q \in (begun \ over) \cap process_names => paje.kind[Alias(q)] = "PROCESS"
      BY <1>5 DEF OtfInv, NamedLive, Prints
    <3>2. DOMAIN paje.kind = Containers
      BY <2>2 DEF TraceOf
    <3>3. CASE q = p
      BY <1>1, <2>2, <2>3, <3>2, <3>3
    <3>4. CASE q # p
      <4>1. Alias(q) # c
        BY <3>4, Aliases
      <4>2. paje'.kind[Alias(q)] = paje.kind[Alias(q)]
        BY <2>3, <3>2, <4>1, Aliases
      <4> QED
        BY <1>1, <1>2, <3>1, <3>4, <4>2
    <3> QED
      BY <3>3, <3>4
  <2>9. OtfRefusedOnlyUnnamed'
    BY <1>2, <2>3, <2>4, <2>5 DEF OtfInv, OtfRefusedOnlyUnnamed, RunBy
  <2>10. OtfTypeOK' /\ EnteredAreDefined' /\ DefinedHaveValues' /\ OtfStacksMirror'
    BY <1>1, <1>2, <1>3, <2>1, <2>3, ProcessKeepsStates
  <2> QED
    BY <2>6, <2>7, <2>8, <2>9, <2>10 DEF OtfInv
<1> QED
  BY <1>4, <1>5

\* A process with a name ends: its container is there, and has no later line.
LEMMA EndKeeps ==
  ASSUME OtfAssumption, OtfInv, NEW p \in Processes, EndProcess(p)
  PROVE  OtfInv'
<1>1. /\ OtfEvent /\ p \in begun \ over /\ over' = over \cup {p} /\ UNCHANGED <<begun, entered_in>>
  BY DEF EndProcess
<1>2. /\ UNCHANGED <<process_names, values, functions, arguments>> /\ events' \in Nat
      /\ events < events' /\ otf' = otf /\ otf = "events"
  BY <1>1, EventTime
<1>3. begun' \subseteq Processes
  BY <1>1 DEF OtfInv, OtfTypeOK
<1>4. CASE p \notin process_names \/ arguments.dummy
  <2>1. UNCHANGED <<paje, otf_last_time>>
    BY <1>4 DEF EndProcess, PrintedAtLast
  <2>2. OtfTypeOK' /\ EnteredAreDefined' /\ DefinedHaveValues' /\ OtfStacksMirror'
    BY <1>1, <1>3, <2>1, ProcessKeepsStates DEF OtfInv, OtfTypeOK
  <2>3. NamedLive'
    BY <1>1, <1>2, <1>4, <2>1 DEF OtfInv, NamedLive, Prints
  <2> QED
    BY <1>1, <2>1, <2>2, <2>3, SilentKeeps DEF OtfInv
<1>5. CASE p \in process_names /\ ~arguments.dummy
  <2> DEFINE c == Alias(p)
  <2>1. paje' = DestroyContainer(paje, events', c) /\ otf_last_time' = events'
    BY <1>5 DEF EndProcess, PrintedAtLast
  <2>2. c \in Containers /\ Root \in Containers /\ c # Root /\ paje \in TraceOf(StateNames, {})
    BY Aliases DEF OtfInv, OtfTypeOK
  <2>3. /\ paje' \in TraceOf(StateNames, {})
        /\ paje'.kind = [paje.kind EXCEPT ![c] = "gone"]
        /\ paje'.refused = paje.refused \cup Refusals(Absent(paje, c), "absent", c)
             \cup Refusals(events' < paje.latest[c], "early", c)
        /\ Dated(paje, paje', events', c)
        /\ paje'.types = paje.types /\ paje'.stack = paje.stack
    <3>1. Destroys(StateNames, {}, paje, DestroyContainer(paje, events', c), events', c)
      BY <1>2, <2>2, DestroyShape
    <3> QED
      BY <2>1, <3>1 DEF Destroys
  <2>4. Refusals(Absent(paje, c), "absent", c) = {}
    BY <1>1, <1>5 DEF OtfInv, NamedLive, Prints, Refusals, Absent
  <2>5. Refusals(events' < paje.latest[c], "early", c) = {}
    <3>1. paje.latest[c] \in Nat /\ paje.latest[c] <= events /\ events \in Nat
      BY <2>2 DEF OtfInv, OtfTypeOK, NothingLate, TraceOf
    <3>2. ~(events' < paje.latest[c])
      BY <1>2, <3>1
    <3> QED
      BY <3>2 DEF Refusals
  <2>6. NothingLate' /\ paje'.latest[Root] <= otf_last_time'
    BY <1>1, <2>1, <2>2, <2>3, EventTime, DatedKeeps
  <2>7. OtfRootLives' /\ DefinitionsFirst'
    BY <1>2, <2>2, <2>3, <2>6 DEF OtfInv, OtfRootLives, DefinitionsFirst, Prints, TraceOf
  <2>8. NamedLive'
    <3> SUFFICES ASSUME NEW q \in Processes
                 PROVE  /\ q \notin begun' => paje'.kind[Alias(q)] = "none"
                        /\ q \in (begun' \ over') \cap process_names'
                             => paje'.kind[Alias(q)] = "PROCESS"
      BY DEF NamedLive
    <3>1. /\ q \notin begun => paje.kind[Alias(q)] = "none"
          /\ q \in (begun \ over) \cap process_names => paje.kind[Alias(q)] = "PROCESS"
      BY <1>5 DEF OtfInv, NamedLive, Prints
    <3>2. CASE q = p
      BY <1>1, <3>2
    <3>3. CASE q # p
      <4>1. Alias(q) # c
        BY <3>3, Aliases
      <4>2. paje'.kind[Alias(q)] = paje.kind[Alias(q)]
        BY <2>2, <2>3, <4>1, Aliases DEF TraceOf
      <4> QED
        BY <1>1, <1>2, <3>1, <3>3, <4>2
    <3> QED
      BY <3>2, <3>3
  <2>9. OtfRefusedOnlyUnnamed'
    BY <1>2, <2>3, <2>4, <2>5 DEF OtfInv, OtfRefusedOnlyUnnamed, RunBy
  <2>10. OtfTypeOK' /\ EnteredAreDefined' /\ DefinedHaveValues' /\ OtfStacksMirror'
    BY <1>1, <1>2, <1>3, <2>1, <2>3, ProcessKeepsStates
  <2> QED
    BY <2>6, <2>7, <2>8, <2>9, <2>10 DEF OtfInv
<1> QED
  BY <1>4, <1>5

\* The root ends last, at the time of the last line.
LEMMA CloseKeeps ==
  ASSUME OtfAssumption, OtfInv, OtfClose
  PROVE  OtfInv'
<1>1. /\ otf = "events" /\ otf' = "closed" /\ UNCHANGED <<otfTables, otfTrace, arguments>>
  BY DEF OtfClose
<1>2. /\ UNCHANGED <<process_names, values, otf_last_time, arguments>>
       /\ UNCHANGED <<functions, begun, over, entered_in, events>>
  BY <1>1 DEF otfTables, otfTrace
<1>3. EnteredAreDefined' /\ DefinedHaveValues' /\ DefinitionsFirst'
  BY <1>1, <1>2 DEF OtfInv, EnteredAreDefined, DefinedHaveValues, DefinitionsFirst, Prints
<1>4. CASE arguments.dummy
  <2>1. paje' = paje
    BY <1>4 DEF OtfClose, Printed
  <2> QED
    BY <1>1, <1>2, <1>3, <1>4, <2>1
    DEF OtfInv, OtfTypeOK, OtfStacksMirror, OtfRootLives, NothingLate, NamedLive,
        OtfRefusedOnlyUnnamed, Prints, RunBy
<1>5. CASE ~arguments.dummy
  <2>1. paje' = DestroyContainer(paje, otf_last_time, Root)
    BY <1>5 DEF OtfClose, Printed
  <2>2. Root \in Containers /\ paje \in TraceOf(StateNames, {}) /\ otf_last_time \in Nat
    BY Aliases DEF OtfInv, OtfTypeOK
  <2>3. /\ paje' \in TraceOf(StateNames, {})
        /\ paje'.kind = [paje.kind EXCEPT ![Root] = "gone"]
        /\ paje'.refused = paje.refused \cup Refusals(Absent(paje, Root), "absent", Root)
             \cup Refusals(otf_last_time < paje.latest[Root], "early", Root)
        /\ Dated(paje, paje', otf_last_time, Root)
        /\ paje'.types = paje.types /\ paje'.stack = paje.stack
    <3>1. Destroys(StateNames, {}, paje, DestroyContainer(paje, otf_last_time, Root), otf_last_time, Root)
      BY <2>2, DestroyShape
    <3> QED
      BY <2>1, <3>1 DEF Destroys
  <2>4. Refusals(Absent(paje, Root), "absent", Root) = {}
    BY <1>1, <1>5 DEF OtfInv, OtfRootLives, Prints, Refusals, Absent
  <2>5. paje.latest[Root] \in Nat /\ paje.latest[Root] <= otf_last_time
    BY <1>5, <2>2 DEF OtfInv, OtfRootLives, Prints, TraceOf
  <2>6. Refusals(otf_last_time < paje.latest[Root], "early", Root) = {}
    <3>1. ~(otf_last_time < paje.latest[Root])
      BY <2>2, <2>5
    <3> QED
      BY <3>1 DEF Refusals
  <2>7. /\ paje'.latest[Root] <= otf_last_time
        /\ \A c \in Containers : paje'.latest[c] <= events
    <3>1. /\ events \in Nat /\ otf_last_time <= events
          /\ \A c \in Containers : paje.latest[c] \in Nat /\ paje.latest[c] <= events
      BY <2>2 DEF OtfInv, OtfTypeOK, NothingLate, TraceOf
    <3> QED
      BY <2>2, <2>3, <2>5, <3>1 DEF Dated
  <2>8. OtfRootLives' /\ NothingLate'
    BY <1>1, <1>2, <2>2, <2>3, <2>7 DEF OtfInv, OtfRootLives, NothingLate, Prints
  <2>9. NamedLive' /\ OtfRefusedOnlyUnnamed'
    BY <1>1, <1>2, <2>2, <2>3, <2>4, <2>6, Aliases
    DEF OtfInv, OtfTypeOK, NamedLive, OtfRefusedOnlyUnnamed, Prints, RunBy, TraceOf
  <2>10. OtfTypeOK' /\ OtfStacksMirror'
    BY <1>1, <1>2, <2>3 DEF OtfInv, OtfTypeOK, OtfStacksMirror, Prints, RunBy
  <2> QED
    BY <1>3, <2>8, <2>9, <2>10 DEF OtfInv
<1> QED
  BY <1>4, <1>5

-----------------------------------------------------------------------------
\* The invariant holds whatever the options and the trace are.
THEOREM OtfInvariant ==
  OtfSpec /\ arguments \in CommandLines /\ RunBy("otf2paje") => []OtfInv
<1> USE OtfAssumption
<1>1. OtfInit /\ arguments \in CommandLines /\ RunBy("otf2paje") => OtfInv
  BY OtfInvInit
<1>2. OtfInv /\ [OtfNext]_otfVars => OtfInv'
  <2> SUFFICES ASSUME OtfInv, [OtfNext]_otfVars PROVE OtfInv'
    OBVIOUS
  <2>1. CASE UNCHANGED otfVars
    BY <2>1
    DEF otfVars, otfTables, otfTrace, OtfInv, OtfTypeOK, EnteredAreDefined, DefinedHaveValues,
        OtfStacksMirror, OtfRootLives, NothingLate, NamedLive, DefinitionsFirst,
        OtfRefusedOnlyUnnamed, Prints, RunBy
  <2>2. CASE OtfNext
    BY <2>2, DefinitionsKeep, BeginKeeps, EnterKeeps, LeaveKeeps, EndKeeps, CloseKeeps
    DEF OtfNext
  <2> QED
    BY <2>1, <2>2
<1> QED
  BY <1>1, <1>2, PTL DEF OtfSpec

\* In every trace, with any number of processes and functions, the stack of a process holds
\* the functions that it is in, under the names that they were defined with.
THEOREM StatesAreMirrored ==
  OtfSpec /\ arguments \in CommandLines /\ RunBy("otf2paje") => []OtfStatesMirrored
<1>1. OtfInv => OtfStatesMirrored
  <2> SUFFICES ASSUME OtfInv, ~arguments.dummy, NEW p \in Processes
               PROVE  /\ paje.stack[Alias(p)]
                           = IF arguments.no_states THEN <<>>
                             ELSE [i \in DOMAIN entered_in[p] |-> Value(entered_in[p][i])]
                      /\ \A i \in DOMAIN paje.stack[Alias(p)] :
                           paje.stack[Alias(p)][i] \in values
    BY DEF OtfStatesMirrored
  <2>1. entered_in[p] \in Seq(Functions) /\ DOMAIN entered_in[p] = 1..Len(entered_in[p])
    BY DEF OtfInv, OtfTypeOK
  <2>2. CASE arguments.no_states
    BY <2>2 DEF OtfInv, OtfStacksMirror, Prints
  <2>3. CASE ~arguments.no_states
    <3>1. paje.stack[Alias(p)] = [i \in 1..Len(entered_in[p]) |-> Value(entered_in[p][i])]
      BY <2>3 DEF OtfInv, OtfStacksMirror, Prints
    <3>2. \A i \in 1..Len(entered_in[p]) : Value(entered_in[p][i]) \in values
      BY <2>3 DEF OtfInv, EnteredAreDefined, DefinedHaveValues, Prints
    <3> QED
      BY <2>1, <2>3, <3>1, <3>2
  <2> QED
    BY <2>2, <2>3
<1> QED
  BY <1>1, OtfInvariant, PTL

\* In every trace the only lines that a reader of the output refuses are about processes
\* whose name is not in the table.
THEOREM RefusalsAreUnnamed ==
  OtfSpec /\ arguments \in CommandLines /\ RunBy("otf2paje") => []OtfRefusedOnlyUnnamed
BY OtfInvariant, PTL DEF OtfInv

-----------------------------------------------------------------------------
(***************************************************************************)
(* What is defined along a sequence, one step after the other.             *)
(***************************************************************************)
LEMMA NumbersWellFounded ==
  \E R : IsWellFoundedOn(R, Nat) /\ \A x, y \in Nat : x < y => <<x, y>> \in R
<1> DEFINE R == OpToRel(<, Nat)
<1>1. IsWellFoundedOn(R, Nat)
  BY NatLessThanWellFounded
<1>2. \A x, y \in Nat : x < y => <<x, y>> \in R
  BY DEF OpToRel
<1> QED
  BY <1>1, <1>2

LEMMA LeastNumber ==
  ASSUME NEW S, S \subseteq Nat, S # {}
  PROVE  \E m \in S : \A n \in S : m <= n
<1>1. PICK R : IsWellFoundedOn(R, Nat) /\ \A x, y \in Nat : x < y => <<x, y>> \in R
  BY NumbersWellFounded
<1>2. IsWellFoundedOn(R, Nat)
  BY <1>1
<1>3. PICK x \in S : \A y \in S : ~(<<y, x>> \in R)
  BY <1>2, WFMin, Zenon
<1>4. \A y \in S : ~(y < x)
  BY <1>1, <1>3
<1> QED
  BY <1>3, <1>4

\* Induction up to n, over a set.
LEMMA Climb ==
  ASSUME NEW n \in Nat, NEW Good, 0 \in Good, \A i \in 1..n : i - 1 \in Good => i \in Good
  PROVE  \A i \in 0..n : i \in Good
<1> DEFINE Bad == {i \in 0..n : i \notin Good}
<1>1. SUFFICES ASSUME Bad # {} PROVE FALSE
  OBVIOUS
<1>2. PICK m \in Bad : \A i \in Bad : m <= i
  <2>1. Bad \subseteq Nat
    OBVIOUS
  <2> HIDE DEF Bad
  <2> QED
    BY <1>1, <2>1, LeastNumber
<1>3. m \in 1..n /\ m - 1 \in 0..n /\ ~(m <= m - 1)
  BY <1>2
<1>4. m - 1 \in Good
  BY <1>2, <1>3
<1> QED
  BY <1>2, <1>3, <1>4

\* Steps taken one after the other lead somewhere.
StepsIn(Step, n, T) == Step \in [1..n -> [T -> T]]
RunsUp(f, Step, n, x, T) ==
  f \in [0..n -> T] /\ f[0] = x /\ \A i \in 1..n : f[i] = Step[i][f[i - 1]]
RunsDown(f, Step, n, x, T) ==
  f \in [1..(n + 1) -> T] /\ f[n + 1] = x /\ \A i \in 1..n : f[i] = Step[i][f[i + 1]]

LEMMA Recursion ==
  ASSUME NEW T, NEW x \in T, NEW n \in Nat, NEW Step, StepsIn(Step, n, T)
  PROVE  \E f : RunsUp(f, Step, n, x, T)
<1> DEFINE Good == {k \in 0..n : \E f : RunsUp(f, Step, k, x, T)}
<1>1. 0 \in Good
  <2>1. RunsUp([i \in 0..0 |-> x], Step, 0, x, T)
    BY DEF RunsUp
  <2> QED
    BY <2>1
<1>2. ASSUME NEW k \in 1..n, k - 1 \in Good PROVE k \in Good
  <2>1. PICK f : RunsUp(f, Step, k - 1, x, T)
    BY <1>2
  <2> DEFINE g == [i \in 0..k |-> IF i = k THEN Step[k][f[k - 1]] ELSE f[i]]
  <2>2. k - 1 \in Nat /\ f[k - 1] \in T /\ Step[k] \in [T -> T]
    BY <2>1 DEF RunsUp, StepsIn
  <2>3. g \in [0..k -> T] /\ g[0] = x
    BY <2>1, <2>2 DEF RunsUp
  <2>4. \A i \in 1..k : g[i] = Step[i][g[i - 1]]
    <3> TAKE i \in 1..k
    <3>1. CASE i = k
      BY <2>2, <3>1
    <3>2. CASE i # k
      BY <2>1, <2>2, <3>2 DEF RunsUp
    <3> QED
      BY <3>1, <3>2
  <2>5. RunsUp(g, Step, k, x, T)
    BY <2>3, <2>4 DEF RunsUp
  <2> HIDE DEF g
  <2> QED
    BY <2>5
<1>3. n \in Good
  <2> HIDE DEF Good
  <2>1. \A i \in 0..n : i \in Good
    BY <1>1, <1>2, Climb
  <2> QED
    BY <2>1
<1> QED
  BY <1>3

\* And so do steps taken downwards.
LEMMA Countdown ==
  ASSUME NEW T, NEW x \in T, NEW n \in Nat, NEW Step, StepsIn(Step, n, T)
  PROVE  \E f : RunsDown(f, Step, n, x, T)
<1> DEFINE Upward == [i \in 1..n |-> Step[n + 1 - i]]
<1>1. StepsIn(Upward, n, T)
  BY DEF StepsIn
<1>2. PICK g : RunsUp(g, Upward, n, x, T)
  <2> HIDE DEF Upward
  <2> QED
    BY <1>1, Recursion
<1> DEFINE f == [i \in 1..(n + 1) |-> g[n + 1 - i]]
<1>3. f \in [1..(n + 1) -> T] /\ f[n + 1] = x
  BY <1>2 DEF RunsUp
<1>4. ASSUME NEW i \in 1..n PROVE f[i] = Step[i][f[i + 1]]
  <2>1. n + 1 - i \in 1..n /\ n + 1 - (n + 1 - i) = i /\ n + 1 - i - 1 = n + 1 - (i + 1)
    OBVIOUS
  <2>2. g[n + 1 - i] = Step[i][g[n + 1 - (i + 1)]]
    BY <1>2, <2>1 DEF RunsUp
  <2> QED
    BY <2>1, <2>2
<1>5. RunsDown(f, Step, n, x, T)
  BY <1>3, <1>4 DEF RunsDown
<1> HIDE DEF f
<1> QED
  BY <1>5

-----------------------------------------------------------------------------
(***************************************************************************)
(* otf22paje.                                                              *)
(***************************************************************************)
LEMMA NamedContainers ==
  /\ \A l \in LocationRefs : Thread(l) \in Containers
  /\ \A g \in 0..(MaxGroups - 1) : Thread(g) \in Containers
  /\ \A k, l : Thread(k) = Thread(l) => k = l
  /\ World \in Containers /\ "0" \in ContainerTexts
  /\ \A text \in Text : Named(text) \in Containers /\ Named(ShortName[text]) \in Containers
  /\ \A text \in ContainerTexts : Named(text) \in Containers
<1>1. MaxGroups \in Nat /\ MaxLocations \in Nat /\ World \in Containers
  BY Otf2Assumption
<1>2. LocationRefs \subseteq 0..(MaxGroups + MaxLocations)
      /\ 0..(MaxGroups - 1) \subseteq 0..(MaxGroups + MaxLocations)
  BY <1>1 DEF LocationRefs
<1>3. \A k, l : Thread(k) = Thread(l) => k = l
  BY DEF Thread
<1>4. \A i \in 0..(MaxGroups + MaxLocations) : Thread(i) \in Containers
  BY Otf2Assumption
<1>5. \A text \in Text : Named(text) \in Containers /\ Named(ShortName[text]) \in Containers
  BY Otf2Assumption DEF Text
<1>6. "0" \in ContainerTexts
  BY HostfileAssumption
<1>7. \A text \in ContainerTexts : Named(text) \in Containers
  BY DEF ContainerTexts
<1> QED
  BY <1>1, <1>2, <1>3, <1>4, <1>5, <1>6, <1>7

LEMMA DefineShape ==
  ASSUME NEW S, NEW L, NEW t \in TraceOf(S, L), NEW type \in Kinds, NEW above \in Kinds
  PROVE  LET u == DefineContainerType(t, type, above)
         IN /\ u \in TraceOf(S, L) /\ u.types = t.types \cup {<<type, above>>}
            /\ u.kind = t.kind /\ u.parent = t.parent /\ u.stack = t.stack
            /\ u.latest = t.latest /\ u.links = t.links /\ u.refused = t.refused
<1> DEFINE all == t.types \cup {<<type, above>>}
<1>1. all \in SUBSET (Kinds \X Kinds)
  BY DEF TraceOf
<1>2. DefineContainerType(t, type, above) = [t EXCEPT !.types = all]
  BY DEF DefineContainerType
<1> HIDE DEF all
<1>3. LET u == [t EXCEPT !.types = all]
      IN /\ u \in TraceOf(S, L) /\ u.types = all
         /\ u.kind = t.kind /\ u.parent = t.parent /\ u.stack = t.stack
         /\ u.latest = t.latest /\ u.links = t.links /\ u.refused = t.refused
  BY <1>1 DEF TraceOf
<1> QED
  BY <1>2, <1>3 DEF all

\* What the hostfile makes, the states being these.
NfTypes == {"L0", "L1", "L2", "L3", "H", "P"}
DoneOf(stack) ==
  [trace : {t \in TraceOf(Text, {}) : t.stack = stack},
   types : SUBSET NfTypes, names : SUBSET ContainerTexts]

LEMMA DeclareDone ==
  ASSUME NEW stack, NEW done \in DoneOf(stack), NEW type \in NfTypes, NEW above \in Kinds
  PROVE  DeclareType(done, type, above) \in DoneOf(stack)
<1> DEFINE u == DefineContainerType(done.trace, type, above)
<1>1. done.trace \in TraceOf(Text, {}) /\ done.trace.stack = stack /\ type \in Kinds
  BY DEF DoneOf, NfTypes, Kinds
<1>2. u \in TraceOf(Text, {}) /\ u.stack = stack
  BY <1>1, DefineShape
<1> HIDE DEF u
<1>3. CASE type \notin done.types
  <2>1. DeclareType(done, type, above) = [done EXCEPT !.types = done.types \cup {type}, !.trace = u]
    BY <1>3 DEF DeclareType, u, DoneOf
  <2>2. done.types \cup {type} \in SUBSET NfTypes
    BY DEF DoneOf
  <2> QED
    BY <1>2, <2>1, <2>2 DEF DoneOf
<1> QED
  BY <1>3 DEF DeclareType

LEMMA MakeDone ==
  ASSUME NEW stack, NEW done \in DoneOf(stack), NEW name \in ContainerTexts,
         NEW type \in Kinds, NEW above \in ContainerTexts
  PROVE  MakeContainer(done, name, type, above) \in DoneOf(stack)
<1> DEFINE u == CreateContainer(done.trace, 0, Named(name), type, Named(above))
<1>1. done.trace \in TraceOf(Text, {}) /\ done.trace.stack = stack
      /\ Named(name) \in Containers /\ Named(above) \in Containers
  BY DEF DoneOf, ContainerTexts
<1>2. u \in TraceOf(Text, {}) /\ u.stack = stack
  <2>1. Creates(Text, {}, done.trace, u, 0, Named(name), type, Named(above))
    BY <1>1, CreateShape
  <2> QED
    BY <1>1, <2>1 DEF Creates
<1> HIDE DEF u
<1>3. CASE name \notin done.names
  <2>1. MakeContainer(done, name, type, above)
          = [done EXCEPT !.names = done.names \cup {name}, !.trace = u]
    BY <1>3 DEF MakeContainer, u, DoneOf
  <2>2. done.names \cup {name} \in SUBSET ContainerTexts
    BY DEF DoneOf
  <2> QED
    BY <1>2, <2>1, <2>2 DEF DoneOf
<1> QED
  BY <1>3 DEF MakeContainer

\* One level of a line, and all of them.
LevelOf(done, above, j) ==
  MakeContainer(
    DeclareType(done, Levels[j], IF j = Len(above) THEN "0" ELSE Levels[j + 1]),
    above[j], Levels[j], IF j = Len(above) THEN "0" ELSE above[j + 1])

LEMMA LevelDone ==
  ASSUME NEW stack, NEW done \in DoneOf(stack),
         NEW above \in Seq(ContainerTexts), Len(above) <= 3, NEW j \in 1..Len(above)
  PROVE  LevelOf(done, above, j) \in DoneOf(stack)
<1>1. \A i \in 1..3 : Levels[i] \in NfTypes /\ Levels[i] \in Kinds
  BY DEF Levels, NfTypes, Kinds
<1>2. Len(above) \in Nat /\ j \in 1..3 /\ (j # Len(above) => j + 1 \in 1..3 /\ j + 1 \in 1..Len(above))
  OBVIOUS
<1>3. above[j] \in ContainerTexts /\ (j # Len(above) => above[j + 1] \in ContainerTexts)
  BY <1>2
<1> DEFINE outer == IF j = Len(above) THEN "0" ELSE Levels[j + 1]
           in == IF j = Len(above) THEN "0" ELSE above[j + 1]
<1>4. "0" \in Kinds /\ "0" \in ContainerTexts
  BY NamedContainers DEF Kinds
<1>5. outer \in Kinds /\ in \in ContainerTexts
  BY <1>1, <1>2, <1>3, <1>4
<1> HIDE DEF outer, in
<1>6. DeclareType(done, Levels[j], outer) \in DoneOf(stack)
  BY <1>1, <1>2, <1>5, DeclareDone
<1>7. MakeContainer(DeclareType(done, Levels[j], outer), above[j], Levels[j], in) \in DoneOf(stack)
  BY <1>1, <1>2, <1>3, <1>5, <1>6, MakeDone
<1> QED
  BY <1>7 DEF LevelOf, outer, in

LEMMA LevelsFrom ==
  ASSUME NEW stack, NEW done \in DoneOf(stack),
         NEW above \in Seq(ContainerTexts), Len(above) <= 3
  PROVE  \E from : /\ from \in [1..(Len(above) + 1) -> DoneOf(stack)]
                   /\ from[Len(above) + 1] = done
                   /\ \A j \in 1..Len(above) : from[j] = LevelOf(from[j + 1], above, j)
                   /\ MakeLevels(done, above) = from[1]
<1> DEFINE n == Len(above)
           T == DoneOf(stack)
           Rec(f) == [j \in 1..(n + 1) |-> IF j = n + 1 THEN done ELSE LevelOf(f[j + 1], above, j)]
           from == CHOOSE f : f = Rec(f)
           Step == [j \in 1..n |-> [d \in T |-> LevelOf(d, above, j)]]
<1>1. n \in Nat
  OBVIOUS
<1>2. StepsIn(Step, n, T)
  BY LevelDone DEF StepsIn
<1>3. PICK g : RunsDown(g, Step, n, done, T)
  <2> HIDE DEF Step, T, n
  <2> QED
    BY <1>1, <1>2, Countdown DEF T
<1>4. g = Rec(g)
  <2>1. g \in [1..(n + 1) -> T] /\ g[n + 1] = done /\ \A j \in 1..n : g[j] = Step[j][g[j + 1]]
    BY <1>3 DEF RunsDown
  <2>2. \A j \in 1..(n + 1) : g[j] = Rec(g)[j]
    <3> TAKE j \in 1..(n + 1)
    <3>1. CASE j = n + 1
      BY <1>1, <2>1, <3>1
    <3>2. CASE j # n + 1
      <4>1. j \in 1..n /\ j + 1 \in 1..(n + 1)
        BY <1>1, <3>2
      <4>2. g[j + 1] \in T
        BY <2>1, <4>1
      <4>3. g[j] = LevelOf(g[j + 1], above, j)
        BY <2>1, <4>1, <4>2
      <4> QED
        BY <3>2, <4>3
    <3> QED
      BY <3>1, <3>2
  <2> HIDE DEF Step, T
  <2> QED
    BY <2>1, <2>2
<1>5. from = Rec(from)
  <2> HIDE DEF Rec
  <2> QED
    BY <1>4
<1>6. MakeLevels(done, above) = from[1]
  BY Zenon DEF MakeLevels, LevelOf
<1> HIDE DEF from, Rec, Step, T
<1>7. /\ from[n + 1] = done
      /\ \A j \in 1..n : from[j] = LevelOf(from[j + 1], above, j)
  <2>1. from = [j \in 1..(n + 1) |-> IF j = n + 1 THEN done ELSE LevelOf(from[j + 1], above, j)]
    BY <1>5 DEF Rec
  <2> QED
    BY <1>1, <2>1
<1>8. \A j \in 1..(n + 1) : from[j] \in T
  <2> DEFINE Good == {k \in 0..n : from[n + 1 - k] \in T}
  <2>1. 0 \in Good
    BY <1>1, <1>7 DEF T
  <2>2. ASSUME NEW k \in 1..n, k - 1 \in Good PROVE k \in Good
    <3>1. n + 1 - k \in 1..n /\ n + 1 - k + 1 = n + 1 - (k - 1)
      BY <1>1
    <3>2. from[n + 1 - (k - 1)] \in T
      BY <2>2
    <3>3. from[n + 1 - k] = LevelOf(from[n + 1 - (k - 1)], above, n + 1 - k)
      BY <1>7, <3>1
    <3>4. from[n + 1 - k] \in T
      BY <3>1, <3>2, <3>3, LevelDone DEF T
    <3> QED
      BY <3>4
  <2>3. \A k \in 0..n : k \in Good
    <3> HIDE DEF Good
    <3> QED
      BY <1>1, <2>1, <2>2, Climb
  <2> TAKE j \in 1..(n + 1)
  <2>4. n + 1 - j \in 0..n /\ n + 1 - (n + 1 - j) = j
    BY <1>1
  <2> QED
    BY <2>3, <2>4
<1>9. from \in [1..(n + 1) -> T]
  <2>1. from = [j \in 1..(n + 1) |-> IF j = n + 1 THEN done ELSE LevelOf(from[j + 1], above, j)]
    BY <1>5 DEF Rec
  <2>2. DOMAIN from = 1..(n + 1) /\ from = [j \in 1..(n + 1) |-> from[j]]
    BY <2>1
  <2> QED
    BY <1>8, <2>2
<1> QED
  BY <1>6, <1>7, <1>9 DEF T

\* What a line of the hostfile is.
LEMMA LineShape ==
  ASSUME NEW line \in HostLines
  PROVE  /\ line.above \in Seq(ContainerTexts) /\ Len(line.above) <= 3
         /\ line.host # "" => line.host \in ContainerTexts /\ line.pieces[1] \in ContainerTexts
<1>1. line.above \in Seq(ContainerTexts) /\ Len(line.above) <= Len(Levels)
  BY HostfileAssumption, Zenon
<1>2. line.host # "" => line.host \in ContainerTexts /\ line.pieces[1] \in ContainerTexts
  BY HostfileAssumption, Zenon
<1>3. Len(Levels) = 3
  BY DEF Levels
<1> QED
  BY <1>1, <1>2, <1>3

LEMMA DepthShape ==
  ASSUME NEW line \in HostLines
  PROVE  /\ Depth(line) \in Nat
         /\ Depth(line) > 1 => 1 \in 1..Len(line.above) /\ line.host # ""
<1> DEFINE above == line.above
<1>1. above \in Seq(ContainerTexts)
  BY LineShape
<1> HIDE DEF above
<1>2. Len(above) \in Nat
  BY <1>1
<1> DEFINE d == Depth(line)
           n == Len(above)
           none == line.host = ""
<1>3. \/ none /\ d = 0
      \/ ~none /\ d = 1 + n
  BY Zenon DEF Depth, above
<1> HIDE DEF d, n, none
<1>4. n \in Nat
  BY <1>2 DEF n
<1>5. d \in Nat /\ (d > 1 => 1 \in 1..n /\ ~none)
  BY <1>3, <1>4
<1> QED
  BY <1>5, Zenon DEF above, d, n, none

LEMMA HostDone ==
  ASSUME NEW stack, NEW done \in DoneOf(stack), NEW line \in HostLines, Depth(line) > 1
  PROVE  MakeHost(done, line) \in DoneOf(stack)
<1>1. 1 \in 1..Len(line.above) /\ line.host # ""
  BY DepthShape
<1>2. line.above[1] \in ContainerTexts
  <2> DEFINE above == line.above
  <2>1. above \in Seq(ContainerTexts) /\ 1 \in 1..Len(above)
    BY <1>1, LineShape
  <2> HIDE DEF above
  <2>2. above[1] \in ContainerTexts
    BY <2>1
  <2> QED
    BY <2>2 DEF above
<1>3. line.host \in ContainerTexts /\ line.pieces[1] \in ContainerTexts
  BY <1>1, LineShape, Zenon
<1>4. {"L0", "H"} \subseteq NfTypes /\ {"L0", "L1", "H"} \subseteq Kinds
  BY DEF NfTypes, Kinds
<1> DEFINE cluster == MakeContainer(DeclareType(done, "L0", "L1"), line.pieces[1], "L0", line.above[1])
<1>5. cluster \in DoneOf(stack)
  BY <1>2, <1>3, <1>4, DeclareDone, MakeDone
<1> HIDE DEF cluster
<1>6. MakeContainer(DeclareType(cluster, "H", "L0"), line.host, "H", line.pieces[1]) \in DoneOf(stack)
  BY <1>3, <1>4, <1>5, DeclareDone, MakeDone
<1> QED
  BY <1>6 DEF MakeHost, cluster

\* A line of the hostfile leaves the states alone.
LEMMA HostfileKeeps ==
  ASSUME NEW line \in HostLines, NEW outcome, HostfileLine(line, outcome),
         paje \in TraceOf(Text, {}), nf_types \subseteq NfTypes,
         nf_containers \subseteq ContainerTexts
  PROVE  /\ paje' \in TraceOf(Text, {}) /\ paje'.stack = paje.stack
         /\ nf_types' \subseteq NfTypes /\ nf_containers' \subseteq ContainerTexts
<1> DEFINE done == Declared(paje)
           levels == MakeLevels(done, line.above)
           made == MakeHost(levels, line)
           T == DoneOf(paje.stack)
           keeps(d) == paje' = d.trace /\ nf_types' = d.types /\ nf_containers' = d.names
<1>1. done \in T
  BY DEF Declared, DoneOf
<1>2. line.above \in Seq(ContainerTexts) /\ Len(line.above) <= 3
  BY LineShape
<1>3. levels \in T
  <2> DEFINE above == line.above
  <2>1. above \in Seq(ContainerTexts) /\ Len(above) <= 3 /\ Len(above) \in Nat
    BY <1>2
  <2> HIDE DEF above, done
  <2>2. PICK from : /\ from \in [1..(Len(above) + 1) -> T]
                    /\ MakeLevels(done, above) = from[1]
    BY <1>1, <2>1, LevelsFrom
  <2>3. 1 \in 1..(Len(above) + 1)
    BY <2>1
  <2> QED
    BY <2>2, <2>3 DEF above
<1>4. \/ UNCHANGED <<paje, nf_types, nf_containers>>
      \/ keeps(levels)
      \/ Depth(line) > 1 /\ keeps(made)
  <2> DEFINE d == Depth(line)
  <2>3. d \in Nat
    BY DepthShape
  <2> HIDE DEF d
  <2>4. d <= 1 \/ d > 1
    BY <2>3
  <2>1. Depth(line) <= 1 \/ Depth(line) > 1
    BY <2>4, Zenon DEF d
  <2>2. \/ UNCHANGED <<paje, nfVars>>
        \/ Depth(line) <= 1 /\ UNCHANGED <<paje, nf_types, nf_containers>>
        \/ ~(Depth(line) <= 1) /\ (keeps(levels) \/ keeps(made))
    BY Zenon DEF HostfileLine
  <2> HIDE DEF levels, made, done, keeps
  <2> QED
    BY <2>1, <2>2 DEF nfVars
<1> HIDE DEF levels, made, done, keeps
<1>5. ASSUME NEW d \in T, keeps(d)
      PROVE  /\ paje' \in TraceOf(Text, {}) /\ paje'.stack = paje.stack
             /\ nf_types' \subseteq NfTypes /\ nf_containers' \subseteq ContainerTexts
  BY <1>5 DEF DoneOf, keeps
<1>6. Depth(line) > 1 => made \in T
  BY <1>3, HostDone DEF made
<1> HIDE DEF T
<1> QED
  BY <1>3, <1>4, <1>5, <1>6

-----------------------------------------------------------------------------
(***************************************************************************)
(* What the tables of otf22paje hold when the archive is defined: nodes by *)
(* their places, groups and locations by their references.                 *)
(***************************************************************************)
TypeName == Text \cup {"thread", Uninitialized}
NodeDef == [self : NodeRefs, name : Text, class : Text, parent : {-1} \cup NodeRefs]
GroupDef == [self : 0..(MaxGroups - 1), parent : NodeRefs]
LocationDef == [self : LocationRefs, type : LocationTypes, group : 0..(MaxGroups - 1)]

Otf2TypeOK ==
  /\ arguments \in CommandLines
  /\ otf2 \in {"start", "hostfile", "definitions", "events", "closed", "failed", "exit",
               "undefined"}
  /\ paje \in TraceOf(Text, {})
  /\ nf_types \subseteq NfTypes /\ nf_containers \subseteq ContainerTexts
  /\ strings \subseteq strings_told /\ strings_told \subseteq StringRefs
  /\ regions \subseteq regions_told /\ regions_told \subseteq RegionRefs
  /\ typeTree \in Seq(TypeName) /\ containerTree \in Seq(Text)
  /\ groups \in Seq(NodeRefs) /\ locations \in Seq(LocationRefs)
  /\ nodes \in Seq(NodeDef) /\ group_defs \in Seq(GroupDef)
  /\ location_defs \in Seq(LocationDef)
  /\ kinds \in 0..4 /\ in_order \in BOOLEAN /\ otf2_events \in Nat
  /\ last_timestamp \in Nat \cup {-1}
  /\ open \in [LocationRefs -> Seq(RegionRefs)]

\* What kind of definitions has begun tells what has been defined.
KindsInOrder ==
  /\ kinds > 0 => strings_told = StringRefs
  /\ kinds < 1 => regions_told = {}
  /\ kinds < 2 => nodes = <<>>
  /\ kinds < 3 => group_defs = <<>>
  /\ kinds < 4 => location_defs = <<>>

\* The regions that a location is in were defined.
OpenTold == \A l \in LocationRefs : \A i \in 1..Len(open[l]) : open[l][i] \in regions_told

\* The table of containers is appended to, so that nodes have to come in order.
NodesPlaced ==
  otf2 # "undefined" /\ ~arguments.flat =>
    /\ Len(containerTree) = Len(nodes)
    /\ \A i \in 1..Len(nodes) : /\ nodes[i].self = i - 1
                                /\ containerTree[i] = nodes[i].name
                                /\ nodes[i].parent \in -1..(i - 2)

\* Groups are kept in a tree only; locations always.
GroupsPlaced ==
  /\ arguments.flat \/ arguments.hostfile => groups = <<>>
  /\ ~arguments.flat /\ ~arguments.hostfile =>
       /\ Len(groups) = Len(group_defs)
       /\ \A i \in 1..Len(groups) : groups[i] = group_defs[i].parent
  /\ otf2 # "undefined" /\ ~arguments.flat =>
       \A i \in 1..Len(group_defs) : group_defs[i].parent \in 0..(Len(nodes) - 1)
  /\ Len(locations) = Len(location_defs)
  /\ \A i \in 1..Len(locations) : locations[i] = location_defs[i].self

Otf2Placed == Otf2TypeOK /\ KindsInOrder /\ OpenTold /\ NodesPlaced /\ GroupsPlaced

LEMMA Appended ==
  ASSUME NEW S, NEW s \in Seq(S), NEW x \in S
  PROVE  /\ Append(s, x) \in Seq(S) /\ Len(s) \in Nat /\ Len(Append(s, x)) = Len(s) + 1
         /\ \A i \in 1..Len(s) : Append(s, x)[i] = s[i] /\ i \in 1..(Len(s) + 1)
         /\ Append(s, x)[Len(s) + 1] = x
         /\ \A i \in 1..(Len(s) + 1) : i \in 1..Len(s) \/ i = Len(s) + 1
OBVIOUS

\* A new type fills the table by one entry, and is defined in that of the node above.
TypeEntered(n, index, type, above, t) ==
  /\ n.table \in Seq(TypeName)
  /\ n.table = IF Found(type) THEN typeTree ELSE WithType(index, type)
  /\ n.trace \in TraceOf(Text, {})
  /\ n.trace.types = IF Found(type) THEN t.types ELSE t.types \cup {<<type, TypeOf(above)>>}
  /\ n.trace.kind = t.kind /\ n.trace.parent = t.parent /\ n.trace.stack = t.stack
  /\ n.trace.latest = t.latest /\ n.trace.refused = t.refused

LEMMA NewTypeShape ==
  ASSUME Otf2TypeOK, NEW index \in Nat, NEW type \in Text \cup {"thread"},
         Found(type) \/ index <= Len(typeTree), NEW above \in Nat \cup {-1},
         NEW t \in TraceOf(Text, {})
  PROVE  TypeEntered(NewType(index, type, above, t), index, type, above, t)
<1>1. typeTree \in Seq(TypeName) /\ Len(typeTree) \in Nat /\ type \in TypeName /\ type \in Kinds
  BY DEF Otf2TypeOK, TypeName, Kinds
<1>2. TypeOf(above) \in Kinds
  <2>1. \A i \in 1..Len(typeTree) : typeTree[i] \in TypeName
    BY <1>1
  <2>2. TypeName \subseteq Kinds /\ "0" \in Kinds /\ Uninitialized \in Kinds
    BY DEF TypeName, Kinds
  <2>3. above # -1 /\ above < Len(typeTree) => above + 1 \in 1..Len(typeTree)
    BY <1>1
  <2> QED
    BY <2>1, <2>2, <2>3 DEF TypeOf
<1>3. CASE Found(type)
  <2>1. NewType(index, type, above, t) = [table |-> typeTree, trace |-> t]
    BY <1>3 DEF NewType
  <2> QED
    BY <1>1, <1>3, <2>1 DEF TypeEntered
<1>4. CASE ~Found(type)
  <2> DEFINE u == DefineContainerType(t, type, TypeOf(above))
  <2>1. NewType(index, type, above, t) = [table |-> WithType(index, type), trace |-> u]
    BY <1>4 DEF NewType
  <2>2. /\ u \in TraceOf(Text, {}) /\ u.types = t.types \cup {<<type, TypeOf(above)>>}
        /\ u.kind = t.kind /\ u.parent = t.parent /\ u.stack = t.stack
        /\ u.latest = t.latest /\ u.refused = t.refused
    BY <1>1, <1>2, DefineShape
  <2> HIDE DEF u
  <2>3. WithType(index, type) \in Seq(TypeName)
    <3> DEFINE q == Append(typeTree, Uninitialized)
    <3>1. q \in Seq(TypeName)
      BY <1>1 DEF TypeName
    <3> HIDE DEF q
    <3> DEFINE k == index + 1
               with == [i \in 1..Len(q) |-> IF i = k THEN type ELSE q[i]]
    <3>3. [q EXCEPT ![k] = type] = with
      BY <3>1
    <3>4. Len(q) \in Nat /\ \A i \in 1..Len(q) : q[i] \in TypeName
      BY <3>1
    <3>5. with \in [1..Len(q) -> TypeName]
      BY <1>1, <3>4
    <3> HIDE DEF with
    <3>6. with \in Seq(TypeName)
      BY <3>4, <3>5
    <3>2. [q EXCEPT ![index + 1] = type] \in Seq(TypeName)
      BY <3>3, <3>6
    <3> QED
      BY <3>2 DEF WithType, q
  <2> QED
    BY <1>4, <2>1, <2>2, <2>3 DEF TypeEntered
<1> QED
  BY <1>3, <1>4

-----------------------------------------------------------------------------
(***************************************************************************)
(* Each step of otf22paje keeps the tables so.                             *)
(***************************************************************************)
\* What most steps leave to be said.
AllBut == <<strings, regions, typeTree, containerTree, groups, locations, last_timestamp,
            kinds, archive, in_order, open, otf2_events, arguments>>

LEMMA NothingNew ==
  ASSUME Otf2Placed, otf2 # "undefined", UNCHANGED AllBut,
         otf2' \in {"start", "hostfile", "definitions", "events", "closed", "failed", "exit",
                    "undefined"},
         paje' \in TraceOf(Text, {}),
         nf_types' \subseteq NfTypes, nf_containers' \subseteq ContainerTexts
  PROVE  Otf2Placed'
<1> USE DEF AllBut, archive
<1>1. Otf2TypeOK'
  BY DEF Otf2Placed, Otf2TypeOK
<1>2. KindsInOrder' /\ OpenTold'
  BY DEF Otf2Placed, KindsInOrder, OpenTold
<1>3. NodesPlaced'
  BY DEF Otf2Placed, NodesPlaced
<1>4. GroupsPlaced'
  BY DEF Otf2Placed, GroupsPlaced
<1> QED
  BY <1>1, <1>2, <1>3, <1>4 DEF Otf2Placed

LEMMA PlacedInit ==
  ASSUME Otf2Init, arguments \in CommandLines, RunBy("otf22paje")
  PROVE  Otf2Placed /\ paje = NewTrace
<1> USE DEF Otf2Init, Otf2Start, HostfileInit
<1>1. paje = NewTrace /\ paje \in TraceOf(Text, {})
  BY NamedContainers, NewTraceShape DEF OutputInit
<1>2. Otf2TypeOK
  BY <1>1 DEF Otf2TypeOK
<1>3. KindsInOrder /\ OpenTold /\ NodesPlaced /\ GroupsPlaced
  BY DEF KindsInOrder, OpenTold, NodesPlaced, GroupsPlaced
<1> QED
  BY <1>1, <1>2, <1>3 DEF Otf2Placed

LEMMA ModesPlaced ==
  ASSUME Otf2Placed, ChooseHierarchy \/ HostfileEnds \/ DefinitionsEnd
  PROVE  Otf2Placed' /\ paje' = paje
<1>1. /\ UNCHANGED AllBut /\ paje' = paje /\ nf_types' = nf_types
      /\ nf_containers' = nf_containers /\ otf2 # "undefined"
      /\ otf2' \in {"hostfile", "definitions", "events", "failed"}
  BY DEF ChooseHierarchy, HostfileEnds, DefinitionsEnd, AllBut, tables, archive, unread, nfVars
<1>2. /\ paje \in TraceOf(Text, {}) /\ nf_types \subseteq NfTypes
      /\ nf_containers \subseteq ContainerTexts
  BY DEF Otf2Placed, Otf2TypeOK
<1>3. Otf2Placed'
  BY <1>1, <1>2, NothingNew
<1> QED
  BY <1>1, <1>3

LEMMA HostLinePlaced ==
  ASSUME Otf2Placed, ReadHostLine
  PROVE  Otf2Placed' /\ paje'.stack = paje.stack
<1>1. PICK line \in HostLines, outcome \in {"more", "done", "exit", "undefined"} :
        /\ HostfileLine(line, outcome)
        /\ otf2' = CASE outcome = "more" -> "hostfile"
                     [] outcome = "done" -> "definitions"
                     [] OTHER -> outcome
  BY DEF ReadHostLine
<1>2. UNCHANGED AllBut /\ otf2 # "undefined"
  BY DEF ReadHostLine, AllBut, tables, archive, unread
<1>3. /\ paje' \in TraceOf(Text, {}) /\ paje'.stack = paje.stack
      /\ nf_types' \subseteq NfTypes /\ nf_containers' \subseteq ContainerTexts
  BY <1>1, HostfileKeeps DEF Otf2Placed, Otf2TypeOK
<1>4. otf2' \in {"hostfile", "definitions", "exit", "undefined"}
  BY <1>1
<1>5. Otf2Placed'
  BY <1>2, <1>3, <1>4, NothingNew
<1> QED
  BY <1>3, <1>5

\* What the definitions of each kind begin with.
LEMMA KindBegins ==
  ASSUME NEW kind \in 0..4, NEW next \in BOOLEAN, Otf2Placed, OneOfKind(kind, next)
  PROVE  /\ otf2 = "definitions" /\ kinds <= kind /\ kinds' = kind /\ in_order' \in BOOLEAN
         /\ kind > 0 => strings_told = StringRefs
         /\ UNCHANGED <<last_timestamp, open, otf2_events, arguments>>
         /\ in_order' = (in_order /\ next)
BY DEF OneOfKind, unread, Otf2Placed, Otf2TypeOK

LEMMA StringPlaced ==
  ASSUME Otf2Placed, NEW self \in StringRefs, DefString(self)
  PROVE  Otf2Placed' /\ paje' = paje
<1>1. /\ otf2 = "definitions" /\ otf2' = otf2 /\ kinds = 0 /\ kinds' = 0
      /\ in_order' \in BOOLEAN
      /\ UNCHANGED <<last_timestamp, open, otf2_events, arguments>>
  <2> DEFINE next == self = Cardinality(strings_told)
  <2>1. next \in BOOLEAN /\ OneOfKind(0, next) /\ otf2' = otf2
    BY DEF DefString
  <2>2. kinds \in 0..4
    BY DEF Otf2Placed, Otf2TypeOK
  <2> HIDE DEF next
  <2> QED
    BY <2>1, <2>2, KindBegins
<1>2. /\ UNCHANGED <<regions, typeTree, containerTree, groups, locations,
                     regions_told, nodes, group_defs, location_defs, nfVars, paje>>
      /\ strings_told' = strings_told \cup {self} /\ strings' = CutAfter(strings, self)
  BY DEF DefString
<1>3. Otf2TypeOK'
  BY <1>1, <1>2 DEF Otf2Placed, Otf2TypeOK, CutAfter, nfVars
<1>4. KindsInOrder'
  BY <1>1, <1>2 DEF Otf2Placed, KindsInOrder
<1>5. OpenTold' /\ NodesPlaced' /\ GroupsPlaced'
  BY <1>1, <1>2 DEF Otf2Placed, OpenTold, NodesPlaced, GroupsPlaced
<1> QED
  BY <1>2, <1>3, <1>4, <1>5 DEF Otf2Placed

LEMMA RegionPlaced ==
  ASSUME Otf2Placed, NEW self \in RegionRefs, DefRegion(self)
  PROVE  Otf2Placed' /\ paje' = paje
<1>1. /\ otf2 = "definitions" /\ otf2' = otf2 /\ kinds \in 0..1 /\ kinds' = 1
      /\ in_order' \in BOOLEAN /\ strings_told = StringRefs
      /\ UNCHANGED <<last_timestamp, open, otf2_events, arguments>>
  <2> DEFINE next == self = Cardinality(regions_told)
  <2>1. next \in BOOLEAN /\ OneOfKind(1, next) /\ otf2' = otf2
    BY DEF DefRegion
  <2>2. kinds \in 0..4
    BY DEF Otf2Placed, Otf2TypeOK
  <2> HIDE DEF next
  <2> QED
    BY <2>1, <2>2, KindBegins
<1>2. /\ UNCHANGED <<strings, typeTree, containerTree, groups, locations,
                     strings_told, nodes, group_defs, location_defs, nfVars, paje>>
      /\ regions_told' = regions_told \cup {self} /\ regions' = CutAfter(regions, self)
  BY DEF DefRegion
<1>3. Otf2TypeOK'
  BY <1>1, <1>2 DEF Otf2Placed, Otf2TypeOK, CutAfter, nfVars
<1>4. KindsInOrder'
  BY <1>1, <1>2 DEF Otf2Placed, KindsInOrder
<1>5. OpenTold' /\ NodesPlaced' /\ GroupsPlaced'
  BY <1>1, <1>2 DEF Otf2Placed, OpenTold, NodesPlaced, GroupsPlaced
<1> QED
  BY <1>2, <1>3, <1>4, <1>5 DEF Otf2Placed

\* The strings that the definitions refer to.
LEMMA Strings ==
  /\ \A s \in StringRefs : String(s) \in Text
  /\ NodeNames \subseteq StringRefs /\ ClassNames \subseteq StringRefs
  /\ \A r \in RegionRefs : RegionNames[r + 1] \in StringRefs /\ NameOf(r) \in Text
  /\ LocationTypes \subseteq Nat
  /\ NodeRefs \subseteq Nat /\ LocationRefs \subseteq Nat
<1>1. NodeNames \cup ClassNames \subseteq StringRefs /\ LocationTypes \subseteq Nat
  BY Otf2Assumption, Zenon
<1>2. \A r \in RegionRefs : RegionNames[r + 1] \in StringRefs
  BY Otf2Assumption, Zenon
<1>3. \A s \in StringRefs : String(s) \in Text
  BY DEF Text
<1>4. \A r \in RegionRefs : NameOf(r) \in Text
  BY <1>2, <1>3 DEF NameOf
<1>5. NodeRefs \subseteq Nat /\ LocationRefs \subseteq Nat
  BY DEF NodeRefs, LocationRefs
<1> QED
  BY <1>1, <1>2, <1>3, <1>4, <1>5

\* Nodes that are placed have the numbers below theirs.
LEMMA NodesBelow ==
  ASSUME Otf2Placed, otf2 # "undefined", ~arguments.flat
  PROVE  /\ {nodes[i].self : i \in DOMAIN nodes} = 0..(Len(nodes) - 1)
         /\ Len(nodes) \in Nat /\ Len(containerTree) = Len(nodes)
         /\ \A p \in 0..(Len(nodes) - 1) :
              /\ p + 1 \in 1..Len(nodes) /\ nodes[p + 1].self = p
              /\ containerTree[p + 1] = nodes[p + 1].name
              /\ containerTree[p + 1] \in Text /\ ContainerOf(p) \in Containers
              /\ ContainerOf(p) = Named(nodes[p + 1].name)
<1>1. /\ nodes \in Seq(NodeDef) /\ Len(nodes) \in Nat /\ DOMAIN nodes = 1..Len(nodes)
      /\ containerTree \in Seq(Text)
  BY DEF Otf2Placed, Otf2TypeOK
<1>2. /\ Len(containerTree) = Len(nodes)
      /\ \A i \in 1..Len(nodes) : nodes[i].self = i - 1 /\ containerTree[i] = nodes[i].name
  BY DEF Otf2Placed, NodesPlaced
<1>3. \A p \in 0..(Len(nodes) - 1) :
        /\ p + 1 \in 1..Len(nodes) /\ nodes[p + 1].self = p
        /\ containerTree[p + 1] = nodes[p + 1].name /\ containerTree[p + 1] \in Text
        /\ p # -1
  BY <1>1, <1>2
<1>4. \A p \in 0..(Len(nodes) - 1) :
        ContainerOf(p) \in Containers /\ ContainerOf(p) = Named(nodes[p + 1].name)
  BY <1>3, NamedContainers DEF ContainerOf
<1>5. {nodes[i].self : i \in DOMAIN nodes} = 0..(Len(nodes) - 1)
  <2>1. \A i \in 1..Len(nodes) : nodes[i].self \in 0..(Len(nodes) - 1)
    BY <1>1, <1>2
  <2> QED
    BY <1>1, <1>3, <2>1
<1> QED
  BY <1>1, <1>2, <1>3, <1>4, <1>5

\* A node of the system tree that the program goes on from: its class is entered, unless
\* it is in the table, and its container is created.
NewNode(self, name, class, parent, n, u) ==
  /\ otf2' = otf2 /\ {name, class} \subseteq strings
  /\ ~BadType(self, String(class), parent) /\ self = Len(nodes)
  /\ containerTree' = Append(containerTree, String(name))
  /\ typeTree' = IF Found(String(class)) THEN typeTree ELSE WithType(self, String(class))
  /\ typeTree' \in Seq(TypeName)
  /\ n \in TraceOf(Text, {})
  /\ n.types = IF Found(String(class)) THEN paje.types
               ELSE paje.types \cup {<<String(class), TypeOf(parent)>>}
  /\ n.kind = paje.kind /\ n.parent = paje.parent /\ n.stack = paje.stack
  /\ n.latest = paje.latest /\ n.refused = paje.refused
  /\ Creates(Text, {}, n, u, 0, Named(String(name)), String(class), ContainerOf(parent))
  /\ ContainerOf(parent) \in Containers
  /\ paje' = IF arguments.dummy THEN paje ELSE u

LEMMA TreeNodeShape ==
  ASSUME Otf2Placed, otf2 = "definitions", ~arguments.flat,
         NEW self \in NodeRefs, self \notin 0..(Len(nodes) - 1),
         NEW name \in NodeNames, NEW class \in ClassNames,
         NEW parent \in {-1} \cup 0..(Len(nodes) - 1), TreeNode(self, name, class, parent)
  PROVE  \/ otf2' = "undefined" /\ UNCHANGED <<typeTree, containerTree, paje>>
         \/ \E n, u : NewNode(self, name, class, parent, n, u)
<1> DEFINE type == NewType(self, String(class), parent, paje)
           n == type.trace
           u == CreateContainer(n, 0, Named(String(name)), String(class), ContainerOf(parent))
<1>1. SUFFICES ASSUME ~(otf2' = "undefined" /\ UNCHANGED <<typeTree, containerTree, paje>>)
               PROVE  NewNode(self, name, class, parent, n, u)
  BY Zenon
<1>2. /\ {name, class} \ strings = {} /\ ~BadType(self, String(class), parent)
      /\ ~(self > Len(containerTree)) /\ otf2' = otf2
      /\ typeTree' = type.table /\ containerTree' = Append(containerTree, String(name))
      /\ paje' = Printed(u)
  BY <1>1, Zenon DEF TreeNode
<1> HIDE DEF u
<1>3. self \in Nat /\ String(name) \in Text /\ String(class) \in Text
  BY Strings
<1>4. self = Len(nodes)
  BY <1>2, <1>3, NodesBelow
<1>5. Found(String(class)) \/ self <= Len(typeTree)
  <2>1. Len(typeTree) \in Nat
    BY DEF Otf2Placed, Otf2TypeOK
  <2> QED
    BY <1>2, <1>3, <2>1 DEF BadType
<1>6. parent \in Nat \cup {-1} /\ ContainerOf(parent) \in Containers
  <2>1. CASE parent = -1
    BY <2>1, NamedContainers DEF ContainerOf
  <2>2. CASE parent \in 0..(Len(nodes) - 1)
    BY <2>2, NodesBelow
  <2> QED
    BY <2>1, <2>2
<1>7. Otf2TypeOK /\ paje \in TraceOf(Text, {})
  BY DEF Otf2Placed, Otf2TypeOK
<1>8. /\ type.table \in Seq(TypeName)
      /\ type.table = IF Found(String(class)) THEN typeTree ELSE WithType(self, String(class))
      /\ n \in TraceOf(Text, {})
      /\ n.types = IF Found(String(class)) THEN paje.types
                   ELSE paje.types \cup {<<String(class), TypeOf(parent)>>}
      /\ n.kind = paje.kind /\ n.parent = paje.parent /\ n.stack = paje.stack
      /\ n.latest = paje.latest /\ n.refused = paje.refused
  <2> DEFINE c == String(class)
  <2>1. c \in Text \cup {"thread"} /\ (Found(c) \/ self <= Len(typeTree))
    BY <1>3, <1>5
  <2> HIDE DEF c
  <2>2. TypeEntered(NewType(self, c, parent, paje), self, c, parent, paje)
    BY <1>3, <1>6, <1>7, <2>1, NewTypeShape
  <2> QED
    BY <2>2, Zenon DEF c, TypeEntered
<1> HIDE DEF n
<1>9. Creates(Text, {}, n, u, 0, Named(String(name)), String(class), ContainerOf(parent))
  <2>1. String(class) \in Kinds /\ Named(String(name)) \in Containers
    BY <1>3, NamedContainers DEF Kinds
  <2> QED
    BY <1>6, <1>8, <2>1, CreateShape DEF u
<1>10. paje' = IF arguments.dummy THEN paje ELSE u
  BY <1>2 DEF Printed
<1>11. {name, class} \subseteq strings
  BY <1>2
<1>12. /\ typeTree' = IF Found(String(class)) THEN typeTree ELSE WithType(self, String(class))
       /\ typeTree' \in Seq(TypeName)
  BY <1>2, <1>8, Zenon
<1> HIDE DEF type
<1> QED
  BY <1>2, <1>4, <1>6, <1>8, <1>9, <1>10, <1>11, <1>12, Zenon DEF NewNode

\* What the definition of a node does, whatever hierarchy is printed.
NodeDefined(self, name, class, parent) ==
  [self |-> self, name |-> String(name), class |-> String(class), parent |-> parent]

LEMMA NodeShape ==
  ASSUME Otf2Placed, NEW self \in NodeRefs, NEW name \in NodeNames, NEW class \in ClassNames,
         NEW parent \in {-1} \cup NodeRefs, DefSystemTreeNode(self, name, class, parent)
  PROVE  /\ otf2 = "definitions" /\ kinds <= 2 /\ kinds' = 2
         /\ strings_told = StringRefs
         /\ in_order' = (in_order /\ self = Len(nodes)) /\ in_order' \in BOOLEAN
         /\ nodes' = Append(nodes, NodeDefined(self, name, class, parent))
         /\ NodeDefined(self, name, class, parent) \in NodeDef
         /\ UNCHANGED <<strings, regions, groups, locations, strings_told, regions_told,
                        group_defs, location_defs, nfVars, last_timestamp, open,
                        otf2_events, arguments>>
         /\ ~arguments.flat =>
              self \notin 0..(Len(nodes) - 1) /\ parent \in {-1} \cup 0..(Len(nodes) - 1)
         /\ \/ otf2' = "undefined" /\ UNCHANGED <<typeTree, containerTree, paje>>
            \/ /\ ~arguments.flat /\ ~arguments.hostfile
               /\ \E n, u : NewNode(self, name, class, parent, n, u)
            \/ /\ arguments.hostfile /\ otf2' = otf2 /\ UNCHANGED <<typeTree, paje>>
               /\ containerTree' = Append(containerTree, String(name))
               /\ ~arguments.flat => self = Len(nodes)
            \/ /\ arguments.flat /\ otf2' = otf2 /\ UNCHANGED <<typeTree, containerTree, paje>>
<1>1. /\ otf2 = "definitions" /\ kinds <= 2 /\ kinds' = 2 /\ strings_told = StringRefs
      /\ in_order' = (in_order /\ self = Len(nodes)) /\ in_order' \in BOOLEAN
      /\ UNCHANGED <<last_timestamp, open, otf2_events, arguments>>
  <2> DEFINE next == self = Len(nodes)
  <2>1. next \in BOOLEAN /\ OneOfKind(2, next)
    BY DEF DefSystemTreeNode
  <2>2. kinds \in 0..4
    BY DEF Otf2Placed, Otf2TypeOK
  <2> HIDE DEF next
  <2>3. /\ otf2 = "definitions" /\ kinds <= 2 /\ kinds' = 2 /\ strings_told = StringRefs
        /\ in_order' = (in_order /\ next) /\ in_order' \in BOOLEAN
        /\ UNCHANGED <<last_timestamp, open, otf2_events, arguments>>
    BY <2>1, <2>2, KindBegins
  <2> QED
    BY <2>3 DEF next
<1>2. /\ nodes' = Append(nodes, NodeDefined(self, name, class, parent))
      /\ UNCHANGED <<strings, regions, groups, locations,
                     strings_told, regions_told, group_defs, location_defs, nfVars>>
      /\ self \notin {nodes[i].self : i \in DOMAIN nodes}
      /\ parent \in IF nodes = <<>> THEN {-1} ELSE {nodes[i].self : i \in DOMAIN nodes}
      /\ IF arguments.hostfile THEN HostfileNode(self, name)
         ELSE IF arguments.flat THEN UNCHANGED <<otf2, typeTree, containerTree, paje>>
         ELSE TreeNode(self, name, class, parent)
  BY Zenon DEF DefSystemTreeNode, NodeDefined
<1>3. NodeDefined(self, name, class, parent) \in NodeDef
  BY Strings DEF NodeDefined, NodeDef
<1>4. ASSUME ~arguments.flat
      PROVE  self \notin 0..(Len(nodes) - 1) /\ parent \in {-1} \cup 0..(Len(nodes) - 1)
  <2>1. {nodes[i].self : i \in DOMAIN nodes} = 0..(Len(nodes) - 1)
    BY <1>1, <1>4, NodesBelow
  <2> HIDE DEF NodeDefined
  <2> QED
    BY <1>2, <2>1
<1>5. CASE arguments.hostfile
  <2>1. HostfileNode(self, name)
    BY <1>2, <1>5
  <2>2. CASE name \notin strings \/ self > Len(containerTree)
    <3>1. otf2' = "undefined" /\ UNCHANGED <<typeTree, containerTree, paje>>
      BY <2>1, <2>2, Zenon DEF HostfileNode
    <3> QED
      BY <1>1, <1>2, <1>3, <1>4, <3>1
  <2>3. CASE ~(name \notin strings \/ self > Len(containerTree))
    <3>1. /\ containerTree' = Append(containerTree, String(name))
          /\ UNCHANGED <<otf2, typeTree, paje>>
      BY <2>1, <2>3, Zenon DEF HostfileNode
    <3>2. ~arguments.flat => self = Len(nodes)
      BY <1>1, <1>4, <2>3, NodesBelow, Strings
    <3> QED
      BY <1>1, <1>2, <1>3, <1>4, <1>5, <3>1, <3>2
  <2> QED
    BY <1>1, <1>2, <1>3, <1>4, <2>2, <2>3
<1>6. CASE ~arguments.hostfile /\ arguments.flat
  BY <1>1, <1>2, <1>3, <1>4, <1>6
<1>7. CASE ~arguments.hostfile /\ ~arguments.flat
  <2>1. TreeNode(self, name, class, parent)
    BY <1>2, <1>7
  <2>2. \/ otf2' = "undefined" /\ UNCHANGED <<typeTree, containerTree, paje>>
        \/ \E n, u : NewNode(self, name, class, parent, n, u)
    BY <1>1, <1>4, <1>7, <2>1, TreeNodeShape
  <2> QED
    BY <1>1, <1>2, <1>3, <1>4, <1>7, <2>2
<1> QED
  BY <1>5, <1>6, <1>7

LEMMA NodePlaced ==
  ASSUME Otf2Placed, NEW self \in NodeRefs, NEW name \in NodeNames, NEW class \in ClassNames,
         NEW parent \in {-1} \cup NodeRefs, DefSystemTreeNode(self, name, class, parent)
  PROVE  Otf2Placed' /\ paje'.stack = paje.stack
<1> DEFINE d == NodeDefined(self, name, class, parent)
<1>1. /\ otf2 = "definitions" /\ kinds <= 2 /\ kinds' = 2 /\ strings_told = StringRefs
      /\ in_order' \in BOOLEAN
      /\ nodes' = Append(nodes, d) /\ d \in NodeDef
      /\ UNCHANGED <<strings, regions, groups, locations, strings_told, regions_told,
                     group_defs, location_defs, nf_types, nf_containers, last_timestamp, open,
                     otf2_events, arguments>>
      /\ ~arguments.flat =>
           self \notin 0..(Len(nodes) - 1) /\ parent \in {-1} \cup 0..(Len(nodes) - 1)
  BY NodeShape DEF nfVars
<1>2. d.self = self /\ d.name = String(name) /\ d.parent = parent /\ String(name) \in Text
  BY Strings DEF NodeDefined
<1> HIDE DEF d
<1>3. /\ otf2' \in {"definitions", "undefined"}
      /\ typeTree' \in Seq(TypeName) /\ paje' \in TraceOf(Text, {}) /\ paje'.stack = paje.stack
      /\ containerTree' \in {containerTree, Append(containerTree, String(name))}
      /\ otf2' # "undefined" /\ ~arguments.flat =>
           self = Len(nodes) /\ containerTree' = Append(containerTree, String(name))
  <2>0. typeTree \in Seq(TypeName) /\ paje \in TraceOf(Text, {})
    BY DEF Otf2Placed, Otf2TypeOK
  <2>1. CASE otf2' = "undefined" /\ UNCHANGED <<typeTree, containerTree, paje>>
    BY <2>0, <2>1
  <2>2. CASE \E n, u : NewNode(self, name, class, parent, n, u)
    <3>1. PICK n, u : NewNode(self, name, class, parent, n, u)
      BY <2>2
    <3>2. u \in TraceOf(Text, {}) /\ u.stack = paje.stack
      BY <3>1 DEF NewNode, Creates
    <3> QED
      BY <1>1, <2>0, <3>1, <3>2 DEF NewNode
  <2>3. CASE /\ otf2' = otf2 /\ UNCHANGED <<typeTree, paje>>
             /\ containerTree' = Append(containerTree, String(name))
             /\ ~arguments.flat => self = Len(nodes)
    BY <1>1, <2>0, <2>3
  <2>4. CASE arguments.flat /\ otf2' = otf2 /\ UNCHANGED <<typeTree, containerTree, paje>>
    BY <1>1, <2>0, <2>4
  <2> QED
    BY <2>1, <2>2, <2>3, <2>4, NodeShape
<1>4. containerTree' \in Seq(Text) /\ nodes' \in Seq(NodeDef) /\ nodes' # <<>>
  <2>1. nodes \in Seq(NodeDef) /\ containerTree \in Seq(Text)
    BY DEF Otf2Placed, Otf2TypeOK
  <2>2. nodes' \in Seq(NodeDef) /\ nodes' # <<>>
    BY <1>1, <2>1
  <2>3. Append(containerTree, String(name)) \in Seq(Text)
    BY <1>2, <2>1
  <2>4. containerTree' \in Seq(Text)
    BY <1>3, <2>1, <2>3
  <2> QED
    BY <2>2, <2>4
<1>5. Otf2TypeOK'
  <2>1. /\ otf2' \in {"definitions", "undefined"}
        /\ typeTree' \in Seq(TypeName) /\ paje' \in TraceOf(Text, {})
    BY <1>3
  <2>2. /\ kinds' = 2 /\ in_order' \in BOOLEAN
        /\ UNCHANGED <<strings, regions, groups, locations, strings_told, regions_told,
                       group_defs, location_defs, nf_types, nf_containers, last_timestamp, open,
                       otf2_events, arguments>>
    BY <1>1
  <2> QED
    BY <1>4, <2>1, <2>2 DEF Otf2Placed, Otf2TypeOK
<1>6. KindsInOrder' /\ OpenTold'
  <2>1. kinds \in 0..4
    BY DEF Otf2Placed, Otf2TypeOK
  <2> QED
    BY <1>1, <2>1 DEF Otf2Placed, KindsInOrder, OpenTold
<1>7. NodesPlaced' /\ GroupsPlaced'
  <2>1. nodes \in Seq(NodeDef) /\ containerTree \in Seq(Text) /\ Len(nodes) \in Nat
    BY DEF Otf2Placed, Otf2TypeOK
  <2>2. /\ Len(nodes') = Len(nodes) + 1 /\ nodes'[Len(nodes) + 1] = d
        /\ \A i \in 1..Len(nodes) : nodes'[i] = nodes[i]
        /\ \A i \in 1..(Len(nodes) + 1) : i \in 1..Len(nodes) \/ i = Len(nodes) + 1
    BY <1>1, <2>1
  <2>3. ASSUME otf2' # "undefined", ~arguments.flat
        PROVE  /\ Len(containerTree') = Len(nodes')
               /\ \A i \in 1..Len(nodes') : /\ nodes'[i].self = i - 1
                                            /\ containerTree'[i] = nodes'[i].name
                                            /\ nodes'[i].parent \in -1..(i - 2)
    <3>1. /\ Len(containerTree) = Len(nodes)
          /\ \A i \in 1..Len(nodes) : /\ nodes[i].self = i - 1
                                      /\ containerTree[i] = nodes[i].name
                                      /\ nodes[i].parent \in -1..(i - 2)
      BY <1>1, <2>3 DEF Otf2Placed, NodesPlaced
    <3>2. self = Len(nodes) /\ containerTree' = Append(containerTree, String(name))
      BY <1>3, <2>3
    <3>3. /\ Len(containerTree') = Len(nodes) + 1
          /\ containerTree'[Len(nodes) + 1] = String(name)
          /\ \A i \in 1..Len(nodes) : containerTree'[i] = containerTree[i]
      BY <1>2, <2>1, <3>1, <3>2
    <3>4. parent \in -1..(Len(nodes) - 1)
      BY <1>1, <2>1, <2>3
    <3> QED
      BY <1>2, <2>1, <2>2, <3>1, <3>2, <3>3, <3>4
  <2>4. NodesPlaced'
    BY <1>1, <2>3 DEF NodesPlaced
  <2>5. otf2' # "undefined" /\ ~arguments.flat =>
          \A i \in 1..Len(group_defs) : group_defs[i].parent \in 0..(Len(nodes') - 1)
    <3>1. ~arguments.flat =>
            \A i \in 1..Len(group_defs) : group_defs[i].parent \in 0..(Len(nodes) - 1)
      BY <1>1 DEF Otf2Placed, GroupsPlaced
    <3> QED
      BY <2>1, <2>2, <3>1
  <2>6. GroupsPlaced'
    BY <1>1, <2>5 DEF Otf2Placed, GroupsPlaced
  <2> QED
    BY <2>4, <2>6
<1> QED
  BY <1>3, <1>5, <1>6, <1>7 DEF Otf2Placed

\* The container of a process.
LEMMA ProcessMade ==
  ASSUME paje \in TraceOf(Text, {}), nf_types \subseteq NfTypes,
         nf_containers \subseteq ContainerTexts,
         NEW self \in 0..(MaxGroups - 1), NEW aboveType \in Kinds, NEW above \in Containers,
         MakeProcess(self, aboveType, above)
  PROVE  nf_types' \subseteq NfTypes /\ paje' \in TraceOf(Text, {}) /\ paje'.stack = paje.stack
<1> DEFINE done == DeclareType(Declared(paje), "P", aboveType)
           u == CreateContainer(done.trace, 0, Thread(self), "P", above)
<1>1. done \in DoneOf(paje.stack)
  <2> DEFINE start == Declared(paje)
  <2>1. start \in DoneOf(paje.stack) /\ "P" \in NfTypes
    BY DEF Declared, DoneOf, NfTypes
  <2> HIDE DEF start
  <2>2. DeclareType(start, "P", aboveType) \in DoneOf(paje.stack)
    BY <2>1, DeclareDone
  <2> QED
    BY <2>2 DEF start
<1>2. CASE arguments.dummy
  BY <1>2 DEF MakeProcess
<1>3. CASE ~arguments.dummy
  <2>1. nf_types' = done.types /\ paje' = u
    BY <1>3, Zenon DEF MakeProcess
  <2> HIDE DEF done
  <2>2. done.trace \in TraceOf(Text, {}) /\ done.trace.stack = paje.stack
        /\ done.types \subseteq NfTypes
    BY <1>1 DEF DoneOf
  <2>3. Creates(Text, {}, done.trace, u, 0, Thread(self), "P", above)
    <3>1. "P" \in Kinds /\ Thread(self) \in Containers
      BY NamedContainers DEF Kinds
    <3> QED
      BY <2>2, <3>1, CreateShape
  <2> HIDE DEF u
  <2> QED
    BY <2>1, <2>2, <2>3 DEF Creates
<1> QED
  BY <1>2, <1>3

\* What the definition of a location group does.
LEMMA GroupShape ==
  ASSUME Otf2Placed, NEW self \in 0..(MaxGroups - 1), NEW name \in NodeNames,
         NEW parent \in NodeRefs, DefLocationGroup(self, name, parent)
  PROVE  /\ otf2 = "definitions" /\ kinds <= 3 /\ kinds' = 3
         /\ strings_told = StringRefs
         /\ in_order' = (in_order /\ self = Len(group_defs)) /\ in_order' \in BOOLEAN
         /\ group_defs' = Append(group_defs, [self |-> self, parent |-> parent])
         /\ UNCHANGED <<strings, regions, typeTree, containerTree, locations, strings_told,
                        regions_told, nodes, location_defs, nf_containers, last_timestamp,
                        open, otf2_events, arguments>>
         /\ self \notin {group_defs[i].self : i \in DOMAIN group_defs}
         /\ ~arguments.flat => parent \in 0..(Len(nodes) - 1)
         /\ \/ /\ arguments.hostfile \/ arguments.flat
               /\ otf2' \in {otf2, "undefined"} /\ groups' = groups
               /\ nf_types' \subseteq NfTypes
               /\ paje' \in TraceOf(Text, {}) /\ paje'.stack = paje.stack
            \/ /\ ~arguments.hostfile /\ ~arguments.flat
               /\ otf2' = otf2 /\ groups' = Append(groups, parent)
               /\ UNCHANGED <<nf_types, paje>>
<1>1. /\ otf2 = "definitions" /\ kinds <= 3 /\ kinds' = 3 /\ strings_told = StringRefs
      /\ in_order' = (in_order /\ self = Len(group_defs)) /\ in_order' \in BOOLEAN
      /\ UNCHANGED <<last_timestamp, open, otf2_events, arguments>>
  <2> DEFINE next == self = Len(group_defs)
  <2>1. next \in BOOLEAN /\ OneOfKind(3, next)
    BY DEF DefLocationGroup
  <2>2. kinds \in 0..4
    BY DEF Otf2Placed, Otf2TypeOK
  <2> HIDE DEF next
  <2>3. /\ otf2 = "definitions" /\ kinds <= 3 /\ kinds' = 3 /\ strings_told = StringRefs
        /\ in_order' = (in_order /\ next) /\ in_order' \in BOOLEAN
        /\ UNCHANGED <<last_timestamp, open, otf2_events, arguments>>
    BY <2>1, <2>2, KindBegins
  <2> QED
    BY <2>3 DEF next
<1>2. /\ group_defs' = Append(group_defs, [self |-> self, parent |-> parent])
      /\ UNCHANGED <<strings, regions, typeTree, containerTree, locations, strings_told,
                     regions_told, nodes, location_defs, nf_containers>>
      /\ self \notin {group_defs[i].self : i \in DOMAIN group_defs}
      /\ parent \in {nodes[i].self : i \in DOMAIN nodes}
  BY Zenon DEF DefLocationGroup
<1>3. ~arguments.flat => parent \in 0..(Len(nodes) - 1)
  <2>1. ~arguments.flat => {nodes[i].self : i \in DOMAIN nodes} = 0..(Len(nodes) - 1)
    BY <1>1, NodesBelow
  <2> QED
    BY <1>2, <2>1, Zenon
<1>4. /\ paje \in TraceOf(Text, {}) /\ nf_types \subseteq NfTypes
      /\ nf_containers \subseteq ContainerTexts
  BY DEF Otf2Placed, Otf2TypeOK
<1> DEFINE Entered == /\ otf2' \in {otf2, "undefined"} /\ groups' = groups
                      /\ nf_types' \subseteq NfTypes
                      /\ paje' \in TraceOf(Text, {}) /\ paje'.stack = paje.stack
<1>5. CASE arguments.hostfile \/ arguments.flat
  <2>1. CASE name \notin strings
    <3>1. otf2' = "undefined" /\ UNCHANGED <<groups, nf_types, paje>>
      BY <1>5, <2>1, Zenon DEF DefLocationGroup
    <3>2. Entered
      BY <1>4, <3>1
    <3> QED
      BY <1>1, <1>2, <1>3, <1>5, <3>2
  <2>2. CASE name \in strings
    <3> DEFINE type == IF arguments.flat THEN "0" ELSE "H"
               above == IF arguments.flat THEN World
                        ELSE Named(ShortName[containerTree[parent + 1]])
    <3>1. MakeProcess(self, type, above) /\ UNCHANGED <<otf2, groups>>
      BY <1>5, <2>2, Zenon DEF DefLocationGroup
    <3>2. above \in Containers /\ type \in Kinds
      <4>1. ~arguments.flat => containerTree[parent + 1] \in Text
        BY <1>1, <1>3, NodesBelow
      <4>2. ~arguments.flat => Named(ShortName[containerTree[parent + 1]]) \in Containers
        BY <4>1, NamedContainers
      <4> QED
        BY <4>2, NamedContainers DEF Kinds
    <3> HIDE DEF type, above
    <3>3. nf_types' \subseteq NfTypes /\ paje' \in TraceOf(Text, {}) /\ paje'.stack = paje.stack
      BY <1>4, <3>1, <3>2, ProcessMade
    <3>4. Entered
      BY <3>1, <3>3
    <3> QED
      BY <1>1, <1>2, <1>3, <1>5, <3>4
  <2> QED
    BY <2>1, <2>2
<1>6. CASE ~(arguments.hostfile \/ arguments.flat)
  <2>1. groups' = Append(groups, parent) /\ UNCHANGED <<otf2, nf_types, paje>>
    BY <1>6, Zenon DEF DefLocationGroup
  <2> QED
    BY <1>1, <1>2, <1>3, <1>6, <2>1
<1> QED
  BY <1>5, <1>6

LEMMA GroupPlaced ==
  ASSUME Otf2Placed, NEW self \in 0..(MaxGroups - 1), NEW name \in NodeNames,
         NEW parent \in NodeRefs, DefLocationGroup(self, name, parent)
  PROVE  Otf2Placed' /\ paje'.stack = paje.stack
<1> DEFINE d == [self |-> self, parent |-> parent]
<1>1. /\ otf2 = "definitions" /\ kinds <= 3 /\ kinds' = 3
      /\ strings_told = StringRefs /\ in_order' \in BOOLEAN
      /\ group_defs' = Append(group_defs, d)
      /\ UNCHANGED <<strings, regions, typeTree, containerTree, locations, strings_told,
                     regions_told, nodes, location_defs, nf_containers, last_timestamp,
                     open, otf2_events, arguments>>
      /\ ~arguments.flat => parent \in 0..(Len(nodes) - 1)
  BY GroupShape
<1>2. d \in GroupDef /\ d.parent = parent
  BY DEF GroupDef
<1> HIDE DEF d
<1>3. \/ /\ arguments.hostfile \/ arguments.flat
         /\ groups' = groups
      \/ ~arguments.hostfile /\ ~arguments.flat /\ groups' = Append(groups, parent)
  BY GroupShape
<1>4. /\ otf2' \in {"definitions", "undefined"} /\ nf_types' \subseteq NfTypes
      /\ paje' \in TraceOf(Text, {}) /\ paje'.stack = paje.stack
  <2>1. paje \in TraceOf(Text, {}) /\ nf_types \subseteq NfTypes
    BY DEF Otf2Placed, Otf2TypeOK
  <2> QED
    BY <1>1, <2>1, GroupShape
<1>5. group_defs' \in Seq(GroupDef) /\ groups' \in Seq(NodeRefs)
  <2>1. groups \in Seq(NodeRefs) /\ group_defs \in Seq(GroupDef)
    BY DEF Otf2Placed, Otf2TypeOK
  <2> QED
    BY <1>1, <1>2, <1>3, <2>1
<1>6. Otf2TypeOK'
  BY <1>1, <1>4, <1>5 DEF Otf2Placed, Otf2TypeOK
<1>7. KindsInOrder' /\ OpenTold'
  <2>1. kinds \in 0..4
    BY DEF Otf2Placed, Otf2TypeOK
  <2> QED
    BY <1>1, <2>1 DEF Otf2Placed, KindsInOrder, OpenTold
<1>8. NodesPlaced'
  BY <1>1 DEF Otf2Placed, NodesPlaced
<1>9. GroupsPlaced'
  <2>1. /\ groups \in Seq(NodeRefs) /\ group_defs \in Seq(GroupDef)
        /\ Len(groups) \in Nat /\ Len(group_defs) \in Nat
    BY DEF Otf2Placed, Otf2TypeOK
  <2>2. /\ Len(group_defs') = Len(group_defs) + 1 /\ group_defs'[Len(group_defs) + 1] = d
        /\ \A i \in 1..Len(group_defs) : group_defs'[i] = group_defs[i]
        /\ \A i \in 1..(Len(group_defs) + 1) : i \in 1..Len(group_defs) \/ i = Len(group_defs) + 1
    BY <1>1, <2>1
  <2>3. ASSUME ~arguments.flat, ~arguments.hostfile
        PROVE  /\ Len(groups') = Len(group_defs')
               /\ \A i \in 1..Len(groups') : groups'[i] = group_defs'[i].parent
    <3>1. /\ Len(groups) = Len(group_defs)
          /\ \A i \in 1..Len(groups) : groups[i] = group_defs[i].parent
      BY <2>3 DEF Otf2Placed, GroupsPlaced
    <3>2. /\ Len(groups') = Len(groups) + 1 /\ groups'[Len(groups) + 1] = parent
          /\ \A i \in 1..Len(groups) : groups'[i] = groups[i]
      BY <1>3, <2>1, <2>3
    <3> QED
      BY <1>2, <2>1, <2>2, <3>1, <3>2
  <2>4. arguments.flat \/ arguments.hostfile => groups' = <<>>
    BY <1>3 DEF Otf2Placed, GroupsPlaced
  <2>5. ~arguments.flat =>
          \A i \in 1..Len(group_defs') : group_defs'[i].parent \in 0..(Len(nodes) - 1)
    <3>1. ~arguments.flat =>
            \A i \in 1..Len(group_defs) : group_defs[i].parent \in 0..(Len(nodes) - 1)
      BY <1>1 DEF Otf2Placed, GroupsPlaced
    <3> QED
      BY <1>1, <1>2, <2>1, <2>2, <3>1
  <2>6. Len(locations) = Len(location_defs)
        /\ \A i \in 1..Len(locations) : locations[i] = location_defs[i].self
    BY DEF Otf2Placed, GroupsPlaced
  <2> QED
    BY <1>1, <2>3, <2>4, <2>5, <2>6 DEF GroupsPlaced
<1> QED
  BY <1>4, <1>6, <1>7, <1>8, <1>9 DEF Otf2Placed

\* A location that the program goes on from: its type is entered, unless it is in the table,
\* and its container is created in a node, that of the group at its number.
NewThread(self, type, group, node, n, u) ==
  /\ otf2' = otf2 /\ ~arguments.flat /\ ~arguments.hostfile
  /\ group < Len(groups) /\ node = groups[group + 1] /\ node \in 0..(Len(nodes) - 1)
  /\ ~BadType(type, "thread", node)
  /\ typeTree' = IF Found("thread") THEN typeTree ELSE WithType(type, "thread")
  /\ typeTree' \in Seq(TypeName)
  /\ n \in TraceOf(Text, {})
  /\ n.types = IF Found("thread") THEN paje.types
               ELSE paje.types \cup {<<"thread", TypeOf(node)>>}
  /\ n.kind = paje.kind /\ n.parent = paje.parent /\ n.stack = paje.stack
  /\ n.latest = paje.latest /\ n.refused = paje.refused
  /\ Creates(Text, {}, n, u, 0, Thread(self), "thread", ContainerOf(node))
  /\ ContainerOf(node) \in Containers
  /\ paje' = IF arguments.dummy THEN paje ELSE u

LEMMA ThreadShape ==
  ASSUME Otf2Placed, otf2 = "definitions", NEW self \in LocationRefs,
         NEW type \in LocationTypes, NEW group \in 0..(MaxGroups - 1),
         ~(group >= Len(groups)), ~BadType(type, "thread", groups[group + 1]),
         otf2' = otf2,
         LET thread == NewType(type, "thread", groups[group + 1], paje)
         IN /\ typeTree' = thread.table
            /\ paje' = Printed(CreateContainer(thread.trace, 0, Thread(self), "thread",
                                               ContainerOf(groups[group + 1])))
  PROVE  \E n, u : NewThread(self, type, group, groups[group + 1], n, u)
<1> DEFINE node == groups[group + 1]
           thread == NewType(type, "thread", node, paje)
           n == thread.trace
           u == CreateContainer(n, 0, Thread(self), "thread", ContainerOf(node))
<1>1. typeTree' = thread.table /\ paje' = Printed(u)
  OBVIOUS
<1> HIDE DEF u
<1>2. Otf2TypeOK /\ GroupsPlaced /\ paje \in TraceOf(Text, {}) /\ groups \in Seq(NodeRefs)
      /\ Len(groups) \in Nat /\ Len(typeTree) \in Nat
  BY DEF Otf2Placed, Otf2TypeOK
<1>3. group < Len(groups) /\ group + 1 \in 1..Len(groups) /\ groups # <<>>
  BY <1>2
<1>4. ~arguments.flat /\ ~arguments.hostfile
  BY <1>2, <1>3 DEF GroupsPlaced
<1>5. node \in 0..(Len(nodes) - 1)
  BY <1>2, <1>3, <1>4 DEF GroupsPlaced
<1>6. node \in Nat \cup {-1} /\ ContainerOf(node) \in Containers
  BY <1>4, <1>5, NodesBelow
<1>7. type \in Nat
  BY Strings
<1> HIDE DEF node
<1>8. Found("thread") \/ type <= Len(typeTree)
  <2>1. ~BadType(type, "thread", node)
    BY DEF node
  <2> QED
    BY <1>2, <1>7, <2>1 DEF BadType
<1>9. /\ typeTree' = IF Found("thread") THEN typeTree ELSE WithType(type, "thread")
      /\ typeTree' \in Seq(TypeName)
      /\ n \in TraceOf(Text, {})
      /\ n.types = IF Found("thread") THEN paje.types
                   ELSE paje.types \cup {<<"thread", TypeOf(node)>>}
      /\ n.kind = paje.kind /\ n.parent = paje.parent /\ n.stack = paje.stack
      /\ n.latest = paje.latest /\ n.refused = paje.refused
  <2> DEFINE c == "thread"
  <2>1. c \in Text \cup {"thread"} /\ (Found(c) \/ type <= Len(typeTree))
    BY <1>8
  <2> HIDE DEF c
  <2>2. TypeEntered(NewType(type, c, node, paje), type, c, node, paje)
    BY <1>2, <1>6, <1>7, <2>1, NewTypeShape
  <2> QED
    BY <1>1, <2>2, Zenon DEF c, TypeEntered
<1> HIDE DEF n
<1>10. Creates(Text, {}, n, u, 0, Thread(self), "thread", ContainerOf(node))
  <2>1. "thread" \in Kinds /\ Thread(self) \in Containers
    BY NamedContainers DEF Kinds
  <2> QED
    BY <1>6, <1>9, <2>1, CreateShape DEF u
<1>11. paje' = IF arguments.dummy THEN paje ELSE u
  BY <1>1 DEF Printed
<1>12. ~BadType(type, "thread", node)
  BY DEF node
<1> HIDE DEF thread
<1>13. NewThread(self, type, group, node, n, u)
  BY <1>3, <1>4, <1>5, <1>6, <1>9, <1>10, <1>11, <1>12, Zenon DEF NewThread, node
<1> QED
  BY <1>13, Zenon DEF node

\* What the definition of a location does.
LEMMA LocationShape ==
  ASSUME Otf2Placed, NEW self \in LocationRefs, NEW type \in LocationTypes,
         NEW group \in 0..(MaxGroups - 1), DefLocation(self, type, group)
  PROVE  /\ otf2 = "definitions" /\ kinds' = 4 /\ strings_told = StringRefs
         /\ in_order' = in_order
         /\ location_defs' = Append(location_defs,
                                    [self |-> self, type |-> type, group |-> group])
         /\ locations' = Append(locations, self)
         /\ UNCHANGED <<strings, regions, containerTree, groups, strings_told, regions_told,
                        nodes, group_defs, nfVars, last_timestamp, open, otf2_events,
                        arguments>>
         /\ group \in {group_defs[i].self : i \in DOMAIN group_defs}
         /\ self \notin {location_defs[i].self : i \in DOMAIN location_defs}
         /\ \/ otf2' = "undefined" /\ UNCHANGED <<typeTree, paje>>
            \/ \E n, u : NewThread(self, type, group, groups[group + 1], n, u)
<1>1. /\ otf2 = "definitions" /\ kinds' = 4 /\ strings_told = StringRefs
      /\ in_order' = in_order
      /\ UNCHANGED <<last_timestamp, open, otf2_events, arguments>>
  <2> DEFINE next == TRUE
  <2>1. next \in BOOLEAN /\ OneOfKind(4, next)
    BY DEF DefLocation
  <2>2. in_order \in BOOLEAN
    BY DEF Otf2Placed, Otf2TypeOK
  <2> HIDE DEF next
  <2>3. /\ otf2 = "definitions" /\ kinds' = 4 /\ strings_told = StringRefs
        /\ in_order' = (in_order /\ next)
        /\ UNCHANGED <<last_timestamp, open, otf2_events, arguments>>
    BY <2>1, KindBegins
  <2> QED
    BY <2>2, <2>3 DEF next
<1>2. /\ location_defs' = Append(location_defs,
                                 [self |-> self, type |-> type, group |-> group])
      /\ locations' = Append(locations, self)
      /\ UNCHANGED <<strings, regions, containerTree, groups, strings_told, regions_told,
                     nodes, group_defs, nfVars>>
      /\ group \in {group_defs[i].self : i \in DOMAIN group_defs}
      /\ self \notin {location_defs[i].self : i \in DOMAIN location_defs}
  BY Zenon DEF DefLocation
<1>3. \/ otf2' = "undefined" /\ UNCHANGED <<typeTree, paje>>
      \/ \E n, u : NewThread(self, type, group, groups[group + 1], n, u)
  <2>1. CASE group >= Len(groups) \/ BadType(type, "thread", groups[group + 1])
    BY <2>1, Zenon DEF DefLocation
  <2>2. CASE ~(group >= Len(groups)) /\ ~BadType(type, "thread", groups[group + 1])
    <3>1. /\ otf2' = otf2
          /\ LET thread == NewType(type, "thread", groups[group + 1], paje)
             IN /\ typeTree' = thread.table
                /\ paje' = Printed(CreateContainer(thread.trace, 0, Thread(self), "thread",
                                                   ContainerOf(groups[group + 1])))
      BY <2>2, Zenon DEF DefLocation
    <3> QED
      BY <1>1, <2>2, <3>1, ThreadShape
  <2> QED
    BY <2>1, <2>2
<1> QED
  BY <1>1, <1>2, <1>3

LEMMA LocationPlaced ==
  ASSUME Otf2Placed, NEW self \in LocationRefs, NEW type \in LocationTypes,
         NEW group \in 0..(MaxGroups - 1), DefLocation(self, type, group)
  PROVE  Otf2Placed' /\ paje'.stack = paje.stack
<1> DEFINE d == [self |-> self, type |-> type, group |-> group]
<1>1. /\ otf2 = "definitions" /\ kinds' = 4 /\ strings_told = StringRefs
      /\ in_order' = in_order
      /\ location_defs' = Append(location_defs, d) /\ locations' = Append(locations, self)
      /\ UNCHANGED <<strings, regions, containerTree, groups, strings_told, regions_told,
                     nodes, group_defs, nf_types, nf_containers, last_timestamp, open,
                     otf2_events, arguments>>
  BY LocationShape DEF nfVars
<1>2. d \in LocationDef /\ d.self = self
  BY DEF LocationDef
<1> HIDE DEF d
<1>3. /\ otf2' \in {"definitions", "undefined"}
      /\ typeTree' \in Seq(TypeName) /\ paje' \in TraceOf(Text, {}) /\ paje'.stack = paje.stack
  <2>0. typeTree \in Seq(TypeName) /\ paje \in TraceOf(Text, {})
    BY DEF Otf2Placed, Otf2TypeOK
  <2>1. CASE otf2' = "undefined" /\ UNCHANGED <<typeTree, paje>>
    BY <2>0, <2>1
  <2>2. CASE \E n, u : NewThread(self, type, group, groups[group + 1], n, u)
    <3>1. PICK n, u : NewThread(self, type, group, groups[group + 1], n, u)
      BY <2>2
    <3>2. u \in TraceOf(Text, {}) /\ u.stack = paje.stack
      BY <3>1 DEF NewThread, Creates
    <3> QED
      BY <1>1, <2>0, <3>1, <3>2 DEF NewThread
  <2> QED
    BY <2>1, <2>2, LocationShape
<1>4. /\ location_defs' \in Seq(LocationDef) /\ locations' \in Seq(LocationRefs)
      /\ Len(locations') = Len(location_defs')
      /\ \A i \in 1..Len(locations') : locations'[i] = location_defs'[i].self
  <2>1. /\ location_defs \in Seq(LocationDef) /\ locations \in Seq(LocationRefs)
        /\ Len(locations) = Len(location_defs)
        /\ \A i \in 1..Len(locations) : locations[i] = location_defs[i].self
    BY DEF Otf2Placed, Otf2TypeOK, GroupsPlaced
  <2> QED
    BY <1>1, <1>2, <2>1
<1>5. Otf2TypeOK'
  BY <1>1, <1>3, <1>4 DEF Otf2Placed, Otf2TypeOK
<1>6. KindsInOrder' /\ OpenTold'
  <2>1. OneOfKind(4, TRUE)
    BY DEF DefLocation
  <2> QED
    BY <1>1, <2>1 DEF Otf2Placed, KindsInOrder, OpenTold
<1>7. NodesPlaced' /\ GroupsPlaced'
  BY <1>1, <1>4 DEF Otf2Placed, NodesPlaced, GroupsPlaced
<1> QED
  BY <1>3, <1>5, <1>6, <1>7 DEF Otf2Placed

\* An event of a region: it is of a location that was defined, and either the program goes
\* on with one line more, if the region is converted, or the name cannot be read.
EventLine(r, trace) ==
  /\ paje' = IF ~Converted(r) \/ arguments.no_states \/ arguments.dummy THEN paje ELSE trace
  /\ last_timestamp' = IF Converted(r) THEN otf2_events + 1 ELSE last_timestamp

LEMMA EventShape ==
  ASSUME Otf2Placed, NEW l \in LocationRefs, NEW r \in RegionRefs, RegionEvent(l),
         NEW trace, PrintedEvent(r, trace)
  PROVE  /\ otf2 = "events" /\ otf2_events' = otf2_events + 1 /\ otf2_events \in Nat
         /\ l \in {location_defs[i].self : i \in DOMAIN location_defs}
         /\ UNCHANGED <<tables, kinds, archive, in_order, nfVars, arguments>>
         /\ \/ otf2' = "undefined" /\ ~Readable(r) /\ UNCHANGED <<paje, last_timestamp>>
            \/ otf2' = otf2 /\ Readable(r) /\ EventLine(r, trace)
<1>1. /\ otf2 = "events" /\ otf2_events' = otf2_events + 1
      /\ l \in {location_defs[i].self : i \in DOMAIN location_defs}
      /\ UNCHANGED <<tables, kinds, archive, in_order, nfVars, arguments>>
  BY Zenon DEF RegionEvent
<1>2. otf2_events \in Nat
  BY DEF Otf2Placed, Otf2TypeOK
<1>3. CASE ~Readable(r)
  <2>1. otf2' = "undefined" /\ UNCHANGED <<paje, last_timestamp>>
    BY <1>3, Zenon DEF PrintedEvent
  <2> QED
    BY <1>1, <1>2, <1>3, <2>1
<1>4. CASE Readable(r)
  <2>1. /\ otf2' = otf2
        /\ IF Converted(r)
           THEN /\ paje' = IF arguments.no_states THEN paje ELSE Printed(trace)
                /\ last_timestamp' = otf2_events'
           ELSE UNCHANGED <<paje, last_timestamp>>
    BY <1>4, Zenon DEF PrintedEvent
  <2>2. EventLine(r, trace)
    <3>1. CASE Converted(r)
      BY <1>1, <2>1, <3>1 DEF EventLine, Printed
    <3>2. CASE ~Converted(r)
      BY <2>1, <3>2 DEF EventLine
    <3> QED
      BY <3>1, <3>2
  <2> QED
    BY <1>1, <1>2, <1>4, <2>1, <2>2
<1> QED
  BY <1>3, <1>4

LEMMA EventPlaced ==
  ASSUME Otf2Placed, otf2 = "events", otf2_events' = otf2_events + 1,
         UNCHANGED <<tables, kinds, archive, in_order, nfVars, arguments>>,
         otf2' \in {"events", "undefined"}, last_timestamp' \in Nat \cup {-1},
         paje' \in TraceOf(Text, {}), open' \in [LocationRefs -> Seq(RegionRefs)], OpenTold'
  PROVE  Otf2Placed'
<1> USE DEF tables, archive, nfVars
<1>1. Otf2TypeOK'
  BY DEF Otf2Placed, Otf2TypeOK
<1>2. KindsInOrder' /\ NodesPlaced' /\ GroupsPlaced'
  BY DEF Otf2Placed, KindsInOrder, NodesPlaced, GroupsPlaced
<1> QED
  BY <1>1, <1>2 DEF Otf2Placed

\* Entering and leaving a region.
Enters(l, r, u) ==
  /\ otf2 = "events" /\ l \in {location_defs[i].self : i \in DOMAIN location_defs}
  /\ otf2_events' = otf2_events + 1 /\ r \in regions_told
  /\ UNCHANGED <<tables, kinds, archive, in_order, nfVars, arguments>>
  /\ open' = [open EXCEPT ![l] = Append(open[l], r)]
  /\ Pushes(Text, {}, paje, u, otf2_events + 1, Thread(l), NameOf(r))
  /\ \/ otf2' = "undefined" /\ ~Readable(r) /\ UNCHANGED <<paje, last_timestamp>>
     \/ otf2' = otf2 /\ Readable(r) /\ EventLine(r, u)

Leaves(l, r, u) ==
  /\ otf2 = "events" /\ l \in {location_defs[i].self : i \in DOMAIN location_defs}
  /\ otf2_events' = otf2_events + 1
  /\ open[l] # <<>> /\ r = open[l][Len(open[l])] /\ r \in regions_told
  /\ UNCHANGED <<tables, kinds, archive, in_order, nfVars, arguments>>
  /\ open' = [open EXCEPT ![l] = SubSeq(open[l], 1, Len(open[l]) - 1)]
  /\ Pops(Text, {}, paje, u, otf2_events + 1, Thread(l))
  /\ \/ otf2' = "undefined" /\ ~Readable(r) /\ UNCHANGED <<paje, last_timestamp>>
     \/ otf2' = otf2 /\ Readable(r) /\ EventLine(r, u)

LEMMA EnterPlaced ==
  ASSUME Otf2Placed, NEW l \in LocationRefs, NEW r \in RegionRefs, EnterRegion(l, r)
  PROVE  Otf2Placed' /\ \E u : Enters(l, r, u)
<1> DEFINE u == PushState(paje, otf2_events + 1, Thread(l), NameOf(r))
<1>1. /\ RegionEvent(l) /\ r \in regions_told
      /\ open' = [open EXCEPT ![l] = Append(open[l], r)]
      /\ otf2_events' = otf2_events + 1
      /\ PrintedEvent(r, PushState(paje, otf2_events', Thread(l), NameOf(r)))
  BY DEF EnterRegion, RegionEvent
<1>2. PrintedEvent(r, u)
  BY <1>1, Zenon
<1> HIDE DEF u
<1>3. /\ otf2 = "events" /\ otf2_events' = otf2_events + 1 /\ otf2_events \in Nat
      /\ l \in {location_defs[i].self : i \in DOMAIN location_defs}
      /\ UNCHANGED <<tables, kinds, archive, in_order, nfVars, arguments>>
      /\ \/ otf2' = "undefined" /\ ~Readable(r) /\ UNCHANGED <<paje, last_timestamp>>
         \/ otf2' = otf2 /\ Readable(r) /\ EventLine(r, u)
  BY <1>1, <1>2, EventShape
<1>4. /\ paje \in TraceOf(Text, {}) /\ open \in [LocationRefs -> Seq(RegionRefs)]
      /\ last_timestamp \in Nat \cup {-1}
  BY DEF Otf2Placed, Otf2TypeOK
<1>5. Pushes(Text, {}, paje, u, otf2_events + 1, Thread(l), NameOf(r))
  BY <1>3, <1>4, NamedContainers, Strings, PushShape DEF u
<1>6. Enters(l, r, u)
  BY <1>1, <1>3, <1>5, Zenon DEF Enters
<1>7. paje' \in TraceOf(Text, {}) /\ last_timestamp' \in Nat \cup {-1}
      /\ otf2' \in {"events", "undefined"}
  <2>1. u \in TraceOf(Text, {})
    BY <1>5 DEF Pushes
  <2> QED
    BY <1>3, <1>4, <2>1 DEF EventLine
<1>8. open' \in [LocationRefs -> Seq(RegionRefs)]
  BY <1>1, <1>4
<1>9. OpenTold'
  <2>1. \A k \in LocationRefs : open[k] \in Seq(RegionRefs)
    BY <1>4
  <2>2. open'[l] = Append(open[l], r) /\ \A k \in LocationRefs : k # l => open'[k] = open[k]
    BY <1>1, <1>4
  <2>3. regions_told' = regions_told
    BY <1>3 DEF archive
  <2>4. \A i \in 1..Len(open'[l]) : open'[l][i] \in regions_told
    <3>1. \A i \in 1..Len(open[l]) : open[l][i] \in regions_told
      BY DEF Otf2Placed, OpenTold
    <3> QED
      BY <1>1, <2>1, <2>2, <3>1
  <2> QED
    BY <2>2, <2>3, <2>4 DEF Otf2Placed, OpenTold
<1>10. Otf2Placed'
  BY <1>3, <1>7, <1>8, <1>9, EventPlaced
<1> QED
  BY <1>6, <1>10

LEMMA LeavePlaced ==
  ASSUME Otf2Placed, NEW l \in LocationRefs, NEW r \in RegionRefs, LeaveRegion(l, r)
  PROVE  Otf2Placed' /\ \E u : Leaves(l, r, u)
<1> DEFINE u == PopState(paje, otf2_events + 1, Thread(l))
           rest == SubSeq(open[l], 1, Len(open[l]) - 1)
<1>1. /\ RegionEvent(l) /\ open[l] # <<>> /\ r = open[l][Len(open[l])]
      /\ open' = [open EXCEPT ![l] = rest]
      /\ otf2_events' = otf2_events + 1
      /\ PrintedEvent(r, PopState(paje, otf2_events', Thread(l)))
  BY DEF LeaveRegion, RegionEvent
<1>2. PrintedEvent(r, u)
  BY <1>1, Zenon
<1> HIDE DEF u
<1>3. /\ otf2 = "events" /\ otf2_events' = otf2_events + 1 /\ otf2_events \in Nat
      /\ l \in {location_defs[i].self : i \in DOMAIN location_defs}
      /\ UNCHANGED <<tables, kinds, archive, in_order, nfVars, arguments>>
      /\ \/ otf2' = "undefined" /\ ~Readable(r) /\ UNCHANGED <<paje, last_timestamp>>
         \/ otf2' = otf2 /\ Readable(r) /\ EventLine(r, u)
  BY <1>1, <1>2, EventShape
<1>4. /\ paje \in TraceOf(Text, {}) /\ open \in [LocationRefs -> Seq(RegionRefs)]
      /\ last_timestamp \in Nat \cup {-1} /\ open[l] \in Seq(RegionRefs)
      /\ \A i \in 1..Len(open[l]) : open[l][i] \in regions_told
  BY DEF Otf2Placed, Otf2TypeOK, OpenTold
<1>5. Pops(Text, {}, paje, u, otf2_events + 1, Thread(l))
  BY <1>3, <1>4, NamedContainers, PopShape DEF u
<1>6. /\ rest \in Seq(RegionRefs) /\ Len(open[l]) \in Nat \ {0} /\ Len(rest) = Len(open[l]) - 1
      /\ \A i \in 1..Len(rest) : rest[i] = open[l][i]
  BY <1>1, <1>4, LastOf
<1>7. r \in regions_told
  <2>1. Len(open[l]) \in 1..Len(open[l])
    BY <1>6
  <2> QED
    BY <1>1, <1>4, <2>1
<1>8. Leaves(l, r, u)
  BY <1>1, <1>3, <1>5, <1>7, Zenon DEF Leaves
<1> HIDE DEF rest
<1>9. paje' \in TraceOf(Text, {}) /\ last_timestamp' \in Nat \cup {-1}
      /\ otf2' \in {"events", "undefined"}
  <2>1. u \in TraceOf(Text, {})
    BY <1>5 DEF Pops
  <2> QED
    BY <1>3, <1>4, <2>1 DEF EventLine
<1>10. open' \in [LocationRefs -> Seq(RegionRefs)]
  BY <1>1, <1>4, <1>6
<1>11. OpenTold'
  <2>2. open'[l] = rest /\ \A k \in LocationRefs : k # l => open'[k] = open[k]
    BY <1>1, <1>4
  <2>3. regions_told' = regions_told
    BY <1>3 DEF archive
  <2>4. \A i \in 1..Len(rest) : rest[i] \in regions_told
    BY <1>4, <1>6
  <2> QED
    BY <2>2, <2>3, <2>4 DEF Otf2Placed, OpenTold
<1>12. Otf2Placed'
  BY <1>3, <1>9, <1>10, <1>11, EventPlaced
<1> QED
  BY <1>8, <1>12

\* The end of main destroys the containers of the locations, one after the other.
Closes(time, upTo) ==
  /\ time \in IF last_timestamp = -1 THEN AnyTime ELSE {last_timestamp}
  /\ upTo \in [0..Len(locations) -> TraceOf(Text, {})]
  /\ upTo[0] = paje
  /\ \A i \in 1..Len(locations) :
       Destroys(Text, {}, upTo[i - 1], upTo[i], time, Thread(locations[i]))
  /\ paje' = IF arguments.dummy THEN paje ELSE upTo[Len(locations)]

LEMMA CloseShape ==
  ASSUME Otf2Placed, Otf2Close
  PROVE  \E time, upTo : Closes(time, upTo)
<1> DEFINE n == Len(locations)
           T == TraceOf(Text, {})
           Rec(time, f) ==
             [i \in 0..n |-> IF i = 0 THEN paje
                             ELSE DestroyContainer(f[i - 1], time, Thread(locations[i]))]
           from(time) == CHOOSE f : f = Rec(time, f)
           Step(time) == [i \in 1..n |-> [t \in T |-> DestroyContainer(t, time, Thread(locations[i]))]]
<1>1. n \in Nat /\ locations \in Seq(LocationRefs) /\ paje \in T
  BY DEF Otf2Placed, Otf2TypeOK
<1>2. PICK time \in IF last_timestamp = -1 THEN AnyTime ELSE {last_timestamp} :
        paje' = Printed(from(time)[n])
  BY Zenon DEF Otf2Close
<1>3. time \in Int
  BY <1>2 DEF Otf2Placed, Otf2TypeOK, AnyTime
<1>4. \A i \in 1..n : Thread(locations[i]) \in Containers
  BY <1>1, NamedContainers
<1>5. ASSUME NEW i \in 1..n, NEW t \in T
      PROVE  /\ Destroys(Text, {}, t, DestroyContainer(t, time, Thread(locations[i])), time,
                         Thread(locations[i]))
             /\ DestroyContainer(t, time, Thread(locations[i])) \in T
  <2>1. Destroys(Text, {}, t, DestroyContainer(t, time, Thread(locations[i])), time,
                 Thread(locations[i]))
    <3> DEFINE c == Thread(locations[i])
    <3>1. c \in Containers
      BY <1>4
    <3> HIDE DEF c
    <3>2. Destroys(Text, {}, t, DestroyContainer(t, time, c), time, c)
      BY <1>3, <3>1, DestroyShape
    <3> QED
      BY <3>2 DEF c
  <2> QED
    BY <2>1 DEF Destroys
<1>6. StepsIn(Step(time), n, T)
  BY <1>5 DEF StepsIn
<1>7. PICK g : RunsUp(g, Step(time), n, paje, T)
  <2> DEFINE step == Step(time)
  <2>1. StepsIn(step, n, T)
    BY <1>6
  <2> HIDE DEF Step, step, T, n
  <2>2. \E g : RunsUp(g, step, n, paje, T)
    BY <1>1, <2>1, Recursion
  <2> QED
    BY <2>2 DEF step
<1>8. g = Rec(time, g)
  <2>1. g \in [0..n -> T] /\ g[0] = paje /\ \A i \in 1..n : g[i] = Step(time)[i][g[i - 1]]
    BY <1>7, Zenon DEF RunsUp
  <2>2. \A i \in 0..n : g[i] = Rec(time, g)[i]
    <3> TAKE i \in 0..n
    <3>1. CASE i = 0
      BY <1>1, <2>1, <3>1
    <3>2. CASE i # 0
      <4>1. i \in 1..n /\ i - 1 \in 0..n
        BY <1>1, <3>2
      <4>2. g[i - 1] \in T
        BY <2>1, <4>1
      <4>3. g[i] = DestroyContainer(g[i - 1], time, Thread(locations[i]))
        BY <2>1, <4>1, <4>2
      <4> QED
        BY <3>2, <4>3
    <3> QED
      BY <3>1, <3>2
  <2> HIDE DEF Step, T
  <2> QED
    BY <2>1, <2>2
<1> DEFINE upTo == from(time)
<1>9. upTo = Rec(time, upTo)
  <2> HIDE DEF Rec
  <2> QED
    BY <1>8
<1> HIDE DEF from, upTo, Step
<1>10. /\ upTo[0] = paje
       /\ \A i \in 1..n : upTo[i] = DestroyContainer(upTo[i - 1], time, Thread(locations[i]))
       /\ DOMAIN upTo = 0..n /\ upTo = [i \in 0..n |-> upTo[i]]
  <2> DEFINE F == Rec(time, upTo)
  <2>1. /\ DOMAIN F = 0..n /\ F = [i \in 0..n |-> F[i]]
        /\ F[0] = paje
        /\ \A i \in 1..n : F[i] = DestroyContainer(upTo[i - 1], time, Thread(locations[i]))
    BY <1>1
  <2>2. upTo = F
    BY <1>9
  <2> HIDE DEF F
  <2> QED
    BY <2>1, <2>2
<1> HIDE DEF Rec, T, n
<1>11. \A i \in 0..n : upTo[i] \in T
  <2> DEFINE Good == {i \in 0..n : upTo[i] \in T}
  <2>1. 0 \in Good
    BY <1>1, <1>10
  <2>2. \A i \in 1..n : i - 1 \in Good => i \in Good
    <3> TAKE i \in 1..n
    <3>1. i \in 0..n
      BY <1>1
    <3> QED
      BY <1>5, <1>10, <3>1
  <2>3. \A i \in 0..n : i \in Good
    <3> HIDE DEF Good
    <3> QED
      BY <1>1, <2>1, <2>2, Climb
  <2> QED
    BY <2>3
<1>12. upTo \in [0..n -> T]
  BY <1>10, <1>11
<1>13. \A i \in 1..n : Destroys(Text, {}, upTo[i - 1], upTo[i], time, Thread(locations[i]))
  <2> TAKE i \in 1..n
  <2>1. i - 1 \in 0..n
    BY <1>1
  <2>2. upTo[i - 1] \in T
    BY <1>11, <2>1
  <2> QED
    BY <1>5, <1>10, <2>2
<1>14. paje' = IF arguments.dummy THEN paje ELSE upTo[n]
  BY <1>2 DEF Printed, upTo
<1>15. Closes(time, upTo)
  BY <1>2, <1>10, <1>12, <1>13, <1>14 DEF Closes, n, T
<1> QED
  BY <1>15

LEMMA ClosePlaced ==
  ASSUME Otf2Placed, Otf2Close
  PROVE  Otf2Placed' /\ paje'.stack = paje.stack
<1>1. PICK time, upTo : Closes(time, upTo)
  BY CloseShape
<1> DEFINE n == Len(locations)
<1>2. n \in Nat /\ paje \in TraceOf(Text, {}) /\ nf_types \subseteq NfTypes
      /\ nf_containers \subseteq ContainerTexts
  BY DEF Otf2Placed, Otf2TypeOK
<1>3. \A i \in 0..n : upTo[i] \in TraceOf(Text, {}) /\ upTo[i].stack = paje.stack
  <2> DEFINE Good == {i \in 0..n : upTo[i].stack = paje.stack}
  <2>1. 0 \in Good
    BY <1>1, <1>2 DEF Closes
  <2>2. \A i \in 1..n : i - 1 \in Good => i \in Good
    <3> TAKE i \in 1..n
    <3>1. Destroys(Text, {}, upTo[i - 1], upTo[i], time, Thread(locations[i]))
      BY <1>1 DEF Closes
    <3>2. upTo[i].stack = upTo[i - 1].stack
      BY <3>1 DEF Destroys
    <3>3. i \in 0..n
      BY <1>2
    <3> QED
      BY <3>2, <3>3
  <2>3. \A i \in 0..n : i \in Good
    <3> HIDE DEF Good, n
    <3> QED
      BY <1>2, <2>1, <2>2, Climb
  <2> QED
    BY <1>1, <2>3 DEF Closes
<1>4. n \in 0..n
  BY <1>2
<1>5. paje' \in TraceOf(Text, {}) /\ paje'.stack = paje.stack
  BY <1>1, <1>2, <1>3, <1>4 DEF Closes
<1>6. /\ UNCHANGED AllBut /\ UNCHANGED <<nf_types, nf_containers>>
      /\ otf2 # "undefined" /\ otf2' = "closed"
  BY DEF Otf2Close, AllBut, tables, archive, nfVars
<1>7. Otf2Placed'
  BY <1>2, <1>5, <1>6, NothingNew
<1> QED
  BY <1>5, <1>7

\* All steps.
LEMMA Otf2Steps ==
  ASSUME Otf2Placed, Otf2Next
  PROVE  \/ paje'.stack = paje.stack /\ open' = open
         \/ \E l \in LocationRefs, r \in RegionRefs : \E u : Enters(l, r, u) \/ Leaves(l, r, u)
<1>1. CASE ChooseHierarchy \/ HostfileEnds \/ DefinitionsEnd
  BY <1>1, ModesPlaced DEF ChooseHierarchy, HostfileEnds, DefinitionsEnd, unread
<1>2. CASE ReadHostLine
  BY <1>2, HostLinePlaced DEF ReadHostLine, unread
<1>3. CASE \E s \in StringRefs : DefString(s)
  BY <1>3, StringPlaced DEF DefString, OneOfKind, unread
<1>4. CASE \E r \in RegionRefs : DefRegion(r)
  BY <1>4, RegionPlaced DEF DefRegion, OneOfKind, unread
<1>5. CASE \E self \in NodeRefs, name \in NodeNames, class \in ClassNames,
             p \in {-1} \cup NodeRefs : DefSystemTreeNode(self, name, class, p)
  <2>1. PICK self \in NodeRefs, name \in NodeNames, class \in ClassNames,
             p \in {-1} \cup NodeRefs : DefSystemTreeNode(self, name, class, p)
    BY <1>5
  <2>2. paje'.stack = paje.stack
    BY <2>1, NodePlaced
  <2>3. open' = open
    BY <2>1 DEF DefSystemTreeNode, OneOfKind, unread
  <2> QED
    BY <2>2, <2>3
<1>6. CASE \E self \in 0..(MaxGroups - 1), name \in NodeNames, p \in NodeRefs :
             DefLocationGroup(self, name, p)
  <2>1. PICK self \in 0..(MaxGroups - 1), name \in NodeNames, p \in NodeRefs :
             DefLocationGroup(self, name, p)
    BY <1>6
  <2>2. paje'.stack = paje.stack
    BY <2>1, GroupPlaced
  <2>3. open' = open
    BY <2>1 DEF DefLocationGroup, OneOfKind, unread
  <2> QED
    BY <2>2, <2>3
<1>7. CASE \E self \in LocationRefs, type \in LocationTypes, g \in 0..(MaxGroups - 1) :
             DefLocation(self, type, g)
  <2>1. PICK self \in LocationRefs, type \in LocationTypes, g \in 0..(MaxGroups - 1) :
             DefLocation(self, type, g)
    BY <1>7
  <2>2. paje'.stack = paje.stack
    BY <2>1, LocationPlaced
  <2>3. open' = open
    BY <2>1 DEF DefLocation, OneOfKind, unread
  <2> QED
    BY <2>2, <2>3
<1>8. CASE \E l \in LocationRefs, r \in RegionRefs : EnterRegion(l, r) \/ LeaveRegion(l, r)
  BY <1>8, EnterPlaced, LeavePlaced
<1>9. CASE Otf2Close
  BY <1>9, ClosePlaced DEF Otf2Close
<1> QED
  BY <1>1, <1>2, <1>3, <1>4, <1>5, <1>6, <1>7, <1>8, <1>9 DEF Otf2Next

LEMMA Otf2PlacedKeeps ==
  ASSUME Otf2Placed, Otf2Next \/ UNCHANGED otf2Vars
  PROVE  Otf2Placed'
<1>1. CASE ChooseHierarchy \/ HostfileEnds \/ DefinitionsEnd
  BY <1>1, ModesPlaced
<1>2. CASE ReadHostLine
  BY <1>2, HostLinePlaced
<1>3. CASE \E s \in StringRefs : DefString(s)
  BY <1>3, StringPlaced
<1>4. CASE \E r \in RegionRefs : DefRegion(r)
  BY <1>4, RegionPlaced
<1>5. CASE \E self \in NodeRefs, name \in NodeNames, class \in ClassNames,
             p \in {-1} \cup NodeRefs : DefSystemTreeNode(self, name, class, p)
  BY <1>5, NodePlaced
<1>6. CASE \E self \in 0..(MaxGroups - 1), name \in NodeNames, p \in NodeRefs :
             DefLocationGroup(self, name, p)
  BY <1>6, GroupPlaced
<1>7. CASE \E self \in LocationRefs, type \in LocationTypes, g \in 0..(MaxGroups - 1) :
             DefLocation(self, type, g)
  BY <1>7, LocationPlaced
<1>8. CASE \E l \in LocationRefs, r \in RegionRefs : EnterRegion(l, r) \/ LeaveRegion(l, r)
  BY <1>8, EnterPlaced, LeavePlaced
<1>9. CASE Otf2Close
  BY <1>9, ClosePlaced
<1>10. CASE UNCHANGED otf2Vars
  <2> USE <1>10 DEF otf2Vars, tables, archive, nfVars
  <2>1. Otf2TypeOK' /\ KindsInOrder' /\ OpenTold'
    BY DEF Otf2Placed, Otf2TypeOK, KindsInOrder, OpenTold
  <2>2. NodesPlaced' /\ GroupsPlaced'
    BY DEF Otf2Placed, NodesPlaced, GroupsPlaced
  <2> QED
    BY <2>1, <2>2 DEF Otf2Placed
<1> QED
  BY <1>1, <1>2, <1>3, <1>4, <1>5, <1>6, <1>7, <1>8, <1>9, <1>10 DEF Otf2Next

-----------------------------------------------------------------------------
(***************************************************************************)
(* The stacks of the locations.                                            *)
(***************************************************************************)
\* The names of the regions a location is in, and those that are converted.
NamesIn(l) == [i \in DOMAIN open[l] |-> NameOf(open[l][i])]
ConvertedNames == {NameOf(r) : r \in {r \in RegionRefs : Converted(r)}}

LEMMA ConvertedByName ==
  ASSUME NEW r \in RegionRefs
  PROVE  NameOf(r) \in ConvertedNames <=> Converted(r)
<1>1. ASSUME NEW q \in RegionRefs, Converted(q), NameOf(r) = NameOf(q) PROVE Converted(r)
  BY <1>1 DEF Converted
<1> HIDE DEF Converted
<1> QED
  BY <1>1 DEF ConvertedNames

\* Names of regions, one more and one less.
LEMMA NamesAppended ==
  ASSUME NEW s \in Seq(RegionRefs), NEW r \in RegionRefs
  PROVE  /\ [i \in DOMAIN s |-> NameOf(s[i])] \in Seq(Text)
         /\ [i \in DOMAIN Append(s, r) |-> NameOf(Append(s, r)[i])]
              = Append([i \in DOMAIN s |-> NameOf(s[i])], NameOf(r))
<1> DEFINE n == [i \in 1..Len(s) |-> NameOf(s[i])]
           t == Append(s, r)
           m == [i \in 1..Len(t) |-> NameOf(t[i])]
<1>1. Len(s) \in Nat /\ DOMAIN s = 1..Len(s) /\ \A i \in 1..Len(s) : s[i] \in RegionRefs
  OBVIOUS
<1>2. /\ t \in Seq(RegionRefs) /\ Len(t) = Len(s) + 1 /\ t[Len(s) + 1] = r
      /\ \A i \in 1..Len(s) : t[i] = s[i]
      /\ DOMAIN t = 1..Len(t)
  BY <1>1
<1>3. n \in Seq(Text) /\ Len(n) = Len(s)
  <2>1. \A i \in 1..Len(s) : NameOf(s[i]) \in Text
    BY <1>1, Strings
  <2>2. n \in [1..Len(s) -> Text]
    BY <2>1
  <2> QED
    BY <1>1, <2>2
<1>4. m = Append(n, NameOf(r))
  <2> DEFINE x == NameOf(r)
             k == Len(s)
  <2>1. k \in Nat /\ x \in Text /\ m[k + 1] = x /\ \A i \in 1..k : m[i] = n[i]
    BY <1>1, <1>2, Strings
  <2>2. m \in Seq(Text) /\ Len(m) = k + 1
    <3>1. \A i \in 1..Len(t) : NameOf(t[i]) \in Text
      BY <1>2, Strings
    <3>2. m \in [1..(k + 1) -> Text]
      BY <1>2, <3>1
    <3> QED
      BY <2>1, <3>2
  <2> HIDE DEF m, n, x, k
  <2>3. Len(n) = k
    BY <1>3 DEF k
  <2>4. m = Append(n, x)
    BY <1>3, <2>1, <2>2, <2>3
  <2> QED
    BY <2>4 DEF x
<1> QED
  BY <1>1, <1>2, <1>3, <1>4

Otf2Mirrored ==
  ~arguments.dummy /\ ~arguments.no_states /\ otf2 # "undefined" =>
    \A l \in LocationRefs : Mirrors(paje.stack[Thread(l)], NamesIn(l), ConvertedNames)

LEMMA EnterMirrored ==
  ASSUME Otf2Placed, Otf2Mirrored, NEW l \in LocationRefs, NEW r \in RegionRefs, NEW u,
         Enters(l, r, u), ~arguments.dummy, ~arguments.no_states, otf2' # "undefined",
         NEW k \in LocationRefs
  PROVE  Mirrors(paje'.stack[Thread(k)], NamesIn(k)', ConvertedNames')
<1>1. /\ otf2' = otf2 /\ otf2 # "undefined" /\ UNCHANGED arguments
      /\ paje' = IF Converted(r) THEN u ELSE paje
      /\ open' = [open EXCEPT ![l] = Append(open[l], r)]
      /\ u.stack = [paje.stack EXCEPT ![Thread(l)] = Append(@, NameOf(r))]
  BY DEF Enters, EventLine, Pushes
<1>2. ConvertedNames' = ConvertedNames
  BY <1>1 DEF ConvertedNames, Converted
<1>3. /\ open[l] \in Seq(RegionRefs) /\ open \in [LocationRefs -> Seq(RegionRefs)]
      /\ paje.stack \in [Containers -> Seq(Text)]
  BY DEF Otf2Placed, Otf2TypeOK, TraceOf
<1>4. /\ Thread(l) \in Containers /\ Thread(k) \in Containers
      /\ (k # l => Thread(k) # Thread(l)) /\ NameOf(r) \in Text
  BY NamedContainers, Strings
<1>5. Mirrors(paje.stack[Thread(k)], NamesIn(k), ConvertedNames)
  BY <1>1 DEF Otf2Mirrored
<1>6. CASE k # l
  <2>1. NamesIn(k)' = NamesIn(k)
    BY <1>1, <1>3, <1>6 DEF NamesIn
  <2>2. paje'.stack[Thread(k)] = paje.stack[Thread(k)]
    BY <1>1, <1>3, <1>4, <1>6
  <2> QED
    BY <1>2, <1>5, <2>1, <2>2
<1>7. CASE k = l
  <2> DEFINE N == NamesIn(l)
             x == NameOf(r)
             st == paje.stack[Thread(l)]
  <2>1. N \in Seq(Text) /\ NamesIn(l)' = Append(N, x)
    <3>1. open'[l] = Append(open[l], r)
      BY <1>1, <1>3
    <3>2. NamesIn(l)' = [i \in DOMAIN Append(open[l], r) |-> NameOf(Append(open[l], r)[i])]
      BY <3>1 DEF NamesIn
    <3> QED
      BY <1>3, <3>2, NamesAppended DEF NamesIn
  <2>2. st \in Seq(Text) /\ x \in Text /\ Mirrors(st, N, ConvertedNames)
    BY <1>3, <1>4, <1>5, <1>7
  <2>3. CASE Converted(r)
    <3>1. paje'.stack[Thread(l)] = Append(st, x)
      BY <1>1, <1>3, <1>4, <2>3
    <3>2. x \in ConvertedNames
      BY <2>3, ConvertedByName
    <3> HIDE DEF N, x, st
    <3>3. Mirrors(Append(st, x), Append(N, x), ConvertedNames)
      BY <2>1, <2>2, <3>2, MirrorsPushed
    <3> QED
      BY <1>2, <1>7, <2>1, <3>1, <3>3
  <2>4. CASE ~Converted(r)
    <3>1. paje'.stack[Thread(l)] = st
      BY <1>1, <2>4
    <3>2. x \notin ConvertedNames
      BY <2>4, ConvertedByName
    <3> HIDE DEF N, x, st
    <3>3. Mirrors(st, Append(N, x), ConvertedNames)
      BY <2>1, <2>2, <3>2, MirrorsUnnamed
    <3> QED
      BY <1>2, <1>7, <2>1, <3>1, <3>3
  <2> QED
    BY <2>3, <2>4
<1> QED
  BY <1>6, <1>7

LEMMA LeaveMirrored ==
  ASSUME Otf2Placed, Otf2Mirrored, NEW l \in LocationRefs, NEW r \in RegionRefs, NEW u,
         Leaves(l, r, u), ~arguments.dummy, ~arguments.no_states, otf2' # "undefined",
         NEW k \in LocationRefs
  PROVE  Mirrors(paje'.stack[Thread(k)], NamesIn(k)', ConvertedNames')
<1> DEFINE rest == SubSeq(open[l], 1, Len(open[l]) - 1)
           st == paje.stack[Thread(l)]
           low == SubSeq(st, 1, Len(st) - 1)
<1>1. /\ otf2' = otf2 /\ otf2 # "undefined" /\ UNCHANGED arguments
      /\ paje' = IF Converted(r) THEN u ELSE paje
      /\ open' = [open EXCEPT ![l] = rest]
      /\ u.stack = [paje.stack EXCEPT ![Thread(l)] = SubSeq(@, 1, Len(@) - 1)]
      /\ open[l] # <<>> /\ r = open[l][Len(open[l])]
  BY DEF Leaves, EventLine, Pops
<1>2. ConvertedNames' = ConvertedNames
  BY <1>1 DEF ConvertedNames, Converted
<1>3. /\ open[l] \in Seq(RegionRefs) /\ open \in [LocationRefs -> Seq(RegionRefs)]
      /\ paje.stack \in [Containers -> Seq(Text)]
  BY DEF Otf2Placed, Otf2TypeOK, TraceOf
<1>4. /\ Thread(l) \in Containers /\ Thread(k) \in Containers
      /\ (k # l => Thread(k) # Thread(l)) /\ NameOf(r) \in Text
  BY NamedContainers, Strings
<1>5. Mirrors(paje.stack[Thread(k)], NamesIn(k), ConvertedNames)
  BY <1>1 DEF Otf2Mirrored
<1>6. CASE k # l
  <2>1. NamesIn(k)' = NamesIn(k)
    BY <1>1, <1>3, <1>6 DEF NamesIn
  <2>2. paje'.stack[Thread(k)] = paje.stack[Thread(k)]
    BY <1>1, <1>3, <1>4, <1>6
  <2> QED
    BY <1>2, <1>5, <2>1, <2>2
<1>7. CASE k = l
  <2> DEFINE N == [i \in DOMAIN rest |-> NameOf(rest[i])]
             x == NameOf(r)
  <2>1. rest \in Seq(RegionRefs) /\ open[l] = Append(rest, r)
    BY <1>1, <1>3, LastOf
  <2>2. N \in Seq(Text) /\ NamesIn(l) = Append(N, x)
    <3> HIDE DEF rest
    <3> QED
      BY <2>1, NamesAppended DEF NamesIn
  <2>3. NamesIn(l)' = N
    <3>1. open'[l] = rest
      BY <1>1, <1>3
    <3> HIDE DEF rest
    <3> QED
      BY <3>1 DEF NamesIn
  <2>4. st \in Seq(Text) /\ x \in Text /\ Mirrors(st, Append(N, x), ConvertedNames)
    BY <1>3, <1>4, <1>5, <1>7, <2>2
  <2>5. CASE Converted(r)
    <3>1. paje'.stack[Thread(l)] = low
      BY <1>1, <1>3, <1>4, <2>5
    <3>2. x \in ConvertedNames
      BY <2>5, ConvertedByName
    <3> HIDE DEF N, x, st
    <3>3. Mirrors(SubSeq(st, 1, Len(st) - 1), N, ConvertedNames)
      BY <2>2, <2>4, <3>2, MirrorsPopped
    <3> QED
      BY <1>2, <1>7, <2>3, <3>1, <3>3
  <2>6. CASE ~Converted(r)
    <3>1. paje'.stack[Thread(l)] = st
      BY <1>1, <2>6
    <3>2. x \notin ConvertedNames
      BY <2>6, ConvertedByName
    <3> HIDE DEF N, x, st
    <3>3. Mirrors(st, N, ConvertedNames)
      BY <2>2, <2>4, <3>2, MirrorsUnnamed
    <3> QED
      BY <1>2, <1>7, <2>3, <3>1, <3>3
  <2> QED
    BY <2>5, <2>6
<1> QED
  BY <1>6, <1>7

LEMMA MirroredKeeps ==
  ASSUME Otf2Placed, Otf2Mirrored, Otf2Next \/ UNCHANGED otf2Vars
  PROVE  Otf2Mirrored'
<1> SUFFICES ASSUME ~arguments'.dummy, ~arguments'.no_states, otf2' # "undefined",
                    NEW k \in LocationRefs
             PROVE  Mirrors(paje'.stack[Thread(k)], NamesIn(k)', ConvertedNames')
  BY DEF Otf2Mirrored
<1>1. arguments' = arguments /\ otf2 # "undefined"
  BY DEF Otf2Next, otf2Vars, ChooseHierarchy, HostfileEnds, DefinitionsEnd, ReadHostLine,
         DefString, DefRegion, DefSystemTreeNode, DefLocationGroup, DefLocation, OneOfKind,
         EnterRegion, LeaveRegion, RegionEvent, Otf2Close, unread
<1>2. CASE paje'.stack = paje.stack /\ open' = open
  <2>1. ConvertedNames' = ConvertedNames /\ NamesIn(k)' = NamesIn(k)
    BY <1>1, <1>2 DEF ConvertedNames, Converted, NamesIn
  <2>2. Mirrors(paje.stack[Thread(k)], NamesIn(k), ConvertedNames)
    BY <1>1 DEF Otf2Mirrored
  <2> QED
    BY <1>2, <2>1, <2>2
<1>3. CASE \E l \in LocationRefs, r \in RegionRefs : \E u : Enters(l, r, u) \/ Leaves(l, r, u)
  BY <1>1, <1>3, EnterMirrored, LeaveMirrored
<1>4. CASE UNCHANGED otf2Vars
  BY <1>2, <1>4 DEF otf2Vars
<1> QED
  BY <1>2, <1>3, <1>4, Otf2Steps

LEMMA MirroredInit ==
  ASSUME Otf2Init, arguments \in CommandLines, RunBy("otf22paje")
  PROVE  Otf2Mirrored
<1>1. Otf2Placed /\ paje = NewTrace
  BY PlacedInit
<1>2. ASSUME NEW l \in LocationRefs
      PROVE  Mirrors(paje.stack[Thread(l)], NamesIn(l), ConvertedNames)
  <2>1. paje.stack[Thread(l)] = <<>>
    BY <1>1, NamedContainers DEF NewTrace
  <2>2. NamesIn(l) = <<>>
    BY DEF Otf2Init, Otf2Start, NamesIn
  <2>3. Mirrors(<<>>, <<>>, ConvertedNames)
    BY FS_EmptySet DEF Mirrors
  <2> QED
    BY <2>1, <2>2, <2>3
<1> QED
  BY <1>2 DEF Otf2Mirrored

\* The tables hold what was defined, and the states on a location are the converted regions
\* that it is in.
THEOREM Otf2StatesAreMirrored ==
  Otf2Spec /\ arguments \in CommandLines /\ RunBy("otf22paje") => []Otf2StatesMirrored
<1>1. Otf2Init /\ arguments \in CommandLines /\ RunBy("otf22paje") => Otf2Placed /\ Otf2Mirrored
  BY PlacedInit, MirroredInit
<1>2. Otf2Placed /\ Otf2Mirrored /\ [Otf2Next]_otf2Vars => (Otf2Placed /\ Otf2Mirrored)'
  BY Otf2PlacedKeeps, MirroredKeeps
<1>3. Otf2Mirrored => Otf2StatesMirrored
  BY DEF Otf2Mirrored, Otf2StatesMirrored, NamesIn, ConvertedNames
<1> QED
  BY <1>1, <1>2, <1>3, PTL DEF Otf2Spec

-----------------------------------------------------------------------------
(***************************************************************************)
(* What else holds while the definitions come in the order of their        *)
(* references, for a tree and for the times of the lines.                  *)
(***************************************************************************)
\* While references come in ascending order nothing is cut from the tables, and groups have
\* the numbers of their places.
StringsInOrder ==
  in_order => \E k \in Nat : strings_told = 0..(k - 1) /\ strings = strings_told
RegionsInOrder ==
  in_order => \E k \in Nat : regions_told = 0..(k - 1) /\ regions = regions_told
GroupsInOrder == in_order => \A i \in 1..Len(group_defs) : group_defs[i].self = i - 1

\* A location is of a group that was defined, and has its own reference.
LocationsApart ==
  /\ \A i \in 1..Len(location_defs) : \E g \in 1..Len(group_defs) :
       group_defs[g].self = location_defs[i].group
  /\ \A i, j \in 1..Len(location_defs) :
       location_defs[i].self = location_defs[j].self => i = j

\* Until there are locations, the table of types holds the classes, each at its first node.
ClassesEntered ==
  /\ Len(typeTree) <= Len(nodes)
  /\ \A i \in 1..Len(typeTree) : typeTree[i] = nodes[i].class
  /\ \A i, j \in 1..Len(typeTree) : typeTree[i] = typeTree[j] => i = j
  /\ \A i \in 1..Len(nodes) : \E j \in 1..Len(typeTree) : typeTree[j] = nodes[i].class
TypesEntered ==
  TreeMode /\ otf2 # "undefined" =>
    /\ location_defs = <<>> => ClassesEntered
    /\ location_defs # <<>> => Found("thread")

\* No line is later than the last event converted, and the hostfile is read when asked for.
Timely ==
  /\ last_timestamp <= otf2_events
  /\ TreeMode /\ otf2 # "closed" =>
       \A c \in Containers : paje.latest[c] = 0 \/ paje.latest[c] <= last_timestamp
HostfileAsked == otf2 = "hostfile" => arguments.hostfile

Otf2Ordered ==
  /\ StringsInOrder /\ RegionsInOrder /\ GroupsInOrder /\ LocationsApart
  /\ TypesEntered /\ Timely /\ HostfileAsked

\* The type of what a node is in, and the node of a location by the table of groups.
ClassAbove(i) == IF nodes[i].parent = -1 THEN "0" ELSE nodes[nodes[i].parent + 1].class
NodeBelow(i) == nodes[groups[location_defs[i].group + 1] + 1]

\* The container of that node, and archives whose tree a Paje trace can tell.
Above(i) == IF nodes[i].parent = -1 THEN World ELSE Named(nodes[nodes[i].parent + 1].name)
PlainTree ==
  /\ \A i \in 1..Len(nodes) :
       /\ Named(nodes[i].name) \notin {World} \cup {Thread(l) : l \in LocationRefs}
       /\ nodes[i].class # "thread"
  /\ \A i, j \in 1..Len(nodes) : i # j =>
       /\ nodes[i].name # nodes[j].name
       /\ nodes[i].class = nodes[j].class => ClassAbove(i) = ClassAbove(j)
  /\ \A i, j \in 1..Len(location_defs) : NodeBelow(i).class = NodeBelow(j).class
Plain == TreeMode /\ ~arguments.dummy /\ in_order /\ otf2 # "undefined" /\ PlainTree

\* The containers of the tree.
NodesThere ==
  \A i \in 1..Len(nodes) :
    /\ paje.kind[Named(nodes[i].name)] = nodes[i].class
    /\ paje.parent[Named(nodes[i].name)] = Above(i)
    /\ <<nodes[i].class, ClassAbove(i)>> \in paje.types
ThreadsThere ==
  \A i \in 1..Len(location_defs) :
    /\ otf2 # "closed" => paje.kind[Thread(location_defs[i].self)] = "thread"
    /\ paje.parent[Thread(location_defs[i].self)] = Named(NodeBelow(i).name)
    /\ <<"thread", NodeBelow(i).class>> \in paje.types
NoOthers ==
  /\ paje.kind[World] = "0"
  /\ \A l \in LocationRefs :
       l \notin {location_defs[i].self : i \in 1..Len(location_defs)} =>
         paje.kind[Thread(l)] = "none"
  /\ \A text \in Text :
       \/ Named(text) \in {World} \cup {Thread(l) : l \in LocationRefs}
       \/ \E i \in 1..Len(nodes) : nodes[i].name = text
       \/ paje.kind[Named(text)] = "none"
\* Refused are only lines of the end of main, where no event gave it a time.
RefusedEnds == paje.refused \subseteq UntimedEnds
TreePrinted == Plain => NodesThere /\ ThreadsThere /\ NoOthers /\ RefusedEnds

LEMMA NoneRefused ==
  ASSUME otf2 # "closed"
  PROVE  RefusedEnds <=> paje.refused = {}
BY DEF RefusedEnds, UntimedEnds

LEMMA OrderedInit ==
  ASSUME Otf2Init, arguments \in CommandLines, RunBy("otf22paje")
  PROVE  Otf2Ordered
<1> USE DEF Otf2Init, Otf2Start, HostfileInit
<1>1. \E k \in Nat : {} = 0..(k - 1)
  <2>1. {} = 0..(0 - 1)
    OBVIOUS
  <2> QED
    BY <2>1
<1>2. StringsInOrder /\ RegionsInOrder /\ GroupsInOrder /\ LocationsApart /\ HostfileAsked
  BY <1>1 DEF StringsInOrder, RegionsInOrder, GroupsInOrder, LocationsApart, HostfileAsked
<1>3. TypesEntered
  BY DEF TypesEntered, ClassesEntered
<1>4. Timely
  <2>1. paje = NewTrace
    BY PlacedInit
  <2>2. \A c \in Containers : paje.latest[c] = 0
    BY <2>1 DEF NewTrace
  <2> QED
    BY <2>2 DEF Timely
<1> QED
  BY <1>2, <1>3, <1>4 DEF Otf2Ordered

\* The first numbers, and one more.
LEMMA NextNumber ==
  ASSUME NEW told, NEW k \in Nat, told = 0..(k - 1)
  PROVE  Cardinality(told) = k /\ told \cup {k} = 0..(k + 1 - 1) /\ CutAfter(told, k) = told \cup {k}
<1>1. Cardinality(told) = k
  BY FS_Interval
<1> QED
  BY <1>1 DEF CutAfter

\* What only one kind of definitions changes.
LEMMA OrderSteps ==
  ASSUME Otf2Next
  PROVE  /\ (\E s \in StringRefs : DefString(s))
              \/ ((in_order' => in_order) /\ UNCHANGED <<strings, strings_told>>)
         /\ (\E r \in RegionRefs : DefRegion(r))
              \/ ((in_order' => in_order) /\ UNCHANGED <<regions, regions_told>>)
<1> USE DEF OneOfKind, tables, archive, unread
<1>1. CASE ChooseHierarchy \/ HostfileEnds \/ DefinitionsEnd
  BY <1>1 DEF ChooseHierarchy, HostfileEnds, DefinitionsEnd
<1>2. CASE ReadHostLine
  BY <1>2 DEF ReadHostLine
<1>3. CASE \E s \in StringRefs : DefString(s)
  BY <1>3 DEF DefString
<1>4. CASE \E r \in RegionRefs : DefRegion(r)
  BY <1>4 DEF DefRegion
<1>5. CASE \E self \in NodeRefs, name \in NodeNames, class \in ClassNames,
             p \in {-1} \cup NodeRefs : DefSystemTreeNode(self, name, class, p)
  BY <1>5 DEF DefSystemTreeNode
<1>6. CASE \E self \in 0..(MaxGroups - 1), name \in NodeNames, p \in NodeRefs :
             DefLocationGroup(self, name, p)
  BY <1>6 DEF DefLocationGroup
<1>7. CASE \E self \in LocationRefs, type \in LocationTypes, g \in 0..(MaxGroups - 1) :
             DefLocation(self, type, g)
  BY <1>7 DEF DefLocation
<1>8. CASE \E l \in LocationRefs, r \in RegionRefs : EnterRegion(l, r) \/ LeaveRegion(l, r)
  BY <1>8 DEF EnterRegion, LeaveRegion, RegionEvent
<1>9. CASE Otf2Close
  BY <1>9 DEF Otf2Close
<1> QED
  BY <1>1, <1>2, <1>3, <1>4, <1>5, <1>6, <1>7, <1>8, <1>9 DEF Otf2Next

LEMMA StringsOrdered ==
  ASSUME Otf2Placed, StringsInOrder, Otf2Next
  PROVE  StringsInOrder'
<1>1. CASE \E s \in StringRefs : DefString(s)
  <2>1. PICK s \in StringRefs : DefString(s)
    BY <1>1
  <2>2. /\ in_order' = (in_order /\ s = Cardinality(strings_told))
        /\ strings_told' = strings_told \cup {s} /\ strings' = CutAfter(strings, s)
    BY <2>1 DEF DefString, OneOfKind
  <2> SUFFICES ASSUME in_order' PROVE StringsInOrder'
    BY DEF StringsInOrder
  <2>3. PICK k \in Nat : strings_told = 0..(k - 1) /\ strings = strings_told
    BY <2>2 DEF StringsInOrder
  <2>4. strings_told' = 0..(k + 1 - 1) /\ strings' = strings_told'
    BY <2>2, <2>3, NextNumber
  <2> QED
    BY <2>4 DEF StringsInOrder
<1>2. CASE (in_order' => in_order) /\ UNCHANGED <<strings, strings_told>>
  BY <1>2 DEF StringsInOrder
<1> QED
  BY <1>1, <1>2, OrderSteps

LEMMA RegionsOrdered ==
  ASSUME Otf2Placed, RegionsInOrder, Otf2Next
  PROVE  RegionsInOrder'
<1>1. CASE \E r \in RegionRefs : DefRegion(r)
  <2>1. PICK r \in RegionRefs : DefRegion(r)
    BY <1>1
  <2>2. /\ in_order' = (in_order /\ r = Cardinality(regions_told))
        /\ regions_told' = regions_told \cup {r} /\ regions' = CutAfter(regions, r)
    BY <2>1 DEF DefRegion, OneOfKind
  <2> SUFFICES ASSUME in_order' PROVE RegionsInOrder'
    BY DEF RegionsInOrder
  <2>3. PICK k \in Nat : regions_told = 0..(k - 1) /\ regions = regions_told
    BY <2>2 DEF RegionsInOrder
  <2>4. regions_told' = 0..(k + 1 - 1) /\ regions' = regions_told'
    BY <2>2, <2>3, NextNumber
  <2> QED
    BY <2>4 DEF RegionsInOrder
<1>2. CASE (in_order' => in_order) /\ UNCHANGED <<regions, regions_told>>
  BY <1>2 DEF RegionsInOrder
<1> QED
  BY <1>1, <1>2, OrderSteps

\* What else the definitions of nodes, groups and locations change.
LEMMA TableSteps ==
  ASSUME Otf2Next
  PROVE  \/ \E self \in NodeRefs, name \in NodeNames, class \in ClassNames,
               p \in {-1} \cup NodeRefs : DefSystemTreeNode(self, name, class, p)
         \/ \E self \in 0..(MaxGroups - 1), name \in NodeNames, p \in NodeRefs :
               DefLocationGroup(self, name, p)
         \/ \E self \in LocationRefs, type \in LocationTypes, g \in 0..(MaxGroups - 1) :
               DefLocation(self, type, g)
         \/ /\ in_order' => in_order
            /\ UNCHANGED <<nodes, group_defs, location_defs, typeTree, groups, arguments>>
            /\ otf2' # "undefined" => otf2 # "undefined"
<1> USE DEF OneOfKind, tables, archive, unread
<1>1. CASE ChooseHierarchy \/ HostfileEnds \/ DefinitionsEnd
  BY <1>1 DEF ChooseHierarchy, HostfileEnds, DefinitionsEnd
<1>2. CASE ReadHostLine
  BY <1>2 DEF ReadHostLine
<1>3. CASE \E s \in StringRefs : DefString(s)
  BY <1>3 DEF DefString
<1>4. CASE \E r \in RegionRefs : DefRegion(r)
  BY <1>4 DEF DefRegion
<1>8. CASE \E l \in LocationRefs, r \in RegionRefs : EnterRegion(l, r) \/ LeaveRegion(l, r)
  BY <1>8 DEF EnterRegion, LeaveRegion, RegionEvent
<1>9. CASE Otf2Close
  BY <1>9 DEF Otf2Close
<1> QED
  BY <1>1, <1>2, <1>3, <1>4, <1>8, <1>9 DEF Otf2Next

LEMMA GroupsOrdered ==
  ASSUME Otf2Placed, GroupsInOrder, Otf2Next
  PROVE  GroupsInOrder'
<1>1. CASE \E self \in 0..(MaxGroups - 1), name \in NodeNames, p \in NodeRefs :
             DefLocationGroup(self, name, p)
  <2>1. PICK self \in 0..(MaxGroups - 1), name \in NodeNames, p \in NodeRefs :
             DefLocationGroup(self, name, p)
    BY <1>1
  <2> DEFINE d == [self |-> self, parent |-> p]
  <2>2. /\ in_order' = (in_order /\ self = Len(group_defs))
        /\ group_defs' = Append(group_defs, d)
    BY <2>1, GroupShape
  <2>3. d.self = self
    OBVIOUS
  <2>4. group_defs \in Seq(GroupDef) /\ Len(group_defs) \in Nat
    BY DEF Otf2Placed, Otf2TypeOK
  <2> HIDE DEF d
  <2>5. /\ Len(group_defs') = Len(group_defs) + 1 /\ group_defs'[Len(group_defs) + 1] = d
        /\ \A i \in 1..Len(group_defs) : group_defs'[i] = group_defs[i]
        /\ \A i \in 1..(Len(group_defs) + 1) : i \in 1..Len(group_defs) \/ i = Len(group_defs) + 1
    BY <2>2, <2>4
  <2>6. ASSUME in_order', NEW i \in 1..Len(group_defs') PROVE group_defs'[i].self = i - 1
    <3>1. CASE i \in 1..Len(group_defs)
      BY <2>2, <2>5, <2>6, <3>1 DEF GroupsInOrder
    <3>2. CASE i = Len(group_defs) + 1
      <4>1. self = Len(group_defs)
        BY <2>2, <2>6
      <4>2. group_defs'[i].self = self
        BY <2>3, <2>5, <3>2
      <4> QED
        BY <2>4, <3>2, <4>1, <4>2
    <3> QED
      BY <2>5, <3>1, <3>2
  <2> QED
    BY <2>6 DEF GroupsInOrder
<1>2. CASE (in_order' => in_order) /\ group_defs' = group_defs
  BY <1>2 DEF GroupsInOrder
<1>3. CASE \E self \in NodeRefs, name \in NodeNames, class \in ClassNames,
             p \in {-1} \cup NodeRefs : DefSystemTreeNode(self, name, class, p)
  BY <1>2, <1>3 DEF DefSystemTreeNode, OneOfKind
<1>4. CASE \E self \in LocationRefs, type \in LocationTypes, g \in 0..(MaxGroups - 1) :
             DefLocation(self, type, g)
  BY <1>2, <1>4 DEF DefLocation, OneOfKind
<1> QED
  BY <1>1, <1>2, <1>3, <1>4, TableSteps

LEMMA LocationsKeptApart ==
  ASSUME Otf2Placed, LocationsApart, Otf2Next
  PROVE  LocationsApart'
<1>0. /\ location_defs \in Seq(LocationDef) /\ Len(location_defs) \in Nat
      /\ DOMAIN location_defs = 1..Len(location_defs)
      /\ group_defs \in Seq(GroupDef) /\ Len(group_defs) \in Nat
      /\ DOMAIN group_defs = 1..Len(group_defs)
  BY DEF Otf2Placed, Otf2TypeOK
<1>1. CASE \E self \in LocationRefs, type \in LocationTypes, g \in 0..(MaxGroups - 1) :
             DefLocation(self, type, g)
  <2>1. PICK self \in LocationRefs, type \in LocationTypes, g \in 0..(MaxGroups - 1) :
             DefLocation(self, type, g)
    BY <1>1
  <2> DEFINE d == [self |-> self, type |-> type, group |-> g]
             n == Len(location_defs)
  <2>2. /\ location_defs' = Append(location_defs, d) /\ group_defs' = group_defs
        /\ g \in {group_defs[i].self : i \in DOMAIN group_defs}
        /\ self \notin {location_defs[i].self : i \in DOMAIN location_defs}
    BY <2>1, LocationShape
  <2>3. d.self = self /\ d.group = g
    OBVIOUS
  <2> HIDE DEF d
  <2>4. /\ Len(location_defs') = n + 1 /\ location_defs'[n + 1] = d
        /\ \A i \in 1..n : location_defs'[i] = location_defs[i]
        /\ \A i \in 1..(n + 1) : i \in 1..n \/ i = n + 1
    BY <1>0, <2>2
  <2>5. ASSUME NEW i \in 1..(n + 1)
        PROVE  \E k \in 1..Len(group_defs) : group_defs[k].self = location_defs'[i].group
    <3>1. CASE i \in 1..n
      BY <2>4, <3>1 DEF LocationsApart
    <3>2. CASE i = n + 1
      BY <1>0, <2>2, <2>3, <2>4, <3>2
    <3> QED
      BY <2>4, <3>1, <3>2
  <2>6. ASSUME NEW i \in 1..(n + 1), NEW j \in 1..(n + 1),
               location_defs'[i].self = location_defs'[j].self
        PROVE  i = j
    <3>1. \A k \in 1..n : location_defs'[k].self # self
      BY <1>0, <2>2, <2>4
    <3>2. CASE i \in 1..n /\ j \in 1..n
      BY <2>4, <2>6, <3>2 DEF LocationsApart
    <3>3. CASE i = n + 1 \/ j = n + 1
      BY <2>3, <2>4, <2>6, <3>1, <3>3
    <3> QED
      BY <2>4, <3>2, <3>3
  <2> HIDE DEF n
  <2> QED
    BY <2>2, <2>4, <2>5, <2>6 DEF LocationsApart
<1>2. CASE location_defs' = location_defs /\ group_defs' = group_defs
  BY <1>2 DEF LocationsApart
<1>3. CASE \E self \in NodeRefs, name \in NodeNames, class \in ClassNames,
             p \in {-1} \cup NodeRefs : DefSystemTreeNode(self, name, class, p)
  BY <1>2, <1>3 DEF DefSystemTreeNode
<1>4. CASE \E self \in 0..(MaxGroups - 1), name \in NodeNames, p \in NodeRefs :
             DefLocationGroup(self, name, p)
  <2>1. PICK self \in 0..(MaxGroups - 1), name \in NodeNames, p \in NodeRefs :
             DefLocationGroup(self, name, p)
    BY <1>4
  <2>2. kinds <= 3 /\ location_defs' = location_defs
    BY <2>1, GroupShape
  <2>3. location_defs' = <<>>
    BY <2>2 DEF Otf2Placed, Otf2TypeOK, KindsInOrder
  <2> QED
    BY <2>3 DEF LocationsApart
<1> QED
  BY <1>1, <1>2, <1>3, <1>4, TableSteps

\* What is searched for in a table of classes is found exactly if it is one of them.
LEMMA MarksAreNoTexts ==
  \A c \in Text : c \notin {Uninitialized, "none", "gone"}
BY Otf2Assumption DEF Text

LEMMA ClassesFound ==
  ASSUME Otf2Placed, ClassesEntered
  PROVE  /\ \A i \in 1..Len(typeTree) : typeTree[i] \in Text /\ typeTree[i] # Uninitialized
         /\ \A c : Found(c) <=> \E i \in 1..Len(typeTree) : typeTree[i] = c
         /\ \A c : ~Astray(c)
<1>1. /\ nodes \in Seq(NodeDef) /\ Len(nodes) \in Nat /\ Len(typeTree) \in Nat
      /\ DOMAIN typeTree = 1..Len(typeTree)
  BY DEF Otf2Placed, Otf2TypeOK
<1>2. \A i \in 1..Len(nodes) : nodes[i].class \in Text
  <2>1. \A i \in 1..Len(nodes) : nodes[i] \in NodeDef
    BY <1>1
  <2> QED
    BY <2>1 DEF NodeDef
<1>3. \A i \in 1..Len(typeTree) : typeTree[i] \in Text
  BY <1>1, <1>2 DEF ClassesEntered
<1>4. \A i \in 1..Len(typeTree) : typeTree[i] # Uninitialized
  BY <1>3, MarksAreNoTexts
<1>5. \A c : Found(c) <=> \E i \in 1..Len(typeTree) : typeTree[i] = c
  <2>1. \A i \in 1..Len(typeTree) : \A j \in 1..i : j \in 1..Len(typeTree)
    BY <1>1
  <2> QED
    BY <1>1, <1>4, <2>1 DEF Found
<1>6. \A c : ~Astray(c)
  BY <1>1, <1>4 DEF Astray
<1> QED
  BY <1>3, <1>4, <1>5, <1>6

\* An entry at the end of the table of types, and one within it.
LEMMA EntryMade ==
  ASSUME NEW c \in TypeName, typeTree \in Seq(TypeName), NEW k \in 0..Len(typeTree)
  PROVE  /\ Len(WithType(k, c)) = Len(typeTree) + 1
         /\ WithType(k, c)[k + 1] = c /\ DOMAIN WithType(k, c) = 1..(Len(typeTree) + 1)
         /\ \A i \in 1..k : WithType(k, c)[i] = typeTree[i]
<1> DEFINE q == Append(typeTree, Uninitialized)
           d == Len(typeTree)
<1>1. /\ q \in Seq(TypeName) /\ d \in Nat /\ Len(q) = d + 1 /\ DOMAIN q = 1..(d + 1)
      /\ \A i \in 1..d : q[i] = typeTree[i]
  BY DEF TypeName
<1> HIDE DEF q
<1> DEFINE w == [q EXCEPT ![k + 1] = c]
<1>2. /\ w[k + 1] = c /\ DOMAIN w = 1..(d + 1) /\ \A i \in 1..k : w[i] = q[i]
  BY <1>1
<1>3. Len(w) = d + 1
  BY <1>1, <1>2
<1>4. WithType(k, c) = w
  BY DEF WithType, q
<1> HIDE DEF w
<1> QED
  BY <1>1, <1>2, <1>3, <1>4

LEMMA NodeEntered ==
  ASSUME Otf2Placed, ClassesEntered, NEW self \in NodeRefs, NEW name \in NodeNames,
         NEW class \in ClassNames, NEW parent \in {-1} \cup NodeRefs, NEW n, NEW u,
         NewNode(self, name, class, parent, n, u),
         nodes' = Append(nodes, NodeDefined(self, name, class, parent))
  PROVE  /\ ClassesEntered'
         /\ ~Found(String(class)) => Len(typeTree) = Len(nodes)
<1> DEFINE c == String(class)
           d == NodeDefined(self, name, class, parent)
           k == Len(typeTree)
           m == Len(nodes)
<1>1. /\ nodes \in Seq(NodeDef) /\ m \in Nat /\ k \in Nat /\ typeTree \in Seq(TypeName)
      /\ c \in TypeName /\ d.class = c /\ d \in NodeDef /\ nodes' = Append(nodes, d)
  BY Strings DEF Otf2Placed, Otf2TypeOK, TypeName, NodeDefined, NodeDef
<1>2. /\ k <= m /\ \A i \in 1..k : typeTree[i] = nodes[i].class
      /\ \A i, j \in 1..k : typeTree[i] = typeTree[j] => i = j
      /\ \A i \in 1..m : \E j \in 1..k : typeTree[j] = nodes[i].class
  BY DEF ClassesEntered
<1>3. /\ self = m /\ ~BadType(self, c, parent)
      /\ typeTree' = IF Found(c) THEN typeTree ELSE WithType(self, c)
  BY DEF NewNode
<1>4. ~Found(c) => k = m
  BY <1>1, <1>2, <1>3 DEF BadType
<1> HIDE DEF d
<1>5. /\ Len(nodes') = m + 1 /\ nodes'[m + 1] = d
      /\ \A i \in 1..m : nodes'[i] = nodes[i]
      /\ \A i \in 1..(m + 1) : i \in 1..m \/ i = m + 1
  BY <1>1
<1>6. Found(c) <=> \E i \in 1..k : typeTree[i] = c
  BY ClassesFound
<1> HIDE DEF c, k, m
<1>7. CASE Found(c)
  <2>1. Len(typeTree') = k /\ \A i \in 1..k : typeTree'[i] = typeTree[i]
    BY <1>3, <1>7 DEF k
  <2>4. k \in Nat /\ m \in Nat
    BY <1>1 DEF k, m
  <2>5. k <= m + 1 /\ \A i \in 1..k : i \in 1..m
    BY <1>2, <2>4
  <2>2. /\ k <= m + 1 /\ \A i \in 1..k : typeTree'[i] = nodes'[i].class
        /\ \A i, j \in 1..k : typeTree'[i] = typeTree'[j] => i = j
    BY <1>2, <1>5, <2>1, <2>5
  <2>3. \A i \in 1..(m + 1) : \E j \in 1..k : typeTree'[j] = nodes'[i].class
    <3>1. ASSUME NEW i \in 1..m
          PROVE  \E j \in 1..k : typeTree'[j] = nodes'[i].class
      <4>1. PICK j \in 1..k : typeTree[j] = nodes[i].class
        BY <1>2
      <4>2. typeTree'[j] = nodes[i].class /\ nodes'[i] = nodes[i]
        BY <1>5, <2>1, <4>1
      <4> QED
        BY <4>2
    <3>2. \E j \in 1..k : typeTree'[j] = nodes'[m + 1].class
      <4>1. PICK j \in 1..k : typeTree[j] = c
        BY <1>6, <1>7
      <4>2. typeTree'[j] = c /\ nodes'[m + 1].class = c
        BY <1>1, <1>5, <2>1, <4>1
      <4> QED
        BY <4>2
    <3> QED
      BY <1>5, <3>1, <3>2
  <2>6. ClassesEntered'
    <3>1. /\ Len(typeTree') <= Len(nodes')
          /\ \A i \in 1..Len(typeTree') : typeTree'[i] = nodes'[i].class
          /\ \A i, j \in 1..Len(typeTree') : typeTree'[i] = typeTree'[j] => i = j
          /\ \A i \in 1..Len(nodes') : \E j \in 1..Len(typeTree') : typeTree'[j] = nodes'[i].class
      BY <1>5, <2>1, <2>2, <2>3
    <3> QED
      BY <3>1 DEF ClassesEntered
  <2> QED
    BY <1>7, <2>6 DEF c
<1>8. CASE ~Found(c)
  <2>1. k = m /\ typeTree' = WithType(k, c)
    BY <1>3, <1>4, <1>8
  <2>2. /\ Len(typeTree') = k + 1 /\ typeTree'[k + 1] = c
        /\ \A i \in 1..k : typeTree'[i] = typeTree[i]
        /\ \A i \in 1..(k + 1) : i \in 1..k \/ i = k + 1
    <3>1. k \in 0..Len(typeTree)
      BY <1>1 DEF k
    <3>2. /\ Len(WithType(k, c)) = Len(typeTree) + 1
          /\ WithType(k, c)[k + 1] = c
          /\ \A i \in 1..k : WithType(k, c)[i] = typeTree[i]
      BY <1>1, <3>1, EntryMade
    <3> QED
      BY <1>1, <2>1, <3>2 DEF k
  <2>3. \A i \in 1..(k + 1) : typeTree'[i] = nodes'[i].class
    BY <1>1, <1>2, <1>5, <2>1, <2>2
  <2>4. \A i, j \in 1..(k + 1) : typeTree'[i] = typeTree'[j] => i = j
    BY <1>2, <1>6, <1>8, <2>2
  <2>5. \A i \in 1..(m + 1) : \E j \in 1..(k + 1) : typeTree'[j] = nodes'[i].class
    BY <2>1, <2>3
  <2>6. ClassesEntered'
    <3>1. /\ Len(typeTree') <= Len(nodes')
          /\ \A i \in 1..Len(typeTree') : typeTree'[i] = nodes'[i].class
          /\ \A i, j \in 1..Len(typeTree') : typeTree'[i] = typeTree'[j] => i = j
          /\ \A i \in 1..Len(nodes') : \E j \in 1..Len(typeTree') : typeTree'[j] = nodes'[i].class
      <4>1. Len(typeTree') = k + 1 /\ Len(nodes') = k + 1 /\ k \in Nat
        BY <1>1, <1>5, <2>1, <2>2 DEF k
      <4>2. k + 1 <= k + 1
        BY <4>1
      <4>3. \A i \in 1..(k + 1) : \E j \in 1..(k + 1) : typeTree'[j] = nodes'[i].class
        BY <2>1, <2>5
      <4> QED
        BY <2>3, <2>4, <4>1, <4>2, <4>3, Zenon
    <3> QED
      BY <3>1 DEF ClassesEntered
  <2> QED
    BY <1>4, <2>6 DEF c, k, m
<1> QED
  BY <1>7, <1>8

LEMMA TypesStayEntered ==
  ASSUME Otf2Placed, TypesEntered, Otf2Next
  PROVE  TypesEntered'
<1> SUFFICES ASSUME TreeMode', otf2' # "undefined"
             PROVE  /\ location_defs' = <<>> => ClassesEntered'
                    /\ location_defs' # <<>> => Found("thread")'
  BY DEF TypesEntered
<1>1. CASE /\ UNCHANGED <<nodes, group_defs, location_defs, typeTree, groups, arguments>>
           /\ otf2' # "undefined" => otf2 # "undefined"
  BY <1>1 DEF TypesEntered, TreeMode, RunBy, ClassesEntered, Found
<1>2. CASE \E self \in NodeRefs, name \in NodeNames, class \in ClassNames,
             p \in {-1} \cup NodeRefs : DefSystemTreeNode(self, name, class, p)
  <2>1. PICK self \in NodeRefs, name \in NodeNames, class \in ClassNames,
             p \in {-1} \cup NodeRefs : DefSystemTreeNode(self, name, class, p)
    BY <1>2
  <2>2. /\ otf2 = "definitions" /\ kinds <= 2 /\ UNCHANGED <<arguments, location_defs>>
        /\ nodes' = Append(nodes, NodeDefined(self, name, class, p))
    BY <2>1, NodeShape
  <2>3. TreeMode /\ ~arguments.flat /\ ~arguments.hostfile
    BY <2>2 DEF TreeMode, RunBy
  <2>4. PICK n, u : NewNode(self, name, class, p, n, u)
    BY <2>1, <2>3, NodeShape
  <2>5. location_defs = <<>>
    BY <2>2 DEF Otf2Placed, Otf2TypeOK, KindsInOrder
  <2>6. ClassesEntered
    BY <2>2, <2>3, <2>5 DEF TypesEntered
  <2>7. ClassesEntered'
    BY <2>2, <2>4, <2>6, NodeEntered
  <2> QED
    BY <2>2, <2>5, <2>7
<1>3. CASE \E self \in 0..(MaxGroups - 1), name \in NodeNames, p \in NodeRefs :
             DefLocationGroup(self, name, p)
  <2>1. PICK self \in 0..(MaxGroups - 1), name \in NodeNames, p \in NodeRefs :
             DefLocationGroup(self, name, p)
    BY <1>3
  <2>2. /\ otf2 = "definitions"
        /\ UNCHANGED <<arguments, location_defs, typeTree, nodes>>
    BY <2>1, GroupShape
  <2> QED
    BY <2>2 DEF TypesEntered, TreeMode, RunBy, ClassesEntered, Found
<1>4. CASE \E self \in LocationRefs, type \in LocationTypes, g \in 0..(MaxGroups - 1) :
             DefLocation(self, type, g)
  <2>1. PICK self \in LocationRefs, type \in LocationTypes, g \in 0..(MaxGroups - 1) :
             DefLocation(self, type, g)
    BY <1>4
  <2>2. /\ otf2 = "definitions" /\ UNCHANGED arguments
        /\ location_defs' = Append(location_defs, [self |-> self, type |-> type, group |-> g])
    BY <2>1, LocationShape
  <2>3. location_defs' # <<>>
    <3> DEFINE d == [self |-> self, type |-> type, group |-> g]
    <3>1. d \in LocationDef /\ location_defs \in Seq(LocationDef)
      BY DEF LocationDef, Otf2Placed, Otf2TypeOK
    <3>2. location_defs' = Append(location_defs, d)
      BY <2>2
    <3> HIDE DEF d
    <3> QED
      BY <3>1, <3>2
  <2>4. PICK n, u : NewThread(self, type, g, groups[g + 1], n, u)
    BY <2>1, LocationShape
  <2>5. TreeMode
    BY <2>2 DEF TreeMode, RunBy
  <2>6. CASE Found("thread")
    <3>1. typeTree' = typeTree
      BY <2>4, <2>6 DEF NewThread
    <3> QED
      BY <2>3, <2>6, <3>1 DEF Found
  <2>7. CASE ~Found("thread")
    <3> DEFINE c == "thread"
    <3>1. ClassesEntered
      BY <2>2, <2>5, <2>7 DEF TypesEntered
    <3>2. typeTree' = WithType(type, c) /\ ~(type > Len(typeTree))
      BY <2>4, <2>7 DEF NewThread, BadType
    <3>3. typeTree \in Seq(TypeName) /\ type \in 0..Len(typeTree) /\ c \in TypeName
      BY <3>2, Strings DEF Otf2Placed, Otf2TypeOK, TypeName
    <3>4. c # Uninitialized
      BY DEF Uninitialized
    <3> HIDE DEF c
    <3>5. /\ WithType(type, c)[type + 1] = c
          /\ DOMAIN WithType(type, c) = 1..(Len(typeTree) + 1)
          /\ \A i \in 1..type : WithType(type, c)[i] = typeTree[i]
      BY <3>3, EntryMade
    <3>6. \A i \in 1..Len(typeTree) : typeTree[i] # Uninitialized
      BY <3>1, ClassesFound
    <3>7. /\ type + 1 \in 1..(Len(typeTree) + 1)
          /\ \A j \in 1..(type + 1) : j = type + 1 \/ (j \in 1..type /\ j \in 1..Len(typeTree))
      BY <3>3
    <3>8. \A j \in 1..(type + 1) : typeTree'[j] # Uninitialized
      BY <3>2, <3>4, <3>5, <3>6, <3>7
    <3>9. Found(c)'
      BY <3>2, <3>5, <3>7, <3>8 DEF Found
    <3> QED
      BY <2>3, <3>9 DEF c
  <2> QED
    BY <2>6, <2>7
<1> QED
  BY <1>1, <1>2, <1>3, <1>4, TableSteps

LEMMA StaysTimely ==
  ASSUME Otf2Placed, Timely, HostfileAsked, Otf2Next
  PROVE  Timely'
<1>0. /\ otf2_events \in Nat /\ last_timestamp \in Nat \cup {-1}
      /\ paje.latest \in [Containers -> Nat]
  BY DEF Otf2Placed, Otf2TypeOK, TraceOf
<1> DEFINE Same == /\ UNCHANGED <<last_timestamp, otf2_events, arguments>>
                   /\ otf2' # "closed" => otf2 # "closed"
<1>1. ASSUME Same, TreeMode => \A c \in Containers : paje'.latest[c] = paje.latest[c]
      PROVE  Timely'
  BY <1>1 DEF Timely, TreeMode, RunBy
<1>2. CASE ChooseHierarchy \/ HostfileEnds \/ DefinitionsEnd
  <2>1. Same /\ paje' = paje
    BY <1>2 DEF ChooseHierarchy, HostfileEnds, DefinitionsEnd, unread
  <2> QED
    BY <1>1, <2>1
<1>3. CASE ReadHostLine
  <2>1. Same /\ ~TreeMode
    BY <1>3 DEF ReadHostLine, unread, HostfileAsked, TreeMode
  <2> QED
    BY <1>1, <2>1
<1>4. CASE (\E s \in StringRefs : DefString(s)) \/ (\E r \in RegionRefs : DefRegion(r))
  <2>1. Same /\ paje' = paje
    BY <1>4 DEF DefString, DefRegion, OneOfKind, unread
  <2> QED
    BY <1>1, <2>1
<1>5. CASE \E self \in NodeRefs, name \in NodeNames, class \in ClassNames,
             p \in {-1} \cup NodeRefs : DefSystemTreeNode(self, name, class, p)
  <2>1. PICK self \in NodeRefs, name \in NodeNames, class \in ClassNames,
             p \in {-1} \cup NodeRefs : DefSystemTreeNode(self, name, class, p)
    BY <1>5
  <2>2. Same
    BY <2>1, NodeShape
  <2>3. CASE \E n, u : NewNode(self, name, class, p, n, u)
    <3>1. PICK n, u : NewNode(self, name, class, p, n, u)
      BY <2>3
    <3>2. /\ Dated(n, u, 0, Named(String(name))) /\ n.latest = paje.latest
          /\ paje' = IF arguments.dummy THEN paje ELSE u
      BY <3>1 DEF NewNode, Creates
    <3>3. \A c \in Containers : u.latest[c] = paje.latest[c]
      BY <1>0, <3>2 DEF Dated
    <3>4. \A c \in Containers : paje'.latest[c] = paje.latest[c]
      BY <3>2, <3>3
    <3> HIDE DEF Same
    <3> QED
      BY <1>1, <2>2, <3>4
  <2>4. CASE paje' = paje
    BY <1>1, <2>2, <2>4
  <2> QED
    BY <2>1, <2>3, <2>4, NodeShape
<1>6. CASE \E self \in 0..(MaxGroups - 1), name \in NodeNames, p \in NodeRefs :
             DefLocationGroup(self, name, p)
  <2>1. PICK self \in 0..(MaxGroups - 1), name \in NodeNames, p \in NodeRefs :
             DefLocationGroup(self, name, p)
    BY <1>6
  <2>2. Same /\ (TreeMode => paje' = paje)
    BY <2>1, GroupShape DEF TreeMode
  <2> QED
    BY <1>1, <2>2
<1>7. CASE \E self \in LocationRefs, type \in LocationTypes, g \in 0..(MaxGroups - 1) :
             DefLocation(self, type, g)
  <2>1. PICK self \in LocationRefs, type \in LocationTypes, g \in 0..(MaxGroups - 1) :
             DefLocation(self, type, g)
    BY <1>7
  <2>2. Same
    BY <2>1, LocationShape
  <2>3. CASE \E n, u : NewThread(self, type, g, groups[g + 1], n, u)
    <3>1. PICK n, u : NewThread(self, type, g, groups[g + 1], n, u)
      BY <2>3
    <3>2. /\ Dated(n, u, 0, Thread(self)) /\ n.latest = paje.latest
          /\ paje' = IF arguments.dummy THEN paje ELSE u
      BY <3>1 DEF NewThread, Creates
    <3>3. \A c \in Containers : u.latest[c] = paje.latest[c]
      BY <1>0, <3>2 DEF Dated
    <3>4. \A c \in Containers : paje'.latest[c] = paje.latest[c]
      BY <3>2, <3>3
    <3> HIDE DEF Same
    <3> QED
      BY <1>1, <2>2, <3>4
  <2>4. CASE paje' = paje
    BY <1>1, <2>2, <2>4
  <2> QED
    BY <2>1, <2>3, <2>4, LocationShape
<1>8. CASE \E l \in LocationRefs, r \in RegionRefs : EnterRegion(l, r) \/ LeaveRegion(l, r)
  <2>0. PICK l \in LocationRefs, r \in RegionRefs : \E u : Enters(l, r, u) \/ Leaves(l, r, u)
    BY <1>8, EnterPlaced, LeavePlaced
  <2>1. PICK u : Enters(l, r, u) \/ Leaves(l, r, u)
    BY <2>0
  <2>2. /\ otf2 = "events" /\ arguments' = arguments /\ otf2_events' = otf2_events + 1
        /\ Dated(paje, u, otf2_events + 1, Thread(l))
        /\ \/ UNCHANGED <<paje, last_timestamp>>
           \/ EventLine(r, u)
    BY <2>1 DEF Enters, Leaves, Pushes, Pops
  <2>3. \A c \in Containers : u.latest[c] = paje.latest[c] \/ u.latest[c] = otf2_events + 1
    BY <1>0, <2>2 DEF Dated
  <2>4. \/ UNCHANGED <<paje, last_timestamp>>
        \/ last_timestamp' = otf2_events + 1 /\ paje' \in {paje, u}
    BY <2>2 DEF EventLine
  <2>5. last_timestamp <= otf2_events
        /\ (TreeMode => \A c \in Containers : paje.latest[c] = 0 \/ paje.latest[c] <= last_timestamp)
    BY <2>2 DEF Timely
  <2>6. last_timestamp' <= otf2_events'
    BY <1>0, <2>2, <2>4, <2>5
  <2>7. TreeMode => \A c \in Containers : paje'.latest[c] = 0 \/ paje'.latest[c] <= last_timestamp'
    <3> SUFFICES ASSUME TreeMode, NEW c \in Containers
                 PROVE  paje'.latest[c] = 0 \/ paje'.latest[c] <= last_timestamp'
      OBVIOUS
    <3>1. paje.latest[c] \in Nat
      BY <1>0
    <3> QED
      BY <1>0, <2>3, <2>4, <2>5, <3>1
  <2> QED
    BY <2>2, <2>6, <2>7 DEF Timely, TreeMode, RunBy
<1>9. CASE Otf2Close
  BY <1>9 DEF Otf2Close, Timely
<1> QED
  BY <1>2, <1>3, <1>4, <1>5, <1>6, <1>7, <1>8, <1>9 DEF Otf2Next

LEMMA OrderedKeeps ==
  ASSUME Otf2Placed, Otf2Ordered, Otf2Next \/ UNCHANGED otf2Vars
  PROVE  Otf2Ordered'
<1>1. CASE Otf2Next
  <2>1. HostfileAsked'
    <3>1. CASE ChooseHierarchy \/ HostfileEnds \/ DefinitionsEnd
      BY <3>1 DEF ChooseHierarchy, HostfileEnds, DefinitionsEnd, HostfileAsked, unread
    <3>2. CASE ReadHostLine
      BY <3>2 DEF ReadHostLine, Otf2Ordered, HostfileAsked, unread
    <3>3. CASE \E l \in LocationRefs, r \in RegionRefs : EnterRegion(l, r) \/ LeaveRegion(l, r)
      BY <3>3, EnterPlaced, LeavePlaced DEF Enters, Leaves, HostfileAsked
    <3>4. CASE Otf2Close
      BY <3>4 DEF Otf2Close, HostfileAsked
    <3>5. CASE (\E s \in StringRefs : DefString(s)) \/ (\E r \in RegionRefs : DefRegion(r))
      BY <3>5 DEF DefString, DefRegion, OneOfKind, HostfileAsked
    <3>6. CASE \E self \in NodeRefs, name \in NodeNames, class \in ClassNames,
                 p \in {-1} \cup NodeRefs : DefSystemTreeNode(self, name, class, p)
      <4>1. otf2 = "definitions" /\ otf2' \in {otf2, "undefined"}
        BY <3>6, NodeShape DEF NewNode
      <4> QED
        BY <4>1 DEF HostfileAsked
    <3>7. CASE \E self \in 0..(MaxGroups - 1), name \in NodeNames, p \in NodeRefs :
                 DefLocationGroup(self, name, p)
      <4>1. otf2 = "definitions" /\ otf2' \in {otf2, "undefined"}
        BY <3>7, GroupShape
      <4> QED
        BY <4>1 DEF HostfileAsked
    <3>8. CASE \E self \in LocationRefs, type \in LocationTypes, g \in 0..(MaxGroups - 1) :
                 DefLocation(self, type, g)
      <4>1. otf2 = "definitions" /\ otf2' \in {otf2, "undefined"}
        BY <3>8, LocationShape DEF NewThread
      <4> QED
        BY <4>1 DEF HostfileAsked
    <3> QED
      BY <1>1, <3>1, <3>2, <3>3, <3>4, <3>5, <3>6, <3>7, <3>8 DEF Otf2Next
  <2> QED
    BY <1>1, <2>1, StringsOrdered, RegionsOrdered, GroupsOrdered, LocationsKeptApart,
       TypesStayEntered, StaysTimely DEF Otf2Ordered
<1>2. CASE UNCHANGED otf2Vars
  <2> USE <1>2 DEF otf2Vars, tables, archive, Otf2Ordered
  <2>1. StringsInOrder' /\ RegionsInOrder' /\ GroupsInOrder' /\ LocationsApart'
    BY DEF StringsInOrder, RegionsInOrder, GroupsInOrder, LocationsApart
  <2>2. TypesEntered'
    BY DEF TypesEntered, TreeMode, RunBy, ClassesEntered, Found
  <2>3. Timely' /\ HostfileAsked'
    BY DEF Timely, HostfileAsked, TreeMode, RunBy
  <2> QED
    BY <2>1, <2>2, <2>3
<1> QED
  BY <1>1, <1>2

-----------------------------------------------------------------------------
(***************************************************************************)
(* Why the tables are then used safely.                                    *)
(***************************************************************************)
\* The strings that definitions and events refer to can be read.
LEMMA StringsRead ==
  ASSUME Otf2Placed, Otf2Ordered, in_order, kinds > 0
  PROVE  strings = StringRefs
<1>1. strings_told = StringRefs
  BY DEF Otf2Placed, KindsInOrder
<1>2. strings = strings_told
  BY DEF Otf2Ordered, StringsInOrder
<1> QED
  BY <1>1, <1>2

\* The reader is told of references in order from the beginning.
LEMMA InOrderBefore ==
  ASSUME Otf2Next, in_order'
  PROVE  in_order
BY OrderSteps, TableSteps DEF DefString, DefSystemTreeNode, DefLocationGroup, DefLocation, OneOfKind

\* There are as many classes as there are types in the table.
LEMMA ClassesCounted ==
  ASSUME Otf2Placed, ClassesEntered
  PROVE  Cardinality(Classes) \in Nat /\ Cardinality(Classes) <= Len(typeTree)
<1> DEFINE k == Len(typeTree)
           f == [i \in 1..k |-> typeTree[i]]
<1>1. k \in Nat /\ nodes \in Seq(NodeDef) /\ DOMAIN nodes = 1..Len(nodes)
  BY DEF Otf2Placed, Otf2TypeOK
<1>2. /\ k <= Len(nodes) /\ Len(nodes) \in Nat
      /\ \A i \in 1..k : typeTree[i] = nodes[i].class
      /\ \A i \in 1..Len(nodes) : \E j \in 1..k : typeTree[j] = nodes[i].class
  BY <1>1 DEF ClassesEntered
<1>3. \A i \in 1..k : f[i] \in Classes
  <2>1. \A i \in 1..k : i \in DOMAIN nodes
    BY <1>1, <1>2
  <2> QED
    BY <1>2, <2>1 DEF Classes
<1>4. \A c \in Classes : \E i \in 1..k : f[i] = c
  BY <1>1, <1>2 DEF Classes
<1>5. f \in Surjection(1..k, Classes)
  BY <1>3, <1>4 DEF Surjection
<1> HIDE DEF f, k
<1>6. IsFiniteSet(1..k) /\ Cardinality(1..k) = k
  <2>1. 1 \in Int /\ k \in Int /\ (1 > k => k = 0) /\ k - 1 + 1 = k
    BY <1>1 DEF k
  <2> QED
    BY <2>1, FS_Interval
<1>7. IsFiniteSet(Classes) /\ Cardinality(Classes) <= k
  BY <1>5, <1>6, FS_Surjection
<1> QED
  BY <1>7, FS_CardinalityType DEF k

\* What classes that come first say of a node and of the last one.
LEMMA RepeatedOrNew ==
  ASSUME NEW s, NEW n \in Nat, NEW k \in Nat, k < n,
         \A i, j \in 1..(n + 1) : i < j =>
           \/ \E q \in 1..(j - 1) : s[q].class = s[j].class
           \/ \A q \in 1..(i - 1) : s[q].class # s[i].class
  PROVE  \/ \E q \in 1..n : s[q].class = s[n + 1].class
         \/ \A q \in 1..k : s[q].class # s[k + 1].class
<1>1. /\ k + 1 \in 1..(n + 1) /\ n + 1 \in 1..(n + 1) /\ k + 1 < n + 1
      /\ 1..(n + 1 - 1) = 1..n /\ 1..(k + 1 - 1) = 1..k
  OBVIOUS
<1>2. \/ \E q \in 1..(n + 1 - 1) : s[q].class = s[n + 1].class
      \/ \A q \in 1..(k + 1 - 1) : s[q].class # s[k + 1].class
  BY <1>1
<1> QED
  BY <1>1, <1>2

\* Where classes come first, the class that is not in the table is that of the node at its
\* end, and the type of what it is in is there.
LEMMA SafeNode ==
  ASSUME Otf2Placed, ClassesEntered, otf2 # "undefined", ~arguments.flat,
         NEW name, NEW class \in ClassNames, NEW parent \in {-1} \cup 0..(Len(nodes) - 1),
         nodes' = Append(nodes, NodeDefined(Len(nodes), name, class, parent)),
         NodeDefined(Len(nodes), name, class, parent) \in NodeDef,
         ClassesFirst'
  PROVE  ~BadType(Len(nodes), String(class), parent)
<1> DEFINE c == String(class)
           d == NodeDefined(Len(nodes), name, class, parent)
           k == Len(typeTree)
           m == Len(nodes)
<1>1. /\ nodes \in Seq(NodeDef) /\ m \in Nat /\ k \in Nat
      /\ d.class = c /\ d \in NodeDef /\ nodes' = Append(nodes, d)
  BY DEF Otf2Placed, Otf2TypeOK, NodeDefined
<1>2. /\ k <= m /\ \A i \in 1..k : typeTree[i] = nodes[i].class
      /\ \A i \in 1..m : \E j \in 1..k : typeTree[j] = nodes[i].class
  BY DEF ClassesEntered
<1>3. /\ Found(c) <=> \E i \in 1..k : typeTree[i] = c
      /\ ~Astray(c)
      /\ \A i \in 1..k : typeTree[i] # Uninitialized
  BY ClassesFound
<1> HIDE DEF d
<1>4. /\ DOMAIN nodes' = 1..(m + 1) /\ nodes'[m + 1] = d
      /\ \A i \in 1..m : nodes'[i] = nodes[i]
  BY <1>1
<1>5. \A i, j \in 1..(m + 1) : i < j =>
        \/ \E q \in 1..(j - 1) : nodes'[q].class = nodes'[j].class
        \/ \A q \in 1..(i - 1) : nodes'[q].class # nodes'[i].class
  BY <1>4 DEF ClassesFirst
<1> HIDE DEF c, k, m
<1>6. SUFFICES ASSUME ~Found(c)
               PROVE  ~(m > k) /\ TypeOf(parent) # Uninitialized
  BY <1>3 DEF BadType, c, m, k
<1>7. k = m
  <2>1. SUFFICES ASSUME k < m PROVE FALSE
    BY <1>1, <1>2 DEF k, m
  <2>2. /\ k + 1 \in 1..m /\ k + 1 \in 1..(m + 1) /\ m + 1 \in 1..(m + 1) /\ k + 1 < m + 1
        /\ m + 1 - 1 = m /\ k + 1 - 1 = k /\ \A q \in 1..k : q \in 1..m
    BY <1>1, <2>1 DEF k, m
  <2>3. \/ \E q \in 1..m : nodes'[q].class = nodes'[m + 1].class
        \/ \A q \in 1..k : nodes'[q].class # nodes'[k + 1].class
    BY <1>1, <1>5, <2>1, RepeatedOrNew DEF k, m
  <2>4. CASE \E q \in 1..m : nodes'[q].class = nodes'[m + 1].class
    <3>1. PICK q \in 1..m : nodes[q].class = c
      BY <1>1, <1>4, <2>4
    <3> QED
      BY <1>2, <1>3, <1>6, <3>1
  <2>5. CASE \A q \in 1..k : nodes'[q].class # nodes'[k + 1].class
    <3>1. PICK j \in 1..k : typeTree[j] = nodes[k + 1].class
      BY <1>2, <2>2
    <3> QED
      BY <1>2, <1>4, <2>2, <2>5, <3>1
  <2> QED
    BY <2>3, <2>4, <2>5
<1>8. TypeOf(parent) # Uninitialized
  <2>1. CASE parent = -1
    BY <2>1 DEF TypeOf, Uninitialized
  <2>2. CASE parent # -1
    <3>1. parent < k /\ parent + 1 \in 1..k
      BY <1>1, <1>7, <2>2 DEF k, m
    <3> QED
      BY <1>3, <2>2, <3>1 DEF TypeOf, k
  <2> QED
    BY <2>1, <2>2
<1> QED
  BY <1>1, <1>7, <1>8 DEF k, m

LEMMA NodeSafe ==
  ASSUME Otf2Placed, Otf2Ordered, TreeMode', SafeArchive', Otf2Next,
         NEW self \in NodeRefs, NEW name \in NodeNames, NEW class \in ClassNames,
         NEW parent \in {-1} \cup NodeRefs, DefSystemTreeNode(self, name, class, parent)
  PROVE  otf2' # "undefined"
<1>1. /\ otf2 = "definitions" /\ kinds <= 2 /\ kinds' = 2 /\ strings_told = StringRefs
      /\ in_order' = (in_order /\ self = Len(nodes))
      /\ nodes' = Append(nodes, NodeDefined(self, name, class, parent))
      /\ NodeDefined(self, name, class, parent) \in NodeDef
      /\ UNCHANGED <<strings, arguments, location_defs>>
      /\ ~arguments.flat => parent \in {-1} \cup 0..(Len(nodes) - 1)
  BY NodeShape
<1>2. TreeMode /\ ~arguments.flat /\ ~arguments.hostfile
  BY <1>1 DEF TreeMode, RunBy
<1>3. in_order /\ self = Len(nodes) /\ ClassesFirst'
  BY <1>1 DEF SafeArchive
<1>4. location_defs = <<>>
  BY <1>1 DEF Otf2Placed, Otf2TypeOK, KindsInOrder
<1>5. ClassesEntered
  BY <1>1, <1>2, <1>4 DEF Otf2Ordered, TypesEntered
<1>6. ~BadType(self, String(class), parent)
  BY <1>1, <1>2, <1>3, <1>5, SafeNode
<1>7. {name, class} \ strings = {}
  <2>1. strings = strings_told
    BY <1>3 DEF Otf2Ordered, StringsInOrder
  <2> QED
    BY <1>1, <2>1, Strings
<1>8. ~(self > Len(containerTree))
  BY <1>1, <1>2, <1>3, NodesBelow
<1>9. TreeNode(self, name, class, parent)
  BY <1>2, Zenon DEF DefSystemTreeNode
<1>10. otf2' = otf2
  BY <1>6, <1>7, <1>8, <1>9, Zenon DEF TreeNode
<1> QED
  BY <1>1, <1>10

\* The group of a location in order is at its number.
LEMMA GroupOf ==
  ASSUME Otf2Placed, Otf2Ordered, in_order, TreeMode,
         NEW g, g \in {group_defs[i].self : i \in DOMAIN group_defs}
  PROVE  /\ g \in 0..(Len(groups) - 1) /\ g < Len(groups) /\ g + 1 \in DOMAIN group_defs
         /\ groups[g + 1] = group_defs[g + 1].parent
         /\ \A i \in DOMAIN group_defs : group_defs[i].self = g <=> i = g + 1
<1>1. /\ DOMAIN group_defs = 1..Len(group_defs) /\ Len(group_defs) \in Nat
      /\ Len(groups) = Len(group_defs)
      /\ \A i \in 1..Len(groups) : groups[i] = group_defs[i].parent
  BY DEF Otf2Placed, Otf2TypeOK, GroupsPlaced, TreeMode
<1>2. \A i \in 1..Len(group_defs) : group_defs[i].self = i - 1
  BY DEF Otf2Ordered, GroupsInOrder
<1>3. PICK j \in 1..Len(group_defs) : group_defs[j].self = g
  BY <1>1
<1>4. g = j - 1 /\ g \in 0..(Len(groups) - 1) /\ g + 1 = j
  BY <1>1, <1>2, <1>3
<1> QED
  BY <1>1, <1>2, <1>4

LEMMA LocationSafe ==
  ASSUME Otf2Placed, Otf2Ordered, TreeMode', SafeArchive', Otf2Next,
         NEW self \in LocationRefs, NEW type \in LocationTypes,
         NEW group \in 0..(MaxGroups - 1), DefLocation(self, type, group)
  PROVE  otf2' # "undefined"
<1> DEFINE d == [self |-> self, type |-> type, group |-> group]
           node == groups[group + 1]
<1>1. /\ otf2 = "definitions" /\ in_order' = in_order
      /\ location_defs' = Append(location_defs, d)
      /\ UNCHANGED <<nodes, group_defs, groups, arguments>>
      /\ group \in {group_defs[i].self : i \in DOMAIN group_defs}
  BY LocationShape
<1>2. TreeMode /\ ~arguments.flat /\ ~arguments.hostfile
  BY <1>1 DEF TreeMode, RunBy
<1>3. in_order /\ FirstThreadFits'
  BY <1>1 DEF SafeArchive
<1>4. /\ group < Len(groups) /\ groups[group + 1] = group_defs[group + 1].parent
      /\ \A i \in DOMAIN group_defs : group_defs[i].self = group <=> i = group + 1
      /\ group + 1 \in DOMAIN group_defs
  BY <1>1, <1>2, <1>3, GroupOf
<1>5. d \in LocationDef /\ d.type = type /\ d.group = group /\ location_defs \in Seq(LocationDef)
  BY DEF LocationDef, Otf2Placed, Otf2TypeOK
<1> HIDE DEF d
<1>6. NodeOf(d)' = node
  <2>1. \A i \in DOMAIN group_defs' : group_defs'[i].self = d.group <=> i = group + 1
    BY <1>1, <1>4, <1>5
  <2>2. group + 1 \in DOMAIN group_defs'
    BY <1>1, <1>4
  <2>3. (CHOOSE i \in DOMAIN group_defs' : group_defs'[i].self = d.group) = group + 1
    BY <2>1, <2>2
  <2> QED
    BY <1>1, <1>4, <2>3 DEF NodeOf
<1>7. ~BadType(type, "thread", node)
  <2>1. CASE location_defs = <<>>
    <3>1. location_defs' # <<>> /\ location_defs'[1] = d
      BY <1>1, <1>5, <2>1
    <3>2. type <= Cardinality(Classes') /\ NodeOf(d)' < Cardinality(Classes')
      BY <1>3, <1>5, <3>1 DEF FirstThreadFits
    <3>3. Classes' = Classes
      BY <1>1 DEF Classes
    <3>4. ClassesEntered
      BY <1>1, <1>2, <2>1 DEF Otf2Ordered, TypesEntered
    <3>5. Len(typeTree) \in Nat /\ type \in Nat /\ node \in 0..(Len(nodes) - 1)
      <4>1. Len(typeTree) \in Nat /\ type \in Nat /\ DOMAIN group_defs = 1..Len(group_defs)
        BY Strings DEF Otf2Placed, Otf2TypeOK
      <4>2. node \in 0..(Len(nodes) - 1)
        BY <1>1, <1>2, <1>4, <4>1 DEF Otf2Placed, GroupsPlaced
      <4> QED
        BY <4>1, <4>2
    <3>6. type <= Len(typeTree) /\ node < Len(typeTree)
      <4> HIDE DEF node
      <4>1. Cardinality(Classes) \in Nat /\ Cardinality(Classes) <= Len(typeTree)
        BY <3>4, ClassesCounted
      <4>2. Len(nodes) \in Nat
        BY DEF Otf2Placed, Otf2TypeOK
      <4> QED
        BY <1>6, <3>2, <3>3, <3>5, <4>1, <4>2
    <3>7. TypeOf(node) # Uninitialized
      <4>1. node # -1 /\ node + 1 \in 1..Len(typeTree)
        BY <3>5, <3>6
      <4> QED
        BY <3>4, <3>6, <4>1, ClassesFound DEF TypeOf
    <3> HIDE DEF node
    <3>8. ~Astray("thread")
      BY <3>4, ClassesFound
    <3> QED
      BY <3>5, <3>6, <3>7, <3>8 DEF BadType
  <2>2. CASE location_defs # <<>>
    <3>1. Found("thread")
      BY <1>1, <1>2, <2>2 DEF Otf2Ordered, TypesEntered
    <3>2. ~Astray("thread")
      <4>1. DOMAIN typeTree = 1..Len(typeTree)
        BY DEF Otf2Placed, Otf2TypeOK
      <4> QED
        BY <3>1, <4>1 DEF Found, Astray
    <3> QED
      BY <3>1, <3>2 DEF BadType
  <2> QED
    BY <2>1, <2>2
<1>8. ~(group >= Len(groups))
  BY <1>4 DEF Otf2Placed, Otf2TypeOK
<1> HIDE DEF node
<1>9. otf2' = otf2
  BY <1>7, <1>8, Zenon DEF DefLocation, node
<1> QED
  BY <1>1, <1>9

LEMMA EventSafe ==
  ASSUME Otf2Placed, Otf2Ordered, SafeArchive', Otf2Next,
         NEW l \in LocationRefs, NEW r \in RegionRefs, EnterRegion(l, r) \/ LeaveRegion(l, r)
  PROVE  otf2' # "undefined"
<1>1. PICK u : Enters(l, r, u) \/ Leaves(l, r, u)
  BY EnterPlaced, LeavePlaced
<1>2. in_order
  BY InOrderBefore DEF SafeArchive
<1>3. r \in regions_told /\ otf2 = "events"
      /\ (otf2' = otf2 \/ ~Readable(r))
  BY <1>1 DEF Enters, Leaves
<1>4. kinds > 0
  BY <1>3 DEF Otf2Placed, Otf2TypeOK, KindsInOrder
<1>5. Readable(r)
  <2>1. regions = regions_told
    BY <1>2 DEF Otf2Ordered, RegionsInOrder
  <2> QED
    BY <1>2, <1>3, <1>4, <2>1, StringsRead, Strings DEF Readable
<1> QED
  BY <1>3, <1>5

LEMMA StaysSafe ==
  ASSUME Otf2Placed, Otf2Ordered, Otf2SafeTree, Otf2Next \/ UNCHANGED otf2Vars
  PROVE  Otf2SafeTree'
<1>1. CASE Otf2Next
  <2> SUFFICES ASSUME TreeMode', SafeArchive' PROVE otf2' # "undefined"
    BY DEF Otf2SafeTree
  <2>1. CASE ChooseHierarchy \/ HostfileEnds \/ DefinitionsEnd
    BY <2>1 DEF ChooseHierarchy, HostfileEnds, DefinitionsEnd
  <2>2. CASE ReadHostLine
    BY <2>2 DEF ReadHostLine, unread, Otf2Ordered, HostfileAsked, TreeMode, RunBy
  <2>3. CASE (\E s \in StringRefs : DefString(s)) \/ (\E r \in RegionRefs : DefRegion(r))
    BY <2>3 DEF DefString, DefRegion, OneOfKind
  <2>4. CASE \E self \in NodeRefs, name \in NodeNames, class \in ClassNames,
               p \in {-1} \cup NodeRefs : DefSystemTreeNode(self, name, class, p)
    BY <1>1, <2>4, NodeSafe
  <2>5. CASE \E self \in 0..(MaxGroups - 1), name \in NodeNames, p \in NodeRefs :
               DefLocationGroup(self, name, p)
    <3>1. otf2 = "definitions" /\ UNCHANGED arguments
          /\ (arguments.hostfile \/ arguments.flat \/ otf2' = otf2)
      BY <2>5, GroupShape
    <3> QED
      BY <3>1 DEF TreeMode, RunBy
  <2>6. CASE \E self \in LocationRefs, type \in LocationTypes, g \in 0..(MaxGroups - 1) :
               DefLocation(self, type, g)
    BY <1>1, <2>6, LocationSafe
  <2>7. CASE \E l \in LocationRefs, r \in RegionRefs : EnterRegion(l, r) \/ LeaveRegion(l, r)
    BY <1>1, <2>7, EventSafe
  <2>8. CASE Otf2Close
    BY <2>8 DEF Otf2Close
  <2> QED
    BY <1>1, <2>1, <2>2, <2>3, <2>4, <2>5, <2>6, <2>7, <2>8 DEF Otf2Next
<1>2. CASE UNCHANGED otf2Vars
  BY <1>2 DEF otf2Vars, tables, archive, Otf2SafeTree, TreeMode, RunBy, SafeArchive,
     ClassesFirst, FirstThreadFits, NodeOf, Classes
<1> QED
  BY <1>1, <1>2

\* No use of the tables of otf22paje goes wrong on an archive of any size that comes in order,
\* brings each class before it repeats one, and has its first location where the table of
\* types has room for it.
THEOREM Otf2TreeIsSafe ==
  Otf2Spec /\ arguments \in CommandLines /\ RunBy("otf22paje") => []Otf2SafeTree
<1>1. Otf2Init /\ arguments \in CommandLines /\ RunBy("otf22paje")
        => Otf2Placed /\ Otf2Ordered /\ Otf2SafeTree
  <2> SUFFICES ASSUME Otf2Init, arguments \in CommandLines, RunBy("otf22paje")
               PROVE  Otf2Placed /\ Otf2Ordered /\ Otf2SafeTree
    OBVIOUS
  <2>1. otf2 # "undefined"
    BY DEF Otf2Init, Otf2Start
  <2> QED
    BY <2>1, PlacedInit, OrderedInit DEF Otf2SafeTree
<1>2. Otf2Placed /\ Otf2Ordered /\ Otf2SafeTree /\ [Otf2Next]_otf2Vars
        => (Otf2Placed /\ Otf2Ordered /\ Otf2SafeTree)'
  BY Otf2PlacedKeeps, OrderedKeeps, StaysSafe
<1> QED
  BY <1>1, <1>2, PTL DEF Otf2Spec

-----------------------------------------------------------------------------
(***************************************************************************)
(* The printed tree: what each step does to the containers.                *)
(***************************************************************************)
\* Steps that define no node, group or location.
LEMMA TreeStays ==
  ASSUME TreePrinted, UNCHANGED <<nodes, groups, location_defs, arguments>>,
         in_order' => in_order, otf2' # "undefined" => otf2 # "undefined",
         otf2' # "closed" => otf2 # "closed",
         TreeMode => /\ paje'.kind = paje.kind /\ paje'.parent = paje.parent
                     /\ paje'.types = paje.types,
         Plain /\ otf2' # "undefined" /\ RefusedEnds => RefusedEnds'
  PROVE  TreePrinted'
<1> SUFFICES ASSUME Plain' PROVE (NodesThere /\ ThreadsThere /\ NoOthers /\ RefusedEnds)'
  BY DEF TreePrinted
<1> USE DEF ClassAbove, NodeBelow, Above
<1>1. Plain /\ otf2' # "undefined"
  BY DEF Plain, PlainTree, TreeMode, RunBy
<1>2. NodesThere /\ ThreadsThere /\ NoOthers /\ RefusedEnds'
  BY <1>1 DEF TreePrinted
<1>3. paje'.kind = paje.kind /\ paje'.parent = paje.parent /\ paje'.types = paje.types
  BY <1>1 DEF Plain
<1>4. NodesThere'
  BY <1>2, <1>3 DEF NodesThere
<1>5. ThreadsThere'
  BY <1>2, <1>3 DEF ThreadsThere
<1>6. NoOthers'
  BY <1>2, <1>3 DEF NoOthers
<1> QED
  BY <1>2, <1>4, <1>5, <1>6

\* The type of a container of a node.
LEMMA KindAbove ==
  ASSUME Otf2Placed, Plain, NodesThere, NoOthers, NEW p \in {-1} \cup 0..(Len(nodes) - 1)
  PROVE  paje.kind[ContainerOf(p)] = IF p = -1 THEN "0" ELSE nodes[p + 1].class
<1>1. CASE p = -1
  BY <1>1 DEF ContainerOf, NoOthers
<1>2. CASE p # -1
  <2>1. p + 1 \in 1..Len(nodes) /\ ContainerOf(p) = Named(nodes[p + 1].name)
    BY <1>2, NodesBelow DEF Plain, TreeMode
  <2> QED
    BY <1>2, <2>1 DEF NodesThere
<1> QED
  BY <1>1, <1>2

\* Containers of texts and of threads.
LEMMA NamesApart ==
  /\ \A a, b : Named(a) = Named(b) => a = b
  /\ \A l : Thread(l) # World
BY DEF Named, Thread, World

\* A node more, behind m others.
LEMMA NodesMore ==
  ASSUME Otf2Placed, otf2 # "undefined", ~arguments.flat, NEW d \in NodeDef,
         nodes' = Append(nodes, d), d.parent \in {-1} \cup 0..(Len(nodes) - 1),
         NEW m, m = Len(nodes)
  PROVE  /\ m \in Nat /\ Len(nodes') = m + 1 /\ nodes'[m + 1] = d
         /\ \A i \in 1..m :
              /\ nodes'[i] = nodes[i] /\ i \in 1..(m + 1) /\ i # m + 1
              /\ ClassAbove(i)' = ClassAbove(i) /\ Above(i)' = Above(i)
         /\ \A i \in 1..(m + 1) : i \in 1..m \/ i = m + 1
         /\ m + 1 \in 1..(m + 1)
         /\ ClassAbove(m + 1)' = IF d.parent = -1 THEN "0" ELSE nodes[d.parent + 1].class
         /\ Above(m + 1)' = ContainerOf(d.parent)
<1>1. /\ nodes \in Seq(NodeDef) /\ m \in Nat
      /\ \A i \in 1..m : nodes[i].parent \in -1..(i - 2)
  BY DEF Otf2Placed, Otf2TypeOK, NodesPlaced
<1>2. /\ Len(nodes') = m + 1 /\ nodes'[m + 1] = d
      /\ \A i \in 1..m : nodes'[i] = nodes[i] /\ i \in 1..(m + 1) /\ i # m + 1
      /\ \A i \in 1..(m + 1) : i \in 1..m \/ i = m + 1
      /\ m + 1 \in 1..(m + 1)
  BY <1>1
<1>3. ASSUME NEW i \in 1..m
      PROVE  ClassAbove(i)' = ClassAbove(i) /\ Above(i)' = Above(i)
  <2>1. nodes[i].parent = -1 \/ nodes[i].parent + 1 \in 1..m
    BY <1>1
  <2>2. nodes[i].parent # -1 => nodes'[nodes[i].parent + 1] = nodes[nodes[i].parent + 1]
    BY <1>2, <2>1
  <2> QED
    BY <1>2, <2>2 DEF ClassAbove, Above
<1>4. d.parent # -1 =>
        /\ nodes'[d.parent + 1] = nodes[d.parent + 1]
        /\ ContainerOf(d.parent) = Named(nodes[d.parent + 1].name)
  BY <1>2, NodesBelow
<1>5. ClassAbove(m + 1)' = IF d.parent = -1 THEN "0" ELSE nodes[d.parent + 1].class
  BY <1>2, <1>4 DEF ClassAbove
<1>6. Above(m + 1)' = ContainerOf(d.parent)
  BY <1>2, <1>4 DEF Above, ContainerOf
<1> QED
  BY <1>1, <1>2, <1>3, <1>5, <1>6

\* A new node: an archive that was told so far was plain.
LEMMA PlainNode ==
  ASSUME Otf2Placed, otf2 = "definitions", Plain', NEW d \in NodeDef,
         nodes' = Append(nodes, d), d.parent \in {-1} \cup 0..(Len(nodes) - 1),
         in_order' => in_order, UNCHANGED <<arguments, location_defs>>,
         location_defs = <<>>
  PROVE  Plain
<1> DEFINE m == Len(nodes)
<1>1. TreeMode /\ ~arguments.flat /\ in_order /\ PlainTree'
  BY DEF Plain, TreeMode, RunBy
<1>2. /\ m \in Nat /\ Len(nodes') = m + 1
      /\ \A i \in 1..m : nodes'[i] = nodes[i] /\ i \in 1..(m + 1)
                           /\ ClassAbove(i)' = ClassAbove(i)
  BY <1>1, NodesMore
<1>3. /\ \A i \in 1..(m + 1) :
           /\ Named(nodes'[i].name) \notin {World} \cup {Thread(l) : l \in LocationRefs}
           /\ nodes'[i].class # "thread"
      /\ \A i, j \in 1..(m + 1) : i # j =>
           /\ nodes'[i].name # nodes'[j].name
           /\ nodes'[i].class = nodes'[j].class => ClassAbove(i)' = ClassAbove(j)'
  BY <1>1, <1>2 DEF PlainTree
<1> HIDE DEF m
<1>4. /\ \A i \in 1..m :
           /\ Named(nodes[i].name) \notin {World} \cup {Thread(l) : l \in LocationRefs}
           /\ nodes[i].class # "thread"
      /\ \A i, j \in 1..m : i # j =>
           /\ nodes[i].name # nodes[j].name
           /\ nodes[i].class = nodes[j].class => ClassAbove(i) = ClassAbove(j)
  BY <1>2, <1>3
<1>5. PlainTree
  BY <1>4 DEF PlainTree, m
<1> QED
  BY <1>1, <1>5 DEF Plain

\* Its container is new and in that of its parent, whose type is that in which its class is
\* defined.
LEMMA NodeKeepsTree ==
  ASSUME Otf2Placed, Otf2Ordered, TreePrinted, NEW self \in NodeRefs, NEW name \in NodeNames,
         NEW class \in ClassNames, NEW parent \in {-1} \cup NodeRefs,
         DefSystemTreeNode(self, name, class, parent)
  PROVE  TreePrinted'
<1> SUFFICES ASSUME Plain' PROVE (NodesThere /\ ThreadsThere /\ NoOthers /\ RefusedEnds)'
  BY DEF TreePrinted
<1> DEFINE d == NodeDefined(self, name, class, parent)
           c == String(class)
           nm == String(name)
           at == Named(nm)
           top == IF parent = -1 THEN "0" ELSE nodes[parent + 1].class
<1>1. /\ otf2 = "definitions" /\ kinds <= 2 /\ (in_order' => in_order)
      /\ nodes' = Append(nodes, d) /\ d \in NodeDef
      /\ UNCHANGED <<arguments, location_defs>>
      /\ ~arguments.flat => parent \in {-1} \cup 0..(Len(nodes) - 1)
  BY NodeShape
<1>2. TreeMode /\ ~arguments.flat /\ ~arguments.hostfile /\ ~arguments.dummy
      /\ otf2' # "undefined"
  BY <1>1 DEF Plain, TreeMode, RunBy
<1>3. PICK n, u : NewNode(self, name, class, parent, n, u)
  BY <1>2, NodeShape
<1>4. location_defs = <<>>
  BY <1>1 DEF Otf2Placed, Otf2TypeOK, KindsInOrder
<1>5. /\ d.name = nm /\ d.class = c /\ d.parent = parent
      /\ nm \in Text /\ c \in Text /\ at \in Containers
  BY Strings, NamedContainers DEF NodeDefined
<1>6. ClassesEntered /\ (~Found(c) => Len(typeTree) = Len(nodes))
      /\ (Found(c) <=> \E i \in 1..Len(typeTree) : typeTree[i] = c)
  <2>1. ClassesEntered
    BY <1>1, <1>2, <1>4 DEF Otf2Ordered, TypesEntered
  <2> QED
    BY <1>1, <1>3, <2>1, NodeEntered, ClassesFound
<1> HIDE DEF d
<1>7. Plain
  BY <1>1, <1>2, <1>4, <1>5, PlainNode
<1>8. NodesThere /\ NoOthers /\ paje.refused = {}
  BY <1>1, <1>7, NoneRefused DEF TreePrinted
<1>9. PICK m : m = Len(nodes)
  OBVIOUS
<1>10. /\ m \in Nat /\ Len(nodes') = m + 1 /\ nodes'[m + 1] = d
       /\ \A i \in 1..m :
            /\ nodes'[i] = nodes[i] /\ i \in 1..(m + 1) /\ i # m + 1
            /\ ClassAbove(i)' = ClassAbove(i) /\ Above(i)' = Above(i)
       /\ \A i \in 1..(m + 1) : i \in 1..m \/ i = m + 1
       /\ m + 1 \in 1..(m + 1)
       /\ ClassAbove(m + 1)' = top /\ Above(m + 1)' = ContainerOf(parent)
  BY <1>1, <1>2, <1>5, <1>9, NodesMore
<1>11. /\ at \notin {World} \cup {Thread(l) : l \in LocationRefs}
       /\ \A i \in 1..m : /\ nodes[i].name # nm
                          /\ nodes[i].class = c => ClassAbove(i) = top
  BY <1>5, <1>10 DEF Plain, PlainTree
<1>12. paje.kind[at] = "none"
  BY <1>5, <1>8, <1>9, <1>11 DEF NoOthers
<1>13. paje.kind[ContainerOf(parent)] = top
  BY <1>1, <1>2, <1>7, <1>8, KindAbove
<1>14. /\ n.types = IF Found(c) THEN paje.types ELSE paje.types \cup {<<c, TypeOf(parent)>>}
       /\ n.kind = paje.kind /\ n.parent = paje.parent /\ n.refused = paje.refused
       /\ Creates(Text, {}, n, u, 0, at, c, ContainerOf(parent))
       /\ ContainerOf(parent) \in Containers /\ paje' = u
  BY <1>2, <1>3 DEF NewNode
<1>15. <<c, top>> \in n.types /\ paje.types \subseteq n.types
  <2>1. CASE Found(c)
    <3>1. PICK i \in 1..m : nodes[i].class = c
      <4>1. PICK j \in 1..Len(typeTree) : typeTree[j] = c
        BY <1>6, <2>1
      <4>2. typeTree[j] = nodes[j].class /\ Len(typeTree) <= m
        BY <1>6, <1>9 DEF ClassesEntered
      <4>3. j \in 1..m
        BY <1>10, <4>2 DEF Otf2Placed, Otf2TypeOK
      <4> QED
        BY <4>1, <4>2, <4>3
    <3>2. <<nodes[i].class, ClassAbove(i)>> \in paje.types
      BY <1>8, <1>9 DEF NodesThere
    <3> QED
      BY <1>11, <1>14, <2>1, <3>1, <3>2
  <2>2. CASE ~Found(c)
    <3>1. TypeOf(parent) = top
      <4>1. CASE parent = -1
        BY <4>1 DEF TypeOf
      <4>2. CASE parent # -1
        <5>1. parent \in 0..(m - 1) /\ parent + 1 \in 1..m /\ Len(typeTree) = m
          BY <1>1, <1>2, <1>6, <1>9, <1>10, <2>2, <4>2
        <5>2. typeTree[parent + 1] = nodes[parent + 1].class
          BY <1>6, <5>1 DEF ClassesEntered
        <5> QED
          BY <1>10, <4>2, <5>1, <5>2 DEF TypeOf
      <4> QED
        BY <4>1, <4>2
    <3> QED
      BY <1>14, <2>2, <3>1
  <2> QED
    BY <2>1, <2>2
<1> HIDE DEF top
<1>16. /\ paje'.kind = [paje.kind EXCEPT ![at] = c]
       /\ paje'.parent = [paje.parent EXCEPT ![at] = ContainerOf(parent)]
       /\ paje'.types = n.types /\ paje'.refused = {}
  <2>1. u.refused = n.refused \cup Refusals(n.kind[at] # "none", "again", at)
          \cup Refusals(<<c, n.kind[ContainerOf(parent)]>> \notin n.types, "untyped", at)
    BY <1>14 DEF Creates
  <2>2. u.refused = {}
    BY <1>8, <1>12, <1>13, <1>14, <1>15, <2>1 DEF Refusals
  <2> QED
    BY <1>14, <2>2 DEF Creates
<1> HIDE DEF at, nm, c
<1>17. /\ paje'.kind[at] = c /\ paje'.parent[at] = ContainerOf(parent)
       /\ \A x \in Containers : x # at => /\ paje'.kind[x] = paje.kind[x]
                                          /\ paje'.parent[x] = paje.parent[x]
  <2>1. paje.kind \in [Containers -> Kinds] /\ paje.parent \in [Containers -> Containers]
    BY DEF Otf2Placed, Otf2TypeOK, TraceOf
  <2> QED
    BY <1>5, <1>16, <2>1
<1>18. \A text \in Text : text = nm \/ (Named(text) # at /\ Named(text) \in Containers)
  BY NamedContainers, NamesApart DEF at
<1>19. \A i \in 1..m : nodes[i].name \in Text
  <2>1. nodes \in Seq(NodeDef)
    BY DEF Otf2Placed, Otf2TypeOK
  <2>2. \A i \in 1..m : nodes[i] \in NodeDef
    BY <1>9, <2>1
  <2> QED
    BY <2>2 DEF NodeDef
<1>20. NodesThere'
  <2>1. ASSUME NEW i \in 1..(m + 1)
        PROVE  /\ paje'.kind[Named(nodes'[i].name)] = nodes'[i].class
               /\ paje'.parent[Named(nodes'[i].name)] = Above(i)'
               /\ <<nodes'[i].class, ClassAbove(i)'>> \in paje'.types
    <3>1. CASE i = m + 1
      <4>1. nodes'[i] = d /\ ClassAbove(i)' = top /\ Above(i)' = ContainerOf(parent)
        BY <1>10, <3>1
      <4> QED
        BY <1>5, <1>15, <1>16, <1>17, <4>1 DEF at
    <3>2. CASE i \in 1..m
      <4>1. /\ nodes'[i] = nodes[i] /\ ClassAbove(i)' = ClassAbove(i) /\ Above(i)' = Above(i)
            /\ Named(nodes[i].name) # at /\ Named(nodes[i].name) \in Containers
        BY <1>10, <1>11, <1>18, <1>19, <3>2
      <4>2. /\ paje.kind[Named(nodes[i].name)] = nodes[i].class
            /\ paje.parent[Named(nodes[i].name)] = Above(i)
            /\ <<nodes[i].class, ClassAbove(i)>> \in paje.types
        BY <1>8, <1>9, <3>2 DEF NodesThere
      <4> QED
        BY <1>15, <1>16, <1>17, <4>1, <4>2
    <3> QED
      BY <1>10, <3>1, <3>2
  <2> QED
    BY <1>10, <2>1 DEF NodesThere
<1>21. ThreadsThere'
  BY <1>1, <1>4 DEF ThreadsThere
<1>22. NoOthers'
  <2>1. paje'.kind[World] = "0"
    BY <1>8, <1>11, <1>17, NamedContainers DEF NoOthers
  <2>2. \A l \in LocationRefs : paje'.kind[Thread(l)] = paje.kind[Thread(l)]
    BY <1>11, <1>17, NamedContainers
  <2>3. ASSUME NEW text \in Text
        PROVE  \/ Named(text) \in {World} \cup {Thread(l) : l \in LocationRefs}
               \/ \E i \in 1..Len(nodes') : nodes'[i].name = text
               \/ paje'.kind[Named(text)] = "none"
    <3>1. CASE text = nm
      BY <1>5, <1>10, <3>1
    <3>2. CASE text # nm
      <4>1. paje'.kind[Named(text)] = paje.kind[Named(text)]
        BY <1>17, <1>18, <3>2
      <4>2. \/ Named(text) \in {World} \cup {Thread(l) : l \in LocationRefs}
            \/ \E i \in 1..m : nodes[i].name = text
            \/ paje.kind[Named(text)] = "none"
        BY <1>8, <1>9 DEF NoOthers
      <4> QED
        BY <1>10, <4>1, <4>2
    <3> QED
      BY <3>1, <3>2
  <2> QED
    BY <1>1, <1>8, <2>1, <2>2, <2>3 DEF NoOthers
<1>23. RefusedEnds'
  BY <1>16 DEF RefusedEnds
<1> QED
  BY <1>20, <1>21, <1>22, <1>23

\* A group makes no container.
LEMMA GroupKeepsTree ==
  ASSUME Otf2Placed, TreePrinted, NEW self \in 0..(MaxGroups - 1), NEW name \in NodeNames,
         NEW parent \in NodeRefs, DefLocationGroup(self, name, parent)
  PROVE  TreePrinted'
<1> SUFFICES ASSUME Plain' PROVE (NodesThere /\ ThreadsThere /\ NoOthers /\ RefusedEnds)'
  BY DEF TreePrinted
<1>1. /\ otf2 = "definitions" /\ kinds <= 3 /\ (in_order' => in_order)
      /\ UNCHANGED <<arguments, nodes, location_defs>>
  BY GroupShape
<1>2. TreeMode /\ ~arguments.flat /\ ~arguments.hostfile /\ ~arguments.dummy
  BY <1>1 DEF Plain, TreeMode, RunBy
<1>3. paje' = paje /\ otf2' = otf2
  BY <1>2, GroupShape
<1>4. location_defs = <<>>
  BY <1>1 DEF Otf2Placed, Otf2TypeOK, KindsInOrder
<1>5. PlainTree
  BY <1>1, <1>4 DEF Plain, PlainTree, ClassAbove
<1>6. NodesThere /\ NoOthers /\ paje.refused = {}
  BY <1>1, <1>2, <1>5, NoneRefused DEF TreePrinted, Plain
<1>7. NodesThere'
  BY <1>1, <1>3, <1>6 DEF NodesThere, ClassAbove, Above
<1>8. ThreadsThere'
  BY <1>1, <1>4 DEF ThreadsThere
<1>9. NoOthers'
  BY <1>1, <1>3, <1>6 DEF NoOthers
<1>10. RefusedEnds'
  BY <1>3, <1>6 DEF RefusedEnds
<1> QED
  BY <1>7, <1>8, <1>9, <1>10

\* A location makes a container in the node of its group, whose type is that in which
\* "thread" was defined for the first one.
LEMMA LocationKeepsTree ==
  ASSUME Otf2Placed, Otf2Ordered, TreePrinted, NEW self \in LocationRefs,
         NEW type \in LocationTypes, NEW group \in 0..(MaxGroups - 1),
         DefLocation(self, type, group)
  PROVE  TreePrinted'
<1> SUFFICES ASSUME Plain' PROVE (NodesThere /\ ThreadsThere /\ NoOthers /\ RefusedEnds)'
  BY DEF TreePrinted
<1> DEFINE d == [self |-> self, type |-> type, group |-> group]
           node == groups[group + 1]
           c == nodes[node + 1].class
           at == Thread(self)
<1>1. /\ otf2 = "definitions" /\ in_order' = in_order
      /\ location_defs' = Append(location_defs, d)
      /\ UNCHANGED <<arguments, nodes, groups>>
      /\ self \notin {location_defs[i].self : i \in DOMAIN location_defs}
  BY LocationShape
<1>2. TreeMode /\ ~arguments.flat /\ ~arguments.hostfile /\ ~arguments.dummy
      /\ otf2' # "undefined" /\ in_order /\ PlainTree'
  BY <1>1 DEF Plain, TreeMode, RunBy
<1>3. PICK n, u : NewThread(self, type, group, node, n, u)
  BY <1>2, LocationShape
<1>4. d \in LocationDef /\ d.self = self /\ d.group = group
  BY DEF LocationDef
<1> HIDE DEF d
<1>5. PICK m : m = Len(location_defs)
  OBVIOUS
<1>6. /\ m \in Nat /\ Len(location_defs') = m + 1 /\ location_defs'[m + 1] = d
      /\ \A i \in 1..m : location_defs'[i] = location_defs[i] /\ i \in 1..(m + 1)
      /\ \A i \in 1..(m + 1) : i \in 1..m \/ i = m + 1
      /\ m + 1 \in 1..(m + 1) /\ DOMAIN location_defs = 1..m
      /\ \A i \in 1..m : location_defs[i].self \in LocationRefs
  <2>1. location_defs \in Seq(LocationDef)
    BY DEF Otf2Placed, Otf2TypeOK
  <2>2. \A i \in 1..m : location_defs[i] \in LocationDef
    BY <1>5, <2>1
  <2>3. \A i \in 1..m : location_defs[i].self \in LocationRefs
    BY <2>2 DEF LocationDef
  <2> QED
    BY <1>1, <1>4, <1>5, <2>1, <2>3
<1>7. /\ \A i \in 1..m : NodeBelow(i)' = NodeBelow(i)
      /\ NodeBelow(m + 1)' = nodes[node + 1]
  BY <1>1, <1>4, <1>6 DEF NodeBelow
<1>8. PlainTree
  BY <1>1, <1>2, <1>5, <1>6, <1>7 DEF PlainTree, ClassAbove
<1>9. Plain
  BY <1>1, <1>2, <1>8 DEF Plain
<1>10. NodesThere /\ ThreadsThere /\ NoOthers /\ paje.refused = {}
  BY <1>1, <1>9, NoneRefused DEF TreePrinted
<1>11. /\ n.types = IF Found("thread") THEN paje.types
                    ELSE paje.types \cup {<<"thread", TypeOf(node)>>}
       /\ n.kind = paje.kind /\ n.parent = paje.parent /\ n.refused = paje.refused
       /\ Creates(Text, {}, n, u, 0, at, "thread", ContainerOf(node))
       /\ ContainerOf(node) \in Containers /\ paje' = u
       /\ node \in 0..(Len(nodes) - 1) /\ ~BadType(type, "thread", node)
  BY <1>2, <1>3 DEF NewThread
<1>12. /\ Len(nodes) \in Nat /\ node + 1 \in 1..Len(nodes) /\ node # -1
       /\ ContainerOf(node) = Named(nodes[node + 1].name)
  <2>1. Len(nodes) \in Nat
    BY DEF Otf2Placed, Otf2TypeOK
  <2>2. ContainerOf(node) = Named(nodes[node + 1].name)
    BY <1>1, <1>2, <1>11, NodesBelow
  <2> HIDE DEF node
  <2>3. node + 1 \in 1..Len(nodes) /\ node # -1
    BY <1>11, <2>1
  <2> QED
    BY <2>1, <2>2, <2>3
<1> HIDE DEF node
<1>13. paje.kind[ContainerOf(node)] = c
  BY <1>10, <1>12 DEF NodesThere
<1>14. at \in Containers /\ paje.kind[at] = "none"
  BY <1>1, <1>5, <1>6, <1>10, NamedContainers DEF NoOthers
<1>15. <<"thread", c>> \in n.types /\ paje.types \subseteq n.types
  <2>1. CASE location_defs = <<>>
    <3>1. ClassesEntered
      BY <1>1, <1>2, <2>1 DEF Otf2Ordered, TypesEntered
    <3>2. ~Found("thread")
      <4>1. ASSUME NEW i \in 1..Len(typeTree)
            PROVE  typeTree[i] # "thread"
        <5>1. typeTree[i] = nodes[i].class /\ Len(typeTree) <= Len(nodes)
          BY <3>1 DEF ClassesEntered
        <5>2. i \in 1..Len(nodes)
          BY <1>12, <5>1 DEF Otf2Placed, Otf2TypeOK
        <5> QED
          BY <1>8, <5>1, <5>2 DEF PlainTree
      <4> QED
        BY <3>1, <4>1, ClassesFound
    <3>3. node < Len(typeTree) /\ TypeOf(node) = typeTree[node + 1]
      <4>1. TypeOf(node) # Uninitialized
        BY <1>2, <1>11, <3>2 DEF BadType
      <4> QED
        BY <1>12, <4>1 DEF TypeOf
    <3>4. typeTree[node + 1] = c
      <4>1. node + 1 \in 1..Len(typeTree)
        BY <1>11, <1>12, <3>3 DEF Otf2Placed, Otf2TypeOK
      <4> QED
        BY <3>1, <4>1 DEF ClassesEntered
    <3> QED
      BY <1>11, <3>2, <3>3, <3>4
  <2>2. CASE location_defs # <<>>
    <3>1. Found("thread")
      BY <1>1, <1>2, <2>2 DEF Otf2Ordered, TypesEntered
    <3>2. 1 \in 1..m /\ 1 \in 1..(m + 1)
      BY <1>5, <1>6, <2>2 DEF Otf2Placed, Otf2TypeOK
    <3>3. <<"thread", NodeBelow(1).class>> \in paje.types
      BY <1>5, <1>10, <3>2 DEF ThreadsThere
    <3>4. NodeBelow(1).class = c
      <4>1. NodeBelow(1)'.class = NodeBelow(m + 1)'.class
        BY <1>2, <1>6, <3>2 DEF PlainTree
      <4>2. NodeBelow(1)' = NodeBelow(1) /\ NodeBelow(m + 1)' = nodes[node + 1]
        BY <1>7, <3>2
      <4> QED
        BY <4>1, <4>2
    <3> QED
      BY <1>11, <3>1, <3>3, <3>4
  <2> QED
    BY <2>1, <2>2
<1> HIDE DEF c
<1>16. /\ paje'.kind = [paje.kind EXCEPT ![at] = "thread"]
       /\ paje'.parent = [paje.parent EXCEPT ![at] = ContainerOf(node)]
       /\ paje'.types = n.types /\ paje'.refused = {}
  <2> DEFINE t == "thread"
  <2>1. u.refused = n.refused \cup Refusals(n.kind[at] # "none", "again", at)
          \cup Refusals(<<t, n.kind[ContainerOf(node)]>> \notin n.types, "untyped", at)
    BY <1>11 DEF Creates
  <2>2. <<t, n.kind[ContainerOf(node)]>> \in n.types /\ n.kind[at] = "none"
    BY <1>11, <1>13, <1>14, <1>15
  <2> HIDE DEF t
  <2>3. u.refused = {}
    BY <1>10, <1>11, <2>1, <2>2 DEF Refusals
  <2> QED
    BY <1>11, <2>3 DEF Creates
<1>17. /\ paje'.kind[at] = "thread" /\ paje'.parent[at] = ContainerOf(node)
       /\ \A x \in Containers : x # at => /\ paje'.kind[x] = paje.kind[x]
                                          /\ paje'.parent[x] = paje.parent[x]
  <2>1. paje.kind \in [Containers -> Kinds] /\ paje.parent \in [Containers -> Containers]
    BY DEF Otf2Placed, Otf2TypeOK, TraceOf
  <2> QED
    BY <1>14, <1>16, <2>1
<1>18. \A l \in LocationRefs : l = self \/ (Thread(l) # at /\ Thread(l) \in Containers)
  BY NamedContainers DEF at
<1>19. NodesThere'
  <2>1. ASSUME NEW i \in 1..Len(nodes)
        PROVE  Named(nodes[i].name) # at /\ Named(nodes[i].name) \in Containers
    <3>1. nodes[i].name \in Text
      <4>1. nodes \in Seq(NodeDef)
        BY DEF Otf2Placed, Otf2TypeOK
      <4>2. nodes[i] \in NodeDef
        BY <4>1
      <4> QED
        BY <4>2 DEF NodeDef
    <3> QED
      BY <1>8, <3>1, NamedContainers DEF PlainTree, at
  <2> QED
    BY <1>1, <1>10, <1>15, <1>16, <1>17, <2>1 DEF NodesThere, ClassAbove, Above
<1>20. ThreadsThere'
  <2>1. ASSUME NEW i \in 1..(m + 1)
        PROVE  /\ paje'.kind[Thread(location_defs'[i].self)] = "thread"
               /\ paje'.parent[Thread(location_defs'[i].self)] = Named(NodeBelow(i)'.name)
               /\ <<"thread", NodeBelow(i)'.class>> \in paje'.types
    <3>1. CASE i = m + 1
      <4>1. location_defs'[i].self = self /\ NodeBelow(i)' = nodes[node + 1]
        BY <1>4, <1>6, <1>7, <3>1
      <4> QED
        BY <1>12, <1>15, <1>16, <1>17, <4>1 DEF at, c
    <3>2. CASE i \in 1..m
      <4>1. /\ location_defs'[i] = location_defs[i] /\ NodeBelow(i)' = NodeBelow(i)
            /\ location_defs[i].self # self /\ location_defs[i].self \in LocationRefs
        BY <1>1, <1>6, <1>7, <3>2
      <4>2. /\ paje.kind[Thread(location_defs[i].self)] = "thread"
            /\ paje.parent[Thread(location_defs[i].self)] = Named(NodeBelow(i).name)
            /\ <<"thread", NodeBelow(i).class>> \in paje.types
        BY <1>1, <1>5, <1>10, <3>2 DEF ThreadsThere
      <4> QED
        BY <1>15, <1>16, <1>17, <1>18, <4>1, <4>2
    <3> QED
      BY <1>6, <3>1, <3>2
  <2> QED
    BY <1>6, <2>1 DEF ThreadsThere
<1>21. NoOthers'
  <2>1. paje'.kind[World] = "0"
    BY <1>10, <1>17, NamedContainers, NamesApart DEF NoOthers, at
  <2>2. ASSUME NEW l \in LocationRefs,
               l \notin {location_defs'[i].self : i \in 1..(m + 1)}
        PROVE  paje'.kind[Thread(l)] = "none"
    <3>1. l # self /\ l \notin {location_defs[i].self : i \in 1..m}
      BY <1>4, <1>6, <2>2
    <3> QED
      BY <1>5, <1>10, <1>17, <1>18, <3>1 DEF NoOthers
  <2>3. ASSUME NEW text \in Text
        PROVE  \/ Named(text) \in {World} \cup {Thread(l) : l \in LocationRefs}
               \/ \E i \in 1..Len(nodes') : nodes'[i].name = text
               \/ paje'.kind[Named(text)] = "none"
    <3>1. CASE Named(text) = at
      BY <3>1 DEF at
    <3>2. CASE Named(text) # at
      <4>1. paje'.kind[Named(text)] = paje.kind[Named(text)]
        BY <1>17, <3>2, NamedContainers
      <4> QED
        BY <1>1, <1>10, <4>1 DEF NoOthers
    <3> QED
      BY <3>1, <3>2
  <2> QED
    BY <1>6, <2>1, <2>2, <2>3 DEF NoOthers
<1>22. RefusedEnds'
  BY <1>16 DEF RefusedEnds
<1> QED
  BY <1>19, <1>20, <1>21, <1>22

\* Where a region that is converted is left, there is a state.
LEMMA StateToPop ==
  ASSUME Otf2Placed, Otf2Mirrored, otf2 # "undefined", ~arguments.dummy,
         ~arguments.no_states, NEW l \in LocationRefs, open[l] # <<>>,
         Converted(open[l][Len(open[l])])
  PROVE  paje.stack[Thread(l)] # <<>>
<1> DEFINE named == {i \in DOMAIN NamesIn(l) : NamesIn(l)[i] \in ConvertedNames}
           k == Len(open[l])
<1>1. open[l] \in Seq(RegionRefs)
  BY DEF Otf2Placed, Otf2TypeOK
<1>2. k \in Nat /\ k \in 1..k /\ open[l][k] \in RegionRefs /\ DOMAIN NamesIn(l) = 1..k
      /\ NamesIn(l)[k] = NameOf(open[l][k])
  BY <1>1 DEF NamesIn
<1>3. NameOf(open[l][k]) \in ConvertedNames
  BY <1>2 DEF ConvertedNames
<1>4. k \in named
  BY <1>2, <1>3
<1>5. IsFiniteSet(named)
  <2>1. named \subseteq 1..k /\ 1 \in Int /\ k \in Int
    BY <1>2
  <2> HIDE DEF named, k
  <2>2. IsFiniteSet(1..k)
    BY <2>1, FS_Interval
  <2> QED
    BY <2>1, <2>2, FS_Subset
<1>6. Len(paje.stack[Thread(l)]) = Cardinality(named)
  <2>1. Mirrors(paje.stack[Thread(l)], NamesIn(l), ConvertedNames)
    BY DEF Otf2Mirrored
  <2> QED
    BY <2>1 DEF Mirrors
<1> HIDE DEF named
<1>7. Cardinality(named) # 0
  BY <1>4, <1>5, FS_EmptySet
<1> QED
  BY <1>6, <1>7

\* A location with events has its container.
LEMMA EventKeepsTree ==
  ASSUME Otf2Placed, Otf2Mirrored, TreePrinted, NEW l \in LocationRefs, NEW r \in RegionRefs,
         EnterRegion(l, r) \/ LeaveRegion(l, r)
  PROVE  TreePrinted'
<1>1. PICK u : Enters(l, r, u) \/ Leaves(l, r, u)
  BY EnterPlaced, LeavePlaced
<1>2. /\ otf2 = "events" /\ otf2' \in {"events", "undefined"}
      /\ UNCHANGED <<nodes, groups, location_defs, arguments, in_order>>
      /\ l \in {location_defs[i].self : i \in DOMAIN location_defs}
      /\ paje'.kind = paje.kind /\ paje'.parent = paje.parent /\ paje'.types = paje.types
  BY <1>1 DEF Enters, Leaves, Pushes, Pops, EventLine, tables, archive
<1>3. ASSUME Plain, otf2' # "undefined", paje.refused = {}
      PROVE  paje'.refused = {}
  <2>1. ~Absent(paje, Thread(l))
    <3>1. DOMAIN location_defs = 1..Len(location_defs)
      BY DEF Otf2Placed, Otf2TypeOK
    <3>2. paje.kind[Thread(l)] = "thread"
      BY <1>2, <1>3, <3>1 DEF TreePrinted, ThreadsThere
    <3> QED
      BY <3>2 DEF Absent
  <2>2. paje' = paje \/ (paje' = u /\ ~arguments.no_states /\ Converted(r))
    BY <1>1, <1>2, <1>3 DEF Enters, Leaves, EventLine
  <2>3. CASE Enters(l, r, u)
    <3>1. u.refused = paje.refused \cup Refusals(Absent(paje, Thread(l)), "absent", Thread(l))
      BY <2>3 DEF Enters, Pushes
    <3> QED
      BY <1>3, <2>1, <2>2, <3>1 DEF Refusals
  <2>4. CASE Leaves(l, r, u)
    <3>1. u.refused = paje.refused
             \cup Refusals(Absent(paje, Thread(l)) \/ paje.stack[Thread(l)] = <<>>,
                           "absent", Thread(l))
      BY <2>4 DEF Leaves, Pops
    <3>2. CASE ~arguments.no_states /\ Converted(r)
      <4>1. paje.stack[Thread(l)] # <<>>
        BY <1>2, <1>3, <2>4, <3>2, StateToPop DEF Leaves, Plain
      <4> QED
        BY <1>3, <2>1, <2>2, <3>1, <4>1 DEF Refusals
    <3> QED
      BY <1>3, <2>2, <3>2
  <2> QED
    BY <1>1, <2>3, <2>4
<1>4. Plain /\ otf2' # "undefined" /\ RefusedEnds => RefusedEnds'
  BY <1>2, <1>3, NoneRefused DEF RefusedEnds
<1> QED
  BY <1>2, <1>4, TreeStays

\* The containers of threads go one after the other, each once, and not before its last line
\* once an event was converted.
LEMMA CloseKeepsTree ==
  ASSUME Otf2Placed, Otf2Ordered, TreePrinted, Otf2Close
  PROVE  TreePrinted'
<1> SUFFICES ASSUME Plain' PROVE (NodesThere /\ ThreadsThere /\ NoOthers /\ RefusedEnds)'
  BY DEF TreePrinted
<1>1. /\ otf2 = "events" /\ otf2' = "closed"
      /\ UNCHANGED <<nodes, groups, location_defs, arguments, in_order>>
  BY DEF Otf2Close, tables, archive
<1>2. Plain
  BY <1>1 DEF Plain, PlainTree, TreeMode, RunBy, ClassAbove, NodeBelow
<1>3. NodesThere /\ ThreadsThere /\ NoOthers /\ paje.refused = {}
  BY <1>1, <1>2, NoneRefused DEF TreePrinted
<1>4. PICK time, upTo : Closes(time, upTo)
  BY CloseShape
<1> DEFINE n == Len(locations)
           th(j) == Thread(locations[j])
           Untimed == IF last_timestamp = -1 THEN {<<"early", th(j)>> : j \in 1..n} ELSE {}
           Going(t, i) ==
             /\ t.refused \subseteq Untimed /\ t.parent = paje.parent /\ t.types = paje.types
             /\ last_timestamp # -1 => \A x \in Containers : t.latest[x] <= time
             /\ \A x \in Containers : t.kind[x] = paje.kind[x] \/ \E j \in 1..i : x = th(j)
           Good == {i \in 0..n : Going(upTo[i], i)}
<1>5. /\ n \in Nat /\ paje \in TraceOf(Text, {}) /\ time \in Int
      /\ last_timestamp \in Nat \cup {-1}
      /\ time = last_timestamp \/ last_timestamp = -1
      /\ upTo \in [0..n -> TraceOf(Text, {})] /\ upTo[0] = paje
      /\ \A i \in 1..n : Destroys(Text, {}, upTo[i - 1], upTo[i], time, th(i))
      /\ paje' = upTo[n]
  <2>1. n \in Nat /\ paje \in TraceOf(Text, {}) /\ last_timestamp \in Nat \cup {-1}
    BY DEF Otf2Placed, Otf2TypeOK
  <2> QED
    BY <1>2, <1>4, <2>1 DEF Closes, Plain, AnyTime
<1>6. /\ n = Len(location_defs)
      /\ \A i \in 1..n : locations[i] = location_defs[i].self /\ locations[i] \in LocationRefs
  <2>1. locations \in Seq(LocationRefs)
    BY DEF Otf2Placed, Otf2TypeOK
  <2>2. \A i \in 1..n : locations[i] \in LocationRefs
    BY <2>1
  <2> QED
    BY <2>2 DEF Otf2Placed, GroupsPlaced
<1>7. /\ \A i, j \in 1..n : th(i) = th(j) => i = j
      /\ \A i \in 1..n : th(i) \in Containers
      /\ \A i \in 1..n : paje.kind[th(i)] = "thread"
  <2>1. \A i, j \in 1..n : location_defs[i].self = location_defs[j].self => i = j
    BY <1>6 DEF Otf2Ordered, LocationsApart
  <2>2. \A i \in 1..n : paje.kind[Thread(location_defs[i].self)] = "thread"
    BY <1>1, <1>3, <1>6 DEF ThreadsThere
  <2> QED
    BY <1>6, <2>1, <2>2, NamedContainers
<1> HIDE DEF th, n
<1>8. 0 \in Good
  <2>1. last_timestamp # -1 => \A x \in Containers : paje.latest[x] <= time
    <3>1. \A x \in Containers : paje.latest[x] = 0 \/ paje.latest[x] <= last_timestamp
      BY <1>1, <1>2 DEF Otf2Ordered, Timely, Plain
    <3>2. \A x \in Containers : paje.latest[x] \in Nat
      BY <1>5 DEF TraceOf
    <3> QED
      BY <1>5, <3>1, <3>2
  <2> QED
    BY <1>3, <1>5, <2>1
<1>9. ASSUME NEW i \in 1..n, i - 1 \in Good
      PROVE  i \in Good
  <2> DEFINE t == upTo[i - 1]
             v == upTo[i]
             c == th(i)
  <2>1. i - 1 \in 0..n /\ i \in 0..n /\ i \in 1..i /\ (\A j \in 1..(i - 1) : j \in 1..i)
        /\ (\A j \in 1..(i - 1) : j \in 1..n /\ j # i)
    BY <1>5
  <2>2. Going(t, i - 1) /\ Destroys(Text, {}, t, v, time, c) /\ t \in TraceOf(Text, {})
        /\ c \in Containers
    BY <1>5, <1>7, <1>9, <2>1
  <2>3. t.kind[c] = "thread"
    BY <1>7, <2>1, <2>2
  <2>4. \A j : j \in 1..(i - 1) => j \in 1..i
    BY <2>1
  <2> HIDE DEF t, v, c
  <2>5. v.refused \subseteq Untimed
    <3>1. v.refused = t.refused \cup Refusals(Absent(t, c), "absent", c)
             \cup Refusals(time < t.latest[c], "early", c)
      BY <2>2 DEF Destroys
    <3>2. ~Absent(t, c)
      BY <2>3 DEF Absent
    <3>3. CASE last_timestamp = -1
      <4>1. <<"early", c>> \in Untimed
        BY <3>3 DEF c
      <4> HIDE DEF Untimed
      <4> QED
        BY <2>2, <3>1, <3>2, <4>1 DEF Refusals
    <3>4. CASE last_timestamp # -1
      <4>1. ~(time < t.latest[c])
        BY <1>5, <2>2, <3>4 DEF TraceOf
      <4> HIDE DEF Untimed
      <4> QED
        BY <2>2, <3>1, <3>2, <4>1 DEF Refusals
    <3> QED
      BY <3>3, <3>4
  <2>6. v.parent = paje.parent /\ v.types = paje.types
    BY <2>2 DEF Destroys
  <2>7. last_timestamp # -1 => \A x \in Containers : v.latest[x] <= time
    <3>1. Dated(t, v, time, c)
      BY <2>2 DEF Destroys
    <3> QED
      BY <1>5, <2>2, <3>1 DEF Dated
  <2>8. \A x \in Containers : v.kind[x] = paje.kind[x] \/ \E j \in 1..i : x = th(j)
    <3> TAKE x \in Containers
    <3>1. t.kind[x] = paje.kind[x] \/ \E j \in 1..(i - 1) : x = th(j)
      BY <2>2
    <3>2. v.kind = [t.kind EXCEPT ![c] = "gone"] /\ t.kind \in [Containers -> Kinds]
      BY <2>2 DEF Destroys, TraceOf
    <3>3. x = c \/ v.kind[x] = t.kind[x]
      BY <3>2
    <3> QED
      BY <2>1, <2>4, <3>1, <3>3 DEF c
  <2>9. Going(v, i)
    BY <2>5, <2>6, <2>7, <2>8
  <2> HIDE DEF Going
  <2> QED
    BY <2>1, <2>9 DEF v
<1> HIDE DEF Good
<1>10. n \in Good
  <2>1. \A i \in 1..n : i - 1 \in Good => i \in Good
    BY <1>9
  <2>2. n \in 0..n
    BY <1>5
  <2> QED
    BY <1>5, <1>8, <2>1, <2>2, Climb
<1>11. Going(paje', n)
  <2> HIDE DEF Going
  <2> QED
    BY <1>5, <1>10 DEF Good
<1>12. /\ paje'.refused \subseteq Untimed /\ paje'.parent = paje.parent /\ paje'.types = paje.types
       /\ \A x \in Containers :
            paje'.kind[x] = paje.kind[x] \/ \E l \in LocationRefs : x = Thread(l)
       /\ \A l \in LocationRefs : l \notin {location_defs[i].self : i \in 1..n} =>
            paje'.kind[Thread(l)] = paje.kind[Thread(l)]
  <2>1. \A j \in 1..n : th(j) = Thread(location_defs[j].self)
                        /\ location_defs[j].self \in LocationRefs
    BY <1>6 DEF th
  <2>2. \A x \in Containers : paje'.kind[x] = paje.kind[x] \/ \E l \in LocationRefs : x = Thread(l)
    BY <1>11, <2>1
  <2>3. ASSUME NEW l \in LocationRefs, l \notin {location_defs[i].self : i \in 1..n}
        PROVE  paje'.kind[Thread(l)] = paje.kind[Thread(l)]
    BY <1>11, <2>1, <2>3, NamedContainers
  <2> QED
    BY <1>11, <2>2, <2>3
<1> HIDE DEF Going
<1>16. RefusedEnds'
  <2>1. UNCHANGED last_timestamp /\ DOMAIN location_defs = 1..n
    BY <1>6 DEF Otf2Close, Otf2Placed, Otf2TypeOK
  <2>2. \A j \in 1..n : th(j) = Thread(location_defs[j].self)
    BY <1>6 DEF th
  <2>3. Untimed \subseteq UntimedEnds'
    BY <1>1, <2>1, <2>2 DEF UntimedEnds
  <2> QED
    BY <1>12, <2>3 DEF RefusedEnds
<1>13. NodesThere'
  <2>1. \A i \in 1..Len(nodes) : nodes[i].name \in Text
    <3>1. nodes \in Seq(NodeDef)
      BY DEF Otf2Placed, Otf2TypeOK
    <3>2. \A i \in 1..Len(nodes) : nodes[i] \in NodeDef
      BY <3>1
    <3> QED
      BY <3>2 DEF NodeDef
  <2>2. \A i \in 1..Len(nodes) :
          paje'.kind[Named(nodes[i].name)] = paje.kind[Named(nodes[i].name)]
    BY <1>2, <1>12, <2>1, NamedContainers DEF Plain, PlainTree
  <2> QED
    BY <1>1, <1>3, <1>12, <2>2 DEF NodesThere, ClassAbove, Above
<1>14. ThreadsThere'
  BY <1>1, <1>3, <1>12 DEF ThreadsThere, NodeBelow
<1>15. NoOthers'
  <2>1. paje'.kind[World] = "0"
    BY <1>3, <1>12, NamedContainers, NamesApart DEF NoOthers
  <2>2. \A text \in Text :
          \/ Named(text) \in {World} \cup {Thread(l) : l \in LocationRefs}
          \/ paje'.kind[Named(text)] = paje.kind[Named(text)]
    BY <1>12, NamedContainers
  <2> QED
    BY <1>1, <1>3, <1>6, <1>12, <2>1, <2>2 DEF NoOthers
<1> QED
  BY <1>13, <1>14, <1>15, <1>16

\* A node is at its number, and the node of a location at that of its group.
LEMMA NodesFound ==
  ASSUME Otf2Placed, Otf2Ordered, TreeMode, in_order, otf2 # "undefined"
  PROVE  /\ \A p \in 0..(Len(nodes) - 1) : NodeNamed(p) = nodes[p + 1]
         /\ \A i \in 1..Len(location_defs) :
              NodeNamed(NodeOf(location_defs[i])) = NodeBelow(i)
<1>1. /\ DOMAIN nodes = 1..Len(nodes) /\ Len(nodes) \in Nat
      /\ \A i \in 1..Len(nodes) : nodes[i].self = i - 1
  BY DEF Otf2Placed, Otf2TypeOK, NodesPlaced, TreeMode
<1>2. ASSUME NEW p \in 0..(Len(nodes) - 1)
      PROVE  NodeNamed(p) = nodes[p + 1]
  <2>1. \A i \in 1..Len(nodes) : nodes[i].self = p <=> i = p + 1
    BY <1>1
  <2>2. p + 1 \in 1..Len(nodes)
    BY <1>1
  <2>3. (CHOOSE i \in DOMAIN nodes : nodes[i].self = p) = p + 1
    BY <1>1, <2>1, <2>2
  <2> QED
    BY <2>3 DEF NodeNamed
<1>3. ASSUME NEW i \in 1..Len(location_defs)
      PROVE  NodeNamed(NodeOf(location_defs[i])) = NodeBelow(i)
  <2> DEFINE g == location_defs[i].group
  <2>1. g \in {group_defs[j].self : j \in DOMAIN group_defs}
    <3>1. DOMAIN group_defs = 1..Len(group_defs)
      BY DEF Otf2Placed, Otf2TypeOK
    <3>2. PICK j \in 1..Len(group_defs) : group_defs[j].self = location_defs[i].group
      BY DEF Otf2Ordered, LocationsApart
    <3> QED
      BY <3>1, <3>2
  <2> HIDE DEF g
  <2>2. /\ g + 1 \in DOMAIN group_defs /\ groups[g + 1] = group_defs[g + 1].parent
        /\ \A j \in DOMAIN group_defs : group_defs[j].self = g <=> j = g + 1
    BY <2>1, GroupOf
  <2>3. (CHOOSE j \in DOMAIN group_defs : group_defs[j].self = g) = g + 1
    BY <2>2
  <2>4. NodeOf(location_defs[i]) = groups[g + 1]
    BY <2>2, <2>3 DEF NodeOf, g
  <2>5. groups[g + 1] \in 0..(Len(nodes) - 1)
    <3>1. DOMAIN group_defs = 1..Len(group_defs)
      BY DEF Otf2Placed, Otf2TypeOK
    <3> QED
      BY <2>2, <3>1 DEF Otf2Placed, GroupsPlaced, TreeMode
  <2> QED
    BY <1>2, <2>4, <2>5 DEF NodeBelow, g
<1> QED
  BY <1>2, <1>3

LEMMA PlainArchiveTree ==
  ASSUME Otf2Placed, Otf2Ordered, TreeMode, in_order, otf2 # "undefined", PlainArchive
  PROVE  PlainTree
<1>1. /\ DOMAIN nodes = 1..Len(nodes) /\ Len(nodes) \in Nat
      /\ DOMAIN location_defs = 1..Len(location_defs)
      /\ \A i \in 1..Len(nodes) : nodes[i].parent \in -1..(i - 2)
  BY DEF Otf2Placed, Otf2TypeOK, NodesPlaced, TreeMode
<1>2. \A i, j \in 1..Len(location_defs) : NodeBelow(i).class = NodeBelow(j).class
  BY <1>1, NodesFound DEF PlainArchive
<1>3. ASSUME NEW i \in 1..Len(nodes), NEW j \in 1..Len(nodes), SameAbove(i, j)
      PROVE  ClassAbove(i) = ClassAbove(j)
  <2>1. CASE nodes[i].parent = -1 \/ nodes[j].parent = -1
    BY <1>3, <2>1 DEF SameAbove, ClassAbove
  <2>2. CASE nodes[i].parent # -1 /\ nodes[j].parent # -1
    <3>1. /\ nodes[i].parent \in 0..(Len(nodes) - 1)
          /\ nodes[j].parent \in 0..(Len(nodes) - 1)
      BY <1>1, <2>2
    <3> QED
      BY <1>3, <2>2, <3>1, NodesFound DEF SameAbove, ClassAbove
  <2> QED
    BY <2>1, <2>2
<1> QED
  BY <1>1, <1>2, <1>3 DEF PlainArchive, PlainTree

LEMMA TreeMeans ==
  ASSUME Otf2Placed, Otf2Ordered, TreePrinted
  PROVE  Otf2TreePrinted
<1> SUFFICES ASSUME TreeMode, ~arguments.dummy, in_order, PlainArchive, otf2 # "undefined"
             PROVE  /\ paje.refused \subseteq UntimedEnds
                    /\ \A i \in DOMAIN nodes :
                         /\ paje.kind[Named(nodes[i].name)] = nodes[i].class
                         /\ nodes[i].parent # -1 =>
                              paje.parent[Named(nodes[i].name)]
                                = Named(NodeNamed(nodes[i].parent).name)
                    /\ \A i \in DOMAIN location_defs :
                         paje.parent[Thread(location_defs[i].self)]
                           = Named(NodeNamed(NodeOf(location_defs[i])).name)
  BY DEF Otf2TreePrinted
<1>1. NodesThere /\ ThreadsThere /\ paje.refused \subseteq UntimedEnds
  BY PlainArchiveTree DEF TreePrinted, Plain, RefusedEnds
<1>2. /\ DOMAIN nodes = 1..Len(nodes) /\ Len(nodes) \in Nat
      /\ DOMAIN location_defs = 1..Len(location_defs)
      /\ \A i \in 1..Len(nodes) : nodes[i].parent \in -1..(i - 2)
  BY DEF Otf2Placed, Otf2TypeOK, NodesPlaced, TreeMode
<1>3. ASSUME NEW i \in 1..Len(nodes), nodes[i].parent # -1
      PROVE  Above(i) = Named(NodeNamed(nodes[i].parent).name)
  <2>1. nodes[i].parent \in 0..(Len(nodes) - 1)
    BY <1>2, <1>3
  <2> QED
    BY <1>3, <2>1, NodesFound DEF Above
<1>4. \A i \in 1..Len(nodes) :
        /\ paje.kind[Named(nodes[i].name)] = nodes[i].class
        /\ nodes[i].parent # -1 =>
             paje.parent[Named(nodes[i].name)] = Named(NodeNamed(nodes[i].parent).name)
  BY <1>1, <1>3 DEF NodesThere
<1>5. \A i \in 1..Len(location_defs) :
        paje.parent[Thread(location_defs[i].self)]
          = Named(NodeNamed(NodeOf(location_defs[i])).name)
  BY <1>1, NodesFound DEF ThreadsThere
<1> QED
  BY <1>1, <1>2, <1>4, <1>5

LEMMA TreeInit ==
  ASSUME Otf2Init, arguments \in CommandLines, RunBy("otf22paje")
  PROVE  TreePrinted
<1>1. paje = NewTrace
  BY PlacedInit
<1>2. nodes = <<>> /\ location_defs = <<>>
  BY DEF Otf2Init, Otf2Start
<1>3. paje.refused = {} /\ paje.kind = [c \in Containers |-> IF c = World THEN "0" ELSE "none"]
  BY <1>1 DEF NewTrace
<1>4. NoOthers
  BY <1>3, NamedContainers, NamesApart DEF NoOthers
<1> QED
  BY <1>2, <1>3, <1>4 DEF TreePrinted, NodesThere, ThreadsThere, RefusedEnds

LEMMA TreeKeeps ==
  ASSUME Otf2Placed, Otf2Ordered, Otf2Mirrored, TreePrinted, Otf2Next \/ UNCHANGED otf2Vars
  PROVE  TreePrinted'
<1>1. CASE UNCHANGED otf2Vars \/ ChooseHierarchy \/ HostfileEnds \/ DefinitionsEnd
  <2>1. /\ UNCHANGED <<nodes, groups, location_defs, arguments, in_order, paje>>
        /\ UNCHANGED last_timestamp
        /\ otf2' = otf2 \/ (otf2 \notin {"undefined", "closed"})
    BY <1>1 DEF otf2Vars, tables, archive, unread, ChooseHierarchy, HostfileEnds, DefinitionsEnd
  <2>2. RefusedEnds => RefusedEnds'
    BY <2>1, NoneRefused DEF RefusedEnds, UntimedEnds
  <2> QED
    BY <2>1, <2>2, TreeStays
<1>2. CASE ReadHostLine
  <2>1. /\ UNCHANGED <<nodes, groups, location_defs, arguments, in_order>>
        /\ otf2 = "hostfile"
    BY <1>2 DEF ReadHostLine, tables, archive, unread
  <2>2. ~TreeMode
    BY <2>1 DEF Otf2Ordered, HostfileAsked, TreeMode
  <2> QED
    BY <2>1, <2>2, TreeStays DEF Plain
<1>3. CASE (\E s \in StringRefs : DefString(s)) \/ (\E r \in RegionRefs : DefRegion(r))
  <2>1. /\ UNCHANGED <<nodes, groups, location_defs, arguments, paje, otf2, last_timestamp>>
        /\ in_order' => in_order
    BY <1>3 DEF DefString, DefRegion, OneOfKind, unread
  <2>2. RefusedEnds => RefusedEnds'
    BY <2>1 DEF RefusedEnds, UntimedEnds
  <2> QED
    BY <2>1, <2>2, TreeStays
<1>4. CASE \E self \in NodeRefs, name \in NodeNames, class \in ClassNames,
             p \in {-1} \cup NodeRefs : DefSystemTreeNode(self, name, class, p)
  BY <1>4, NodeKeepsTree
<1>5. CASE \E self \in 0..(MaxGroups - 1), name \in NodeNames, p \in NodeRefs :
             DefLocationGroup(self, name, p)
  BY <1>5, GroupKeepsTree
<1>6. CASE \E self \in LocationRefs, type \in LocationTypes, g \in 0..(MaxGroups - 1) :
             DefLocation(self, type, g)
  BY <1>6, LocationKeepsTree
<1>7. CASE \E l \in LocationRefs, r \in RegionRefs : EnterRegion(l, r) \/ LeaveRegion(l, r)
  BY <1>7, EventKeepsTree
<1>8. CASE Otf2Close
  BY <1>8, CloseKeepsTree
<1> QED
  BY <1>1, <1>2, <1>3, <1>4, <1>5, <1>6, <1>7, <1>8 DEF Otf2Next

\* The containers that otf22paje prints for an archive of any size are its system tree with
\* its locations, and no line about them is refused, up to the end of the threads, but for
\* those ends when no event was converted.
THEOREM Otf2TreeIsPrinted ==
  Otf2Spec /\ arguments \in CommandLines /\ RunBy("otf22paje") => []Otf2TreePrinted
<1> DEFINE IInv == Otf2Placed /\ Otf2Ordered /\ Otf2Mirrored /\ TreePrinted
<1>1. Otf2Init /\ arguments \in CommandLines /\ RunBy("otf22paje") => IInv
  BY PlacedInit, OrderedInit, MirroredInit, TreeInit
<1>2. IInv /\ [Otf2Next]_otf2Vars => IInv'
  BY Otf2PlacedKeeps, OrderedKeeps, MirroredKeeps, TreeKeeps
<1>3. IInv => Otf2TreePrinted
  BY TreeMeans
<1> QED
  BY <1>1, <1>2, <1>3, PTL DEF Otf2Spec

-----------------------------------------------------------------------------
(***************************************************************************)
(* The machine of a hostfile.                                              *)
(***************************************************************************)
\* No name of the file is the one of the container of all or of a process.
HostNamesPlain ==
  \A line \in HostLines : \A p \in Places(line) :
    Named(p[1]) \notin {World} \cup {Thread(g) : g \in 0..(MaxGroups - 1)}

\* The types that lines with n levels above the cluster declare, each with the type above it.
LevelTypes(n) == {<<Levels[j], IF j = n THEN "0" ELSE Levels[j + 1]>> : j \in 1..n}
TypesAt(n) == LevelTypes(n) \cup {<<"L0", "L1">>, <<"H", "L0">>}
EachOnce(places) == \A p, q \in places : p[1] = q[1] => p = q

\* What the names created are, if they were created at places of a file with n levels.
CreatedAt(trace, names, places) ==
  \A x \in names : \E p \in places :
    p[1] = x /\ trace.kind[Named(x)] = p[2] /\ trace.parent[Named(x)] = Named(p[3])
OthersUnused(trace, names) ==
  /\ "0" \notin names /\ trace.kind[World] = "0"
  /\ \A x \in ContainerTexts \ (names \cup {"0"}) : trace.kind[Named(x)] = "none"
TypesDeclared(trace, types, n) ==
  \A pair \in TypesAt(n) : pair[1] \in types => pair \in trace.types
Fits(done, places, n) ==
  /\ CreatedAt(done.trace, done.names, places)
  /\ OthersUnused(done.trace, done.names)
  /\ TypesDeclared(done.trace, done.types, n)
  /\ EachOnce(places) => done.trace.refused = {}

PlacesOf(S) == S \subseteq (ContainerTexts \ {"0"}) \X Kinds \X ContainerTexts

LEMMA TypesApart ==
  ASSUME NEW n \in 1..3, NEW p \in TypesAt(n), NEW q \in TypesAt(n), p[1] = q[1]
  PROVE  p = q
<1>1. \A i, j \in 1..3 : Levels[i] = Levels[j] => i = j
  BY DEF Levels
<1>2. \A i \in 1..3 : Levels[i] \notin {"L0", "H"}
  BY DEF Levels
<1>3. \A i \in 1..n : i \in 1..3
  OBVIOUS
<1>4. CASE p \in LevelTypes(n) /\ q \in LevelTypes(n)
  <2>1. PICK i \in 1..n : p = <<Levels[i], IF i = n THEN "0" ELSE Levels[i + 1]>>
    BY <1>4 DEF LevelTypes
  <2>2. PICK j \in 1..n : q = <<Levels[j], IF j = n THEN "0" ELSE Levels[j + 1]>>
    BY <1>4 DEF LevelTypes
  <2> QED
    BY <1>1, <1>3, <2>1, <2>2
<1>5. \A r \in LevelTypes(n) : r[1] \notin {"L0", "H"}
  BY <1>2, <1>3 DEF LevelTypes
<1> QED
  BY <1>4, <1>5 DEF TypesAt

LEMMA DeclareFits ==
  ASSUME NEW stack, NEW done \in DoneOf(stack), NEW n \in 1..3, NEW places,
         Fits(done, places, n), NEW type \in NfTypes, NEW above \in Kinds,
         <<type, above>> \in TypesAt(n)
  PROVE  LET made == DeclareType(done, type, above)
         IN /\ Fits(made, places, n) /\ made \in DoneOf(stack)
            /\ made.names = done.names /\ <<type, above>> \in made.trace.types
<1> DEFINE u == DefineContainerType(done.trace, type, above)
           made == DeclareType(done, type, above)
<1>1. done.trace \in TraceOf(Text, {}) /\ type \in Kinds
  BY DEF DoneOf, NfTypes, Kinds
<1>2. /\ u.types = done.trace.types \cup {<<type, above>>}
      /\ u.kind = done.trace.kind /\ u.parent = done.trace.parent
      /\ u.refused = done.trace.refused
  BY <1>1, DefineShape
<1> HIDE DEF u
<1>3. made \in DoneOf(stack)
  BY DeclareDone
<1>4. CASE type \notin done.types
  <2>1. made = [done EXCEPT !.types = done.types \cup {type}, !.trace = u]
    BY <1>4 DEF DeclareType, u, DoneOf
  <2>2. made.names = done.names /\ made.types = done.types \cup {type} /\ made.trace = u
    BY <2>1 DEF DoneOf
  <2> HIDE DEF made
  <2>3. TypesDeclared(u, made.types, n)
    <3> SUFFICES ASSUME NEW pair \in TypesAt(n), pair[1] \in made.types PROVE pair \in u.types
      BY DEF TypesDeclared
    <3>1. CASE pair[1] = type
      BY <1>2, <3>1, TypesApart
    <3>2. CASE pair[1] # type
      BY <1>2, <2>2, <3>2 DEF Fits, TypesDeclared
    <3> QED
      BY <3>1, <3>2
  <2>4. CreatedAt(u, done.names, places) /\ OthersUnused(u, done.names)
    BY <1>2 DEF Fits, CreatedAt, OthersUnused
  <2> QED
    BY <1>2, <1>3, <2>2, <2>3, <2>4 DEF Fits, made
<1>5. CASE type \in done.types
  <2>1. made = done
    BY <1>5 DEF DeclareType
  <2>2. <<type, above>> \in done.trace.types
    BY <1>5 DEF Fits, TypesDeclared
  <2> QED
    BY <1>3, <2>1, <2>2
<1> QED
  BY <1>4, <1>5

\* Where a container may be put: in the container of all, or in one that was created.
RoomIn(done, places, name, type) ==
  \/ name = "0" /\ type = "0"
  \/ name \in done.names /\ \E z : <<name, type, z>> \in places

LEMMA MakeFits ==
  ASSUME NEW stack, NEW done \in DoneOf(stack), NEW n \in 1..3, NEW places, PlacesOf(places),
         Fits(done, places, n), NEW name, NEW type, NEW above,
         <<name, type, above>> \in places, NEW aboveType,
         RoomIn(done, places, above, aboveType), <<type, aboveType>> \in done.trace.types
  PROVE  LET made == MakeContainer(done, name, type, above)
         IN /\ Fits(made, places, n) /\ made \in DoneOf(stack)
            /\ made.names = done.names \cup {name}
<1> DEFINE made == MakeContainer(done, name, type, above)
           u == CreateContainer(done.trace, 0, Named(name), type, Named(above))
<1>1. /\ name \in ContainerTexts /\ name # "0" /\ type \in Kinds /\ above \in ContainerTexts
      /\ Named(name) \in Containers /\ Named(above) \in Containers
  BY DEF PlacesOf, ContainerTexts
<1>2. made \in DoneOf(stack)
  BY <1>1, MakeDone
<1>3. done.trace \in TraceOf(Text, {}) /\ done.names \subseteq ContainerTexts
  BY DEF DoneOf
<1>4. \A x, y : Named(x) = Named(y) => x = y
  BY DEF Named
<1>5. World = Named("0") /\ World \in Containers
  BY NamedContainers DEF World, Named
<1>6. CASE name \in done.names
  <2>1. made = done
    BY <1>6 DEF MakeContainer
  <2> QED
    BY <1>2, <1>6, <2>1
<1>7. CASE name \notin done.names
  <2>1. Creates(Text, {}, done.trace, u, 0, Named(name), type, Named(above))
    BY <1>1, <1>3, CreateShape
  <2>2. made = [done EXCEPT !.names = done.names \cup {name}, !.trace = u]
    BY <1>7 DEF MakeContainer, u, DoneOf
  <2> HIDE DEF u
  <2>3. made.names = done.names \cup {name} /\ made.types = done.types /\ made.trace = u
    BY <2>2 DEF DoneOf
  <2> HIDE DEF made
  <2>4. /\ u.types = done.trace.types
        /\ u.kind = [done.trace.kind EXCEPT ![Named(name)] = type]
        /\ u.parent = [done.trace.parent EXCEPT ![Named(name)] = Named(above)]
        /\ u.refused = done.trace.refused
             \cup Refusals(done.trace.kind[Named(name)] # "none", "again", Named(name))
             \cup Refusals(<<type, done.trace.kind[Named(above)]>> \notin done.trace.types,
                           "untyped", Named(name))
    BY <2>1 DEF Creates
  <2>5. /\ u.kind[Named(name)] = type /\ u.parent[Named(name)] = Named(above)
        /\ \A c \in Containers : c # Named(name) =>
             u.kind[c] = done.trace.kind[c] /\ u.parent[c] = done.trace.parent[c]
    BY <1>1, <1>3, <2>4 DEF TraceOf
  <2>6. \A x \in ContainerTexts : Named(x) \in Containers
    BY DEF ContainerTexts
  <2>7. CreatedAt(u, made.names, places)
    <3> SUFFICES ASSUME NEW x \in made.names
                 PROVE  \E p \in places : /\ p[1] = x /\ u.kind[Named(x)] = p[2]
                                          /\ u.parent[Named(x)] = Named(p[3])
      BY DEF CreatedAt
    <3>1. CASE x = name
      BY <2>5, <3>1
    <3>2. CASE x # name
      <4>1. x \in done.names /\ Named(x) \in Containers /\ Named(x) # Named(name)
        BY <1>3, <1>4, <2>3, <2>6, <3>2
      <4>2. PICK p \in places : /\ p[1] = x /\ done.trace.kind[Named(x)] = p[2]
                                /\ done.trace.parent[Named(x)] = Named(p[3])
        BY <4>1 DEF Fits, CreatedAt
      <4> QED
        BY <2>5, <4>1, <4>2
    <3> QED
      BY <3>1, <3>2
  <2>8. OthersUnused(u, made.names)
    <3>1. \A x \in ContainerTexts \ (made.names \cup {"0"}) : u.kind[Named(x)] = "none"
      <4> TAKE x \in ContainerTexts \ (made.names \cup {"0"})
      <4>1. x # name /\ x \notin done.names \cup {"0"} /\ Named(x) \in Containers
        BY <2>3, <2>6
      <4>2. Named(x) # Named(name)
        BY <1>4, <4>1
      <4>3. done.trace.kind[Named(x)] = "none"
        BY <4>1 DEF Fits, OthersUnused
      <4> QED
        BY <2>5, <4>1, <4>2, <4>3
    <3>2. u.kind[World] = "0" /\ "0" \notin made.names
      BY <1>1, <1>4, <1>5, <2>3, <2>5 DEF Fits, OthersUnused
    <3> QED
      BY <3>1, <3>2 DEF OthersUnused
  <2>9. TypesDeclared(u, made.types, n)
    BY <2>3, <2>4 DEF Fits, TypesDeclared
  <2>10. ASSUME EachOnce(places) PROVE u.refused = {}
    <3>1. done.trace.kind[Named(name)] = "none"
      BY <1>1, <1>7 DEF Fits, OthersUnused
    <3>2. done.trace.kind[Named(above)] = aboveType
      <4>1. CASE above = "0" /\ aboveType = "0"
        BY <1>5, <4>1 DEF Fits, OthersUnused
      <4>2. CASE above \in done.names /\ \E z : <<above, aboveType, z>> \in places
        <5>1. PICK z : <<above, aboveType, z>> \in places
          BY <4>2
        <5>2. PICK p \in places : p[1] = above /\ done.trace.kind[Named(above)] = p[2]
          BY <4>2 DEF Fits, CreatedAt
        <5>3. p = <<above, aboveType, z>>
          BY <2>10, <5>1, <5>2 DEF EachOnce
        <5> QED
          BY <5>2, <5>3
      <4> QED
        BY <4>1, <4>2 DEF RoomIn
    <3>3. done.trace.refused = {}
      BY <2>10 DEF Fits
    <3> QED
      BY <2>4, <3>1, <3>2, <3>3 DEF Refusals
  <2> QED
    BY <1>2, <2>3, <2>7, <2>8, <2>9, <2>10 DEF Fits, made
<1> QED
  BY <1>6, <1>7

LEMMA LevelAbove ==
  ASSUME NEW n \in 1..3, NEW j \in 1..n
  PROVE  j \in 1..3 /\ (j # n => j + 1 \in (j + 1)..n /\ j + 1 \in 1..n)
OBVIOUS

\* A level put in the one above it.
LEMMA LevelFits ==
  ASSUME NEW stack, NEW done \in DoneOf(stack), NEW places, PlacesOf(places),
         NEW above \in Seq(ContainerTexts), Len(above) \in 1..3,
         LevelPlaces(above) \subseteq places, Fits(done, places, Len(above)),
         NEW j \in 1..Len(above), \A i \in (j + 1)..Len(above) : above[i] \in done.names
  PROVE  LET made == LevelOf(done, above, j)
         IN /\ Fits(made, places, Len(above)) /\ made \in DoneOf(stack)
            /\ made.names = done.names \cup {above[j]}
<1> DEFINE n == Len(above)
           outer == IF j = n THEN "0" ELSE Levels[j + 1]
           in == IF j = n THEN "0" ELSE above[j + 1]
           type == Levels[j]
           name == above[j]
           typed == DeclareType(done, type, outer)
<1>1. n \in 1..3 /\ j \in 1..n /\ j \in 1..3 /\ (j # n => j + 1 \in (j + 1)..n /\ j + 1 \in 1..n)
  <2>1. n \in 1..3 /\ j \in 1..n
    OBVIOUS
  <2> HIDE DEF n
  <2> QED
    BY <2>1, LevelAbove
<1>2. \A i \in 1..3 : Levels[i] \in NfTypes /\ Levels[i] \in Kinds
  BY DEF Levels, NfTypes, Kinds
<1>3. outer \in Kinds /\ type \in NfTypes
  BY <1>1, <1>2 DEF Kinds
<1>4. <<type, outer>> \in TypesAt(n)
  <2>1. <<type, outer>> \in LevelTypes(n)
    BY <1>1 DEF LevelTypes
  <2> HIDE DEF type, outer, n
  <2> QED
    BY <2>1 DEF TypesAt
<1>5. <<name, type, in>> \in places
  BY <1>1 DEF LevelPlaces
<1>6. j # n => \E z : <<above[j + 1], Levels[j + 1], z>> \in places
  <2> SUFFICES ASSUME j # n PROVE \E z : <<above[j + 1], Levels[j + 1], z>> \in places
    OBVIOUS
  <2>1. <<above[j + 1], Levels[j + 1], IF j + 1 = n THEN "0" ELSE above[j + 2]>> \in places
    BY <1>1 DEF LevelPlaces
  <2> QED
    BY <2>1
<1>7. RoomIn(done, places, in, outer)
  BY <1>1, <1>6 DEF RoomIn
<1>8. LevelOf(done, above, j) = MakeContainer(typed, name, type, in)
  BY DEF LevelOf
<1> HIDE DEF n, outer, in, type, name, typed
<1>9. /\ Fits(typed, places, n) /\ typed \in DoneOf(stack)
      /\ typed.names = done.names /\ <<type, outer>> \in typed.trace.types
  BY <1>1, <1>3, <1>4, DeclareFits DEF typed, n
<1>10. RoomIn(typed, places, in, outer)
  BY <1>7, <1>9 DEF RoomIn
<1>11. LET made == MakeContainer(typed, name, type, in)
       IN /\ Fits(made, places, n) /\ made \in DoneOf(stack)
          /\ made.names = typed.names \cup {name}
  BY <1>1, <1>5, <1>9, <1>10, MakeFits
<1> QED
  BY <1>8, <1>9, <1>11 DEF n, name

LEMMA LevelsFit ==
  ASSUME NEW stack, NEW done \in DoneOf(stack), NEW places, PlacesOf(places),
         NEW above \in Seq(ContainerTexts), Len(above) \in 1..3,
         LevelPlaces(above) \subseteq places, Fits(done, places, Len(above))
  PROVE  LET made == MakeLevels(done, above)
         IN /\ Fits(made, places, Len(above)) /\ made \in DoneOf(stack)
            /\ done.names \subseteq made.names
            /\ \A i \in 1..Len(above) : above[i] \in made.names
<1> DEFINE n == Len(above)
<1>1. n \in Nat /\ n \in 1..3 /\ Len(above) <= 3
  <2>1. \A m \in 1..3 : m \in Nat /\ m <= 3
    OBVIOUS
  <2>2. Len(above) \in 1..3
    OBVIOUS
  <2> HIDE DEF n
  <2>3. Len(above) \in Nat /\ Len(above) <= 3
    BY <2>1, <2>2, Zenon
  <2> QED
    BY <2>2, <2>3 DEF n
<1>2. PICK from : /\ from \in [1..(n + 1) -> DoneOf(stack)]
                  /\ from[n + 1] = done
                  /\ \A j \in 1..n : from[j] = LevelOf(from[j + 1], above, j)
                  /\ MakeLevels(done, above) = from[1]
  BY <1>1, LevelsFrom
<1> DEFINE Holds(j) == /\ Fits(from[j], places, n) /\ done.names \subseteq from[j].names
                       /\ \A i \in j..n : above[i] \in from[j].names
           Good == {k \in 0..n : Holds(n + 1 - k)}
<1>3. 0 \in Good
  <2>1. n + 1 - 0 = n + 1 /\ (n + 1)..n = {}
    BY <1>1
  <2> QED
    BY <1>1, <1>2, <2>1
<1>4. ASSUME NEW k \in 1..n, k - 1 \in Good PROVE k \in Good
  <2> DEFINE j == n + 1 - k
  <2>1. j \in 1..n /\ j + 1 = n + 1 - (k - 1) /\ j + 1 \in 1..(n + 1)
    BY <1>1
  <2>2. Holds(j + 1)
    <3>1. Holds(n + 1 - (k - 1))
      BY <1>4
    <3> HIDE DEF Holds, j, n
    <3> QED
      BY <2>1, <3>1
  <2>3. from[j + 1] \in DoneOf(stack) /\ from[j] = LevelOf(from[j + 1], above, j)
    BY <1>2, <2>1
  <2> DEFINE d == from[j + 1]
  <2> HIDE DEF j
  <2>4. Fits(d, places, n) /\ done.names \subseteq d.names
        /\ \A i \in (j + 1)..n : above[i] \in d.names
    BY <2>2
  <2> HIDE DEF n, d
  <2>5. /\ Fits(LevelOf(d, above, j), places, n)
        /\ LevelOf(d, above, j).names = d.names \cup {above[j]}
    BY <1>1, <2>1, <2>3, <2>4, LevelFits DEF n, d
  <2>6. Holds(j)
    <3>1. \A i \in j..n : i = j \/ i \in (j + 1)..n
      BY <1>1, <2>1
    <3> QED
      BY <2>3, <2>4, <2>5, <3>1 DEF d
  <2> QED
    BY <2>6 DEF j
<1>5. \A k \in 0..n : k \in Good
  <2> HIDE DEF Good, n
  <2> QED
    BY <1>1, <1>3, <1>4, Climb
<1>6. Holds(1)
  <2>1. n \in 0..n /\ n + 1 - n = 1
    BY <1>1
  <2> QED
    BY <1>5, <2>1
<1>7. from[1] \in DoneOf(stack)
  BY <1>1, <1>2
<1> QED
  BY <1>2, <1>6, <1>7

\* The cluster and the host.
LEMMA HostFits ==
  ASSUME NEW stack, NEW done \in DoneOf(stack), NEW places, PlacesOf(places),
         NEW line \in HostLines, Depth(line) > 1, Len(line.pieces) = 2,
         Places(line) \subseteq places, Fits(done, places, Len(line.above)),
         line.above[1] \in done.names
  PROVE  LET made == MakeHost(done, line)
         IN /\ Fits(made, places, Len(line.above)) /\ made \in DoneOf(stack)
            /\ made.names = done.names \cup {line.pieces[1], line.host}
<1> DEFINE above == line.above
           cluster == line.pieces[1]
           host == line.host
           n == Len(above)
<1>1. above \in Seq(ContainerTexts) /\ n <= 3 /\ 1 \in 1..n
  BY LineShape, DepthShape
<1>2. n \in 1..3
  <2> HIDE DEF above
  <2>1. n \in Nat
    BY <1>1
  <2> HIDE DEF n
  <2> QED
    BY <1>1, <2>1
<1>3. /\ <<cluster, "L0", above[1]>> \in places /\ <<host, "H", cluster>> \in places
      /\ LevelPlaces(above) \subseteq places
  BY DEF Places
<1>4. <<above[1], "L1", IF 1 = n THEN "0" ELSE above[1 + 1]>> \in places
  <2> DEFINE z == IF 1 = n THEN "0" ELSE above[1 + 1]
  <2>1. <<above[1], Levels[1], z>> \in LevelPlaces(above)
    <3> HIDE DEF above
    <3> QED
      BY <1>1 DEF LevelPlaces
  <2>2. Levels[1] = "L1"
    BY DEF Levels
  <2> QED
    BY <1>3, <2>1, <2>2
<1>5. MakeHost(done, line)
        = MakeContainer(DeclareType(MakeContainer(DeclareType(done, "L0", "L1"), cluster, "L0",
                                                  above[1]), "H", "L0"), host, "H", cluster)
  BY DEF MakeHost
<1>6. Fits(done, places, n) /\ above[1] \in done.names
  OBVIOUS
<1>7. /\ {"L0", "H"} \subseteq NfTypes /\ {"L0", "L1"} \subseteq Kinds
      /\ <<"L0", "L1">> \in TypesAt(n) /\ <<"H", "L0">> \in TypesAt(n)
  BY DEF NfTypes, Kinds, TypesAt
<1> DEFINE a == DeclareType(done, "L0", "L1")
           b == MakeContainer(a, cluster, "L0", above[1])
           c == DeclareType(b, "H", "L0")
           d == MakeContainer(c, host, "H", cluster)
<1> HIDE DEF above, cluster, host, n, a, b, c, d
<1>8. /\ Fits(a, places, n) /\ a \in DoneOf(stack)
      /\ a.names = done.names /\ <<"L0", "L1">> \in a.trace.types
  BY <1>2, <1>6, <1>7, DeclareFits DEF a
<1>9. RoomIn(a, places, above[1], "L1")
  BY <1>4, <1>6, <1>8 DEF RoomIn
<1>10. /\ Fits(b, places, n) /\ b \in DoneOf(stack) /\ b.names = a.names \cup {cluster}
  BY <1>2, <1>3, <1>8, <1>9, MakeFits DEF b
<1>11. /\ Fits(c, places, n) /\ c \in DoneOf(stack)
       /\ c.names = b.names /\ <<"H", "L0">> \in c.trace.types
  BY <1>2, <1>7, <1>10, DeclareFits DEF c
<1>12. RoomIn(c, places, cluster, "L0")
  BY <1>3, <1>10, <1>11 DEF RoomIn
<1>13. /\ Fits(d, places, n) /\ d \in DoneOf(stack) /\ d.names = c.names \cup {host}
  BY <1>2, <1>3, <1>11, <1>12, MakeFits DEF d
<1>14. MakeHost(done, line) = d
  BY <1>5 DEF a, b, c, d
<1>15. d.names = done.names \cup {cluster, host}
  BY <1>8, <1>10, <1>11, <1>13
<1> QED
  BY <1>13, <1>14, <1>15 DEF n, above, cluster, host

\* What holds of the hostfile up to the end of the run: each name created is where a line
\* put it, and lines refused are about processes.
HostRead ==
  /\ nf_read \in Seq(HostLines) /\ nf_depth \in Nat \cup {-1}
  /\ PlacesOf(AllPlaces)
  /\ \A p \in AllPlaces : p[1] \in nf_containers
RefusedProcesses ==
  EachOnce(AllPlaces) /\ nf_containers # {} =>
    \A r \in paje.refused : r[2] \in {Thread(g) : g \in 0..(MaxGroups - 1)}
HostInv ==
  /\ HostNamesPlain /\ HostRead /\ RefusedProcesses
  /\ CreatedAt(paje, nf_containers, AllPlaces)
  /\ ~arguments.hostfile => nf_read = <<>> /\ nf_containers = {} /\ otf2 # "hostfile"
  /\ arguments.hostfile /\ otf2 # "undefined" => location_defs = <<>>
  /\ otf2 \in {"start", "hostfile"} =>
       /\ nf_depth = -1 => nf_types = {}
       /\ Fits(Declared(paje), AllPlaces, nf_depth - 1)

LEMMA PlacesShape ==
  ASSUME HostNamesPlain, NEW line \in HostLines, Depth(line) > 1
  PROVE  PlacesOf(Places(line))
<1>1. World = Named("0")
  BY DEF World, Named
<1>2. \A p \in Places(line) : p[1] # "0"
  BY <1>1 DEF HostNamesPlain
<1> DEFINE above == line.above
           cluster == line.pieces[1]
           host == line.host
<1>3. above \in Seq(ContainerTexts) /\ Len(above) <= 3 /\ 1 \in 1..Len(above)
      /\ cluster \in ContainerTexts /\ host \in ContainerTexts
  BY LineShape, DepthShape
<1>4. \A p \in Places(line) : \/ p \in LevelPlaces(above)
                              \/ p = <<cluster, "L0", above[1]>> \/ p = <<host, "H", cluster>>
  BY DEF Places
<1> HIDE DEF above, cluster, host
<1>5. above[1] \in ContainerTexts /\ {"L0", "H"} \subseteq Kinds
  BY <1>3 DEF Kinds
<1>6. LevelPlaces(above) \subseteq ContainerTexts \X Kinds \X ContainerTexts
  <2>1. \A j \in 1..3 : Levels[j] \in Kinds
    BY DEF Levels, Kinds
  <2>2. "0" \in ContainerTexts
    BY NamedContainers
  <2>3. ASSUME NEW j \in 1..Len(above)
        PROVE  <<above[j], Levels[j], IF j = Len(above) THEN "0" ELSE above[j + 1]>>
                 \in ContainerTexts \X Kinds \X ContainerTexts
    <3>1. j \in 1..3 /\ (j # Len(above) => j + 1 \in 1..Len(above))
      BY <1>3
    <3>2. above[j] \in ContainerTexts /\ (j # Len(above) => above[j + 1] \in ContainerTexts)
      BY <1>3, <3>1
    <3> QED
      BY <2>1, <2>2, <3>1, <3>2
  <2> QED
    BY <2>3 DEF LevelPlaces
<1>7. Places(line) \subseteq ContainerTexts \X Kinds \X ContainerTexts
  BY <1>3, <1>4, <1>5, <1>6
<1> QED
  BY <1>2, <1>7 DEF PlacesOf

LEMMA PlacesMore ==
  ASSUME nf_read \in Seq(HostLines), NEW line \in HostLines, nf_read' = Append(nf_read, line)
  PROVE  AllPlaces' = AllPlaces \cup IF Depth(line) > 1 THEN Places(line) ELSE {}
<1> DEFINE n == Len(nf_read)
           more == IF Depth(line) > 1 THEN Places(line) ELSE {}
<1>1. /\ DOMAIN nf_read = 1..n /\ n \in Nat /\ DOMAIN nf_read' = 1..(n + 1)
      /\ nf_read'[n + 1] = line /\ \A i \in 1..n : nf_read'[i] = nf_read[i]
  OBVIOUS
<1>2. \A p : p \in AllPlaces <=> \E i \in 1..n : Depth(nf_read[i]) > 1 /\ p \in Places(nf_read[i])
  BY <1>1 DEF AllPlaces
<1>3. \A p : p \in AllPlaces' <=>
        \E i \in 1..(n + 1) : Depth(nf_read'[i]) > 1 /\ p \in Places(nf_read'[i])
  <2>1. AllPlaces' = UNION {Places(nf_read'[i]) :
                              i \in {i \in DOMAIN nf_read' : Depth(nf_read'[i]) > 1}}
    BY DEF AllPlaces, Places, LevelPlaces, Depth
  <2> QED
    BY <1>1, <2>1
<1>4. \A i : i \in 1..(n + 1) <=> i \in 1..n \/ i = n + 1
  BY <1>1
<1>5. \A p : p \in more <=> Depth(line) > 1 /\ p \in Places(line)
  BY DEF more
<1> HIDE DEF n, more
<1>6. \A p : p \in AllPlaces' <=> p \in AllPlaces \/ p \in more
  BY <1>1, <1>2, <1>3, <1>4, <1>5
<1> QED
  BY <1>6 DEF more

\* A file with more places, or read with the number of its levels known.
LEMMA FitsMore ==
  ASSUME NEW done, NEW places, NEW more, NEW m, NEW n, Fits(done, places, m),
         m = n \/ done.types = {}
  PROVE  Fits(done, places \cup more, n)
<1>1. CreatedAt(done.trace, done.names, places \cup more)
  BY DEF Fits, CreatedAt
<1>2. EachOnce(places \cup more) => EachOnce(places)
  BY DEF EachOnce
<1>3. TypesDeclared(done.trace, done.types, n)
  BY DEF Fits, TypesDeclared
<1> QED
  BY <1>1, <1>2, <1>3 DEF Fits

LEMMA HostStays ==
  ASSUME HostInv, UNCHANGED <<paje, nfVars, arguments>>,
         otf2' = "hostfile" => arguments.hostfile,
         otf2' \in {"start", "hostfile"} => otf2 \in {"start", "hostfile"},
         arguments.hostfile /\ otf2' # "undefined" => location_defs' = <<>>
  PROVE  HostInv'
<1> USE DEF nfVars
<1>1. AllPlaces' = AllPlaces
  BY DEF AllPlaces, Places, LevelPlaces, Depth
<1>2. HostRead' /\ RefusedProcesses'
  BY <1>1 DEF HostInv, HostRead, RefusedProcesses, PlacesOf, EachOnce
<1>3. CreatedAt(paje, nf_containers, AllPlaces)'
  BY <1>1 DEF HostInv, CreatedAt
<1>4. Declared(paje)' = Declared(paje)
  BY DEF Declared
<1>5. Fits(Declared(paje), AllPlaces, nf_depth - 1)' <=> Fits(Declared(paje), AllPlaces, nf_depth - 1)
  BY <1>1, <1>4 DEF Fits, CreatedAt, OthersUnused, TypesDeclared, EachOnce
<1>6. HostNamesPlain'
  BY DEF HostInv, HostNamesPlain
<1> QED
  BY <1>2, <1>3, <1>5, <1>6 DEF HostInv

\* What a line makes is kept where it leaves the loop and where it does not.
LEMMA LineKeeps ==
  ASSUME Otf2Placed, HostInv, otf2 = "hostfile", UNCHANGED <<arguments, location_defs>>,
         NEW line \in HostLines, NEW outcome, HostfileLine(line, outcome),
         otf2' = CASE outcome = "more" -> "hostfile"
                   [] outcome = "done" -> "definitions"
                   [] OTHER -> outcome
  PROVE  HostInv'
<1> DEFINE done == Declared(paje)
           above == line.above
           n == Len(above)
           levels == MakeLevels(done, above)
           made == MakeHost(levels, line)
           keeps(d) == paje' = d.trace /\ nf_types' = d.types /\ nf_containers' = d.names
           stack == paje.stack
<1>1. /\ HostNamesPlain /\ HostRead /\ RefusedProcesses /\ arguments.hostfile
      /\ nf_depth = -1 => nf_types = {}
      /\ Fits(done, AllPlaces, nf_depth - 1)
      /\ location_defs = <<>>
  BY DEF HostInv
<1>2. done \in DoneOf(stack) /\ done.types = nf_types /\ done.names = nf_containers
  BY DEF Otf2Placed, Otf2TypeOK, Declared, DoneOf
<1>3. above \in Seq(ContainerTexts) /\ n <= 3
  BY LineShape
<1>4. \/ UNCHANGED <<paje, nfVars>> /\ outcome \in {"done", "exit"}
      \/ /\ nf_depth \in {-1, Depth(line)} /\ nf_depth' = Depth(line)
         /\ nf_read' = Append(nf_read, line)
         /\ \/ /\ Depth(line) <= 1 /\ outcome = "undefined"
               /\ UNCHANGED <<paje, nf_types, nf_containers>>
            \/ ~(Depth(line) <= 1) /\ Len(line.pieces) = 2 /\ outcome = "more" /\ keeps(made)
            \/ ~(Depth(line) <= 1) /\ Len(line.pieces) # 2 /\ outcome = "exit" /\ keeps(levels)
  BY Zenon DEF HostfileLine
<1>5. Depth(line) \in Nat /\ (Depth(line) <= 1 \/ Depth(line) > 1)
  <2> DEFINE d == Depth(line)
  <2>1. d \in Nat
    BY DepthShape
  <2> HIDE DEF d
  <2>2. d <= 1 \/ d > 1
    BY <2>1
  <2> QED
    BY <2>1, <2>2 DEF d
<1>6. HostNamesPlain'
  BY <1>1 DEF HostNamesPlain
<1>7. CASE UNCHANGED <<paje, nfVars>> /\ outcome \in {"done", "exit"}
  <2>1. otf2' \in {"definitions", "exit"}
    BY <1>7
  <2> HIDE DEF done, above, n, levels, made, keeps, stack
  <2> QED
    BY <1>1, <1>7, <2>1, HostStays
<1>8. CASE /\ nf_depth' = Depth(line) /\ nf_read' = Append(nf_read, line)
           /\ Depth(line) <= 1 /\ outcome = "undefined"
           /\ UNCHANGED <<paje, nf_types, nf_containers>>
  <2>1. ~(Depth(line) > 1)
    <3> DEFINE d == Depth(line)
    <3>1. d \in Nat /\ d <= 1
      BY <1>5, <1>8
    <3> HIDE DEF d
    <3>2. ~(d > 1)
      BY <3>1
    <3> QED
      BY <3>2 DEF d
  <2> HIDE DEF done, above, n, levels, made, keeps, stack
  <2>2. AllPlaces' = AllPlaces /\ nf_read' \in Seq(HostLines)
    BY <1>1, <1>8, <2>1, PlacesMore DEF HostRead
  <2>3. HostRead' /\ RefusedProcesses'
    BY <1>1, <1>5, <1>8, <2>2 DEF HostRead, RefusedProcesses, PlacesOf, EachOnce
  <2>4. CreatedAt(paje, nf_containers, AllPlaces)'
    BY <1>8, <2>2 DEF HostInv, CreatedAt
  <2>5. otf2' = "undefined" /\ arguments'.hostfile
    BY <1>1, <1>8
  <2> QED
    BY <1>6, <2>3, <2>4, <2>5 DEF HostInv
<1>9. CASE /\ nf_depth \in {-1, Depth(line)} /\ nf_depth' = Depth(line)
           /\ nf_read' = Append(nf_read, line) /\ Depth(line) > 1
           /\ \/ Len(line.pieces) = 2 /\ outcome = "more" /\ keeps(made)
              \/ Len(line.pieces) # 2 /\ outcome = "exit" /\ keeps(levels)
  <2> DEFINE places == AllPlaces \cup Places(line)
             depth == Depth(line)
  <2>1. AllPlaces' = places
    BY <1>1, <1>9, PlacesMore DEF HostRead
  <2>2. PlacesOf(Places(line)) /\ PlacesOf(places)
    BY <1>1, <1>9, PlacesShape DEF HostRead, PlacesOf
  <2>3. n \in 1..3 /\ depth - 1 = n
    <3>1. depth = IF line.host = "" THEN 0 ELSE 1 + n
      BY Zenon DEF Depth
    <3>2. line.host # "" /\ 1 \in 1..n
      BY <1>9, DepthShape
    <3>3. n \in Nat
      <4> HIDE DEF above
      <4> QED
        BY <1>3
    <3>4. depth = 1 + n
      BY <3>1, <3>2
    <3>5. n <= 3 /\ 1 \in 1..n
      BY <1>3, <3>2
    <3> HIDE DEF depth, n, above
    <3> QED
      BY <3>3, <3>4, <3>5
  <2>4. Fits(done, places, n)
    <3>1. nf_depth - 1 = n \/ done.types = {}
      <4>1. nf_depth = depth \/ nf_depth = -1
        BY <1>9
      <4> HIDE DEF depth, n, done
      <4> QED
        BY <1>1, <1>2, <2>3, <4>1
    <3> HIDE DEF depth, n, done
    <3> QED
      BY <1>1, <3>1, FitsMore
  <2>5. LevelPlaces(above) \subseteq places
    BY DEF Places
  <2>6. /\ Fits(levels, places, n) /\ levels \in DoneOf(stack) /\ done.names \subseteq levels.names
        /\ \A i \in 1..n : above[i] \in levels.names
    <3> HIDE DEF done, places, above, stack
    <3> QED
      BY <1>2, <1>3, <2>2, <2>3, <2>4, <2>5, LevelsFit DEF n, levels
  <2>7. \A p \in LevelPlaces(above) : p[1] \in levels.names
    <3> HIDE DEF levels, above
    <3> QED
      BY <2>6 DEF LevelPlaces, n
  <2>8. \E d : /\ keeps(d) /\ d \in DoneOf(stack) /\ Fits(d, places, n)
               /\ done.names \subseteq d.names /\ \A p \in Places(line) : p[1] \in d.names
    <3>1. CASE Len(line.pieces) # 2 /\ keeps(levels)
      <4>1. Places(line) = LevelPlaces(above)
        BY <3>1 DEF Places
      <4> HIDE DEF levels, places, done, keeps
      <4> QED
        BY <2>6, <2>7, <3>1, <4>1
    <3>2. CASE Len(line.pieces) = 2 /\ keeps(made)
      <4>1. /\ Fits(made, places, n) /\ made \in DoneOf(stack)
            /\ made.names = levels.names \cup {line.pieces[1], line.host}
        <5>1. above[1] \in levels.names
          <6>1. 1 \in 1..n
            BY <2>3
          <6> QED
            BY <2>6, <6>1
        <5>2. Places(line) \subseteq places
          OBVIOUS
        <5> HIDE DEF places, levels, stack
        <5> QED
          BY <1>9, <2>2, <2>6, <3>2, <5>1, <5>2, HostFits DEF n, above, made
      <4>2. \A p \in Places(line) : p \in LevelPlaces(above) \/ p[1] \in {line.pieces[1], line.host}
        BY DEF Places
      <4> HIDE DEF levels, made, places, done, keeps
      <4> QED
        BY <2>6, <2>7, <3>2, <4>1, <4>2
    <3> QED
      BY <1>9, <3>1, <3>2
  <2> HIDE DEF levels, made, done, above, places
  <2>9. PICK d : /\ keeps(d) /\ d \in DoneOf(stack) /\ Fits(d, places, n)
                 /\ done.names \subseteq d.names /\ \A p \in Places(line) : p[1] \in d.names
    BY <2>8
  <2>10. paje' = d.trace /\ nf_types' = d.types /\ nf_containers' = d.names
    BY <2>9
  <2> HIDE DEF keeps, n, stack, depth
  <2>11. HostRead'
    <3>1. nf_read' \in Seq(HostLines) /\ nf_depth' \in Nat
      BY <1>1, <1>5, <1>9 DEF HostRead
    <3>2. PlacesOf(AllPlaces)'
      BY <2>1, <2>2 DEF PlacesOf
    <3>3. \A p \in AllPlaces' : p[1] \in nf_containers'
      BY <1>1, <1>2, <2>1, <2>9, <2>10 DEF HostRead, places
    <3> QED
      BY <3>1, <3>2, <3>3 DEF HostRead
  <2>12. Fits(Declared(paje), AllPlaces, nf_depth - 1)'
    <3>1. nf_depth' - 1 = n
      BY <1>9, <2>3 DEF depth
    <3>2. /\ Declared(paje)'.trace = d.trace /\ Declared(paje)'.types = d.types
          /\ Declared(paje)'.names = d.names
      BY <2>10 DEF Declared
    <3> QED
      BY <2>1, <2>9, <3>1, <3>2 DEF Fits, CreatedAt, OthersUnused, TypesDeclared, EachOnce
  <2>13. CreatedAt(paje, nf_containers, AllPlaces)'
    BY <2>1, <2>9, <2>10 DEF Fits, CreatedAt
  <2>14. RefusedProcesses'
    <3>1. EachOnce(places) => d.trace.refused = {}
      BY <2>9 DEF Fits
    <3> QED
      BY <2>1, <2>10, <3>1 DEF RefusedProcesses, EachOnce
  <2>15. nf_depth' # -1 /\ arguments'.hostfile /\ location_defs' = <<>>
    <3>1. nf_depth' \in Nat
      BY <1>5, <1>9
    <3> QED
      BY <1>1, <3>1
  <2> QED
    BY <1>6, <2>11, <2>12, <2>13, <2>14, <2>15 DEF HostInv
<1> HIDE DEF done, above, levels, made, keeps, stack, n
<1> QED
  BY <1>4, <1>5, <1>7, <1>8, <1>9

LEMMA HostLineKeeps ==
  ASSUME Otf2Placed, HostInv, ReadHostLine
  PROVE  HostInv'
<1>1. PICK line \in HostLines, outcome \in {"more", "done", "exit", "undefined"} :
        /\ HostfileLine(line, outcome)
        /\ otf2' = CASE outcome = "more" -> "hostfile"
                     [] outcome = "done" -> "definitions"
                     [] OTHER -> outcome
  BY DEF ReadHostLine
<1>2. otf2 = "hostfile" /\ UNCHANGED <<arguments, location_defs>>
  BY DEF ReadHostLine, archive, unread
<1> QED
  BY <1>1, <1>2, LineKeeps

\* Where there is no hostfile nothing is said of it.
LEMMA WithoutHostfile ==
  ASSUME HostInv, ~arguments.hostfile, otf2' \notin {"start", "hostfile"},
         UNCHANGED <<arguments, nf_containers, nf_depth, nf_read>>
  PROVE  HostInv'
<1>1. nf_containers = {} /\ nf_read = <<>>
  BY DEF HostInv
<1>2. AllPlaces = {} /\ AllPlaces' = {}
  BY <1>1 DEF AllPlaces
<1>3. HostRead' /\ RefusedProcesses' /\ CreatedAt(paje, nf_containers, AllPlaces)'
  BY <1>1, <1>2 DEF HostInv, HostRead, RefusedProcesses, CreatedAt, PlacesOf
<1>4. HostNamesPlain'
  BY DEF HostInv, HostNamesPlain
<1> QED
  BY <1>1, <1>3, <1>4 DEF HostInv

\* The container of a process is apart from those of the file.
LEMMA ProcessApart ==
  ASSUME Otf2Placed, HostInv, otf2 = "definitions", arguments.hostfile,
         NEW self \in 0..(MaxGroups - 1), NEW aboveType \in Kinds, NEW above \in Containers,
         MakeProcess(self, aboveType, above),
         UNCHANGED <<otf2, arguments, location_defs, nf_containers, nf_depth, nf_read>>
  PROVE  HostInv'
<1> DEFINE done == DeclareType(Declared(paje), "P", aboveType)
           u == CreateContainer(done.trace, 0, Thread(self), "P", above)
           c == Thread(self)
<1>1. CASE arguments.dummy
  <2>1. UNCHANGED <<paje, nfVars>>
    BY <1>1 DEF MakeProcess, nfVars
  <2> QED
    BY <2>1, HostStays DEF HostInv
<1>2. CASE ~arguments.dummy
  <2>1. paje' = u
    BY <1>2, Zenon DEF MakeProcess
  <2>2. done \in DoneOf(paje.stack) /\ done.trace.kind = paje.kind
        /\ done.trace.parent = paje.parent /\ done.trace.refused = paje.refused
    <3> DEFINE start == Declared(paje)
               t == DefineContainerType(paje, "P", aboveType)
    <3>1. start \in DoneOf(paje.stack) /\ "P" \in NfTypes /\ "P" \in Kinds
          /\ paje \in TraceOf(Text, {}) /\ start.trace = paje
      BY DEF Otf2Placed, Otf2TypeOK, Declared, DoneOf, NfTypes, Kinds
    <3>2. t.kind = paje.kind /\ t.parent = paje.parent /\ t.refused = paje.refused
      BY <3>1, DefineShape
    <3>3. done.trace = t \/ done = start
      BY <3>1 DEF DeclareType, DoneOf
    <3> HIDE DEF start, t
    <3>4. DeclareType(start, "P", aboveType) \in DoneOf(paje.stack)
      BY <3>1, DeclareDone
    <3> HIDE DEF done
    <3> QED
      BY <3>1, <3>2, <3>3, <3>4 DEF done, start
  <2>3. c \in Containers /\ "P" \in Kinds
    BY NamedContainers DEF Kinds
  <2> HIDE DEF done
  <2>4. Creates(Text, {}, done.trace, u, 0, c, "P", above)
    BY <2>2, <2>3, CreateShape DEF DoneOf
  <2> HIDE DEF u
  <2>5. \A d \in Containers : d # c => paje'.kind[d] = paje.kind[d] /\ paje'.parent[d] = paje.parent[d]
    BY <2>1, <2>2, <2>3, <2>4 DEF Creates, DoneOf, TraceOf
  <2>6. \A r \in paje'.refused : r \in paje.refused \/ r[2] = c
    BY <2>1, <2>2, <2>4 DEF Creates, Refusals
  <2>7. AllPlaces' = AllPlaces
    BY DEF AllPlaces, Places, LevelPlaces, Depth
  <2>8. \A p \in AllPlaces : Named(p[1]) # c /\ Named(p[1]) \in Containers
    <3>1. \A p \in AllPlaces : \E line \in HostLines : p \in Places(line)
      BY DEF AllPlaces, HostInv, HostRead
    <3>2. \A p \in AllPlaces : Named(p[1]) \in Containers
      BY DEF HostInv, HostRead, PlacesOf, ContainerTexts
    <3> QED
      BY <3>1, <3>2 DEF HostInv, HostNamesPlain
  <2>9. CreatedAt(paje, nf_containers, AllPlaces)'
    <3> SUFFICES ASSUME NEW x \in nf_containers
                 PROVE  \E p \in AllPlaces : /\ p[1] = x /\ paje'.kind[Named(x)] = p[2]
                                             /\ paje'.parent[Named(x)] = Named(p[3])
      BY <2>7 DEF CreatedAt
    <3>1. PICK p \in AllPlaces : /\ p[1] = x /\ paje.kind[Named(x)] = p[2]
                                 /\ paje.parent[Named(x)] = Named(p[3])
      BY DEF HostInv, CreatedAt
    <3> QED
      BY <2>5, <2>8, <3>1
  <2>10. RefusedProcesses'
    BY <2>6, <2>7 DEF HostInv, RefusedProcesses, EachOnce
  <2>11. HostRead' /\ HostNamesPlain'
    BY <2>7 DEF HostInv, HostRead, PlacesOf, HostNamesPlain
  <2> QED
    BY <2>9, <2>10, <2>11 DEF HostInv
<1> QED
  BY <1>1, <1>2

LEMMA HostKeeps ==
  ASSUME Otf2Placed, HostInv, Otf2Next \/ UNCHANGED otf2Vars
  PROVE  HostInv'
<1>1. CASE ChooseHierarchy
  <2>1. /\ UNCHANGED <<paje, nfVars, arguments, location_defs>> /\ otf2 = "start"
        /\ otf2' = "hostfile" => arguments.hostfile
    BY <1>1 DEF ChooseHierarchy, archive, unread
  <2> QED
    BY <2>1, HostStays DEF HostInv
<1>2. CASE HostfileEnds \/ DefinitionsEnd
  <2>1. /\ UNCHANGED <<paje, nfVars, arguments, location_defs>>
        /\ otf2 # "undefined" /\ otf2' \in {"definitions", "events", "failed"}
    BY <1>2 DEF HostfileEnds, DefinitionsEnd, archive, unread
  <2> QED
    BY <2>1, HostStays DEF HostInv
<1>3. CASE ReadHostLine
  BY <1>3, HostLineKeeps
<1>4. CASE (\E s \in StringRefs : DefString(s)) \/ (\E r \in RegionRefs : DefRegion(r))
  <2>1. UNCHANGED <<paje, nfVars, arguments, location_defs, otf2>> /\ otf2 = "definitions"
    BY <1>4 DEF DefString, DefRegion, OneOfKind, unread
  <2> QED
    BY <2>1, HostStays DEF HostInv
<1>5. CASE \E self \in NodeRefs, name \in NodeNames, class \in ClassNames,
             p \in {-1} \cup NodeRefs : DefSystemTreeNode(self, name, class, p)
  <2>1. PICK self \in NodeRefs, name \in NodeNames, class \in ClassNames,
             p \in {-1} \cup NodeRefs : DefSystemTreeNode(self, name, class, p)
    BY <1>5
  <2>2. /\ UNCHANGED <<nfVars, arguments, location_defs>> /\ otf2 = "definitions"
        /\ otf2' \in {"definitions", "undefined"}
    BY <2>1 DEF DefSystemTreeNode, OneOfKind, unread, HostfileNode, TreeNode
  <2>3. arguments.hostfile => UNCHANGED paje
    BY <2>1 DEF DefSystemTreeNode, HostfileNode
  <2>4. CASE arguments.hostfile
    BY <2>2, <2>3, <2>4, HostStays DEF HostInv
  <2>5. CASE ~arguments.hostfile
    BY <2>2, <2>5, WithoutHostfile DEF nfVars
  <2> QED
    BY <2>4, <2>5
<1>6. CASE \E self \in 0..(MaxGroups - 1), name \in NodeNames, p \in NodeRefs :
             DefLocationGroup(self, name, p)
  <2>1. PICK self \in 0..(MaxGroups - 1), name \in NodeNames, parent \in NodeRefs :
             DefLocationGroup(self, name, parent)
    BY <1>6
  <2>2. /\ otf2 = "definitions" /\ ~arguments.flat => parent \in 0..(Len(nodes) - 1)
        /\ otf2' \in {"definitions", "undefined"} /\ otf2 = "definitions"
        /\ UNCHANGED <<arguments, location_defs>>
    BY <2>1, GroupShape
  <2>3. UNCHANGED <<nf_containers, nf_depth, nf_read>>
    BY <2>1 DEF DefLocationGroup
  <2>4. CASE ~arguments.hostfile
    BY <2>2, <2>3, <2>4, WithoutHostfile
  <2>5. CASE arguments.hostfile /\ name \notin strings
    <3>1. otf2' = "undefined" /\ UNCHANGED <<nf_types, paje>>
      BY <2>1, <2>5, Zenon DEF DefLocationGroup
    <3> QED
      BY <2>2, <2>3, <2>5, <3>1, HostStays DEF nfVars, HostInv
  <2>6. CASE arguments.hostfile /\ name \in strings
    <3> DEFINE type == IF arguments.flat THEN "0" ELSE "H"
               above == IF arguments.flat THEN World
                        ELSE Named(ShortName[containerTree[parent + 1]])
    <3>1. MakeProcess(self, type, above) /\ UNCHANGED otf2
      BY <2>1, <2>6, Zenon DEF DefLocationGroup
    <3>2. above \in Containers /\ type \in Kinds
      <4>1. ~arguments.flat => containerTree[parent + 1] \in Text
        BY <2>2, NodesBelow
      <4>2. ~arguments.flat => Named(ShortName[containerTree[parent + 1]]) \in Containers
        BY <4>1, NamedContainers
      <4> QED
        BY <4>2, NamedContainers DEF Kinds
    <3> HIDE DEF type, above
    <3> QED
      BY <2>2, <2>3, <2>6, <3>1, <3>2, ProcessApart
  <2> QED
    BY <2>4, <2>5, <2>6
<1>7. CASE \E self \in LocationRefs, type \in LocationTypes, g \in 0..(MaxGroups - 1) :
             DefLocation(self, type, g)
  <2>1. PICK self \in LocationRefs, type \in LocationTypes, group \in 0..(MaxGroups - 1) :
             DefLocation(self, type, group)
    BY <1>7
  <2>2. /\ UNCHANGED <<nfVars, arguments>> /\ otf2 = "definitions"
        /\ otf2' \in {"definitions", "undefined"}
    BY <2>1 DEF DefLocation, OneOfKind, unread
  <2>3. CASE arguments.hostfile
    <3>1. groups = <<>> /\ group >= Len(groups)
      BY <2>3 DEF Otf2Placed, GroupsPlaced
    <3>2. otf2' = "undefined" /\ UNCHANGED paje
      BY <2>1, <3>1, Zenon DEF DefLocation
    <3> QED
      BY <2>2, <3>2, HostStays
  <2>4. CASE ~arguments.hostfile
    BY <2>2, <2>4, WithoutHostfile DEF nfVars
  <2> QED
    BY <2>3, <2>4
<1>8. CASE \E l \in LocationRefs, r \in RegionRefs : EnterRegion(l, r) \/ LeaveRegion(l, r)
  <2>1. PICK l \in LocationRefs, r \in RegionRefs : EnterRegion(l, r) \/ LeaveRegion(l, r)
    BY <1>8
  <2>2. /\ otf2 = "events" /\ otf2' \in {"events", "undefined"}
        /\ l \in {location_defs[i].self : i \in DOMAIN location_defs}
        /\ UNCHANGED <<nfVars, arguments>>
    BY <2>1 DEF EnterRegion, LeaveRegion, RegionEvent, PrintedEvent
  <2>3. ~arguments.hostfile
    <3>1. location_defs # <<>>
      BY <2>2
    <3> QED
      BY <2>2, <3>1 DEF HostInv
  <2> QED
    BY <2>2, <2>3, WithoutHostfile DEF nfVars
<1>9. CASE Otf2Close
  <2>1. /\ otf2 = "events" /\ otf2' = "closed"
        /\ UNCHANGED <<nfVars, arguments, location_defs>>
    BY <1>9 DEF Otf2Close, archive
  <2>2. CASE ~arguments.hostfile
    BY <2>1, <2>2, WithoutHostfile DEF nfVars
  <2>3. CASE arguments.hostfile
    <3>1. Len(locations) = 0
      <4>1. location_defs = <<>>
        BY <2>1, <2>3 DEF HostInv
      <4> QED
        BY <4>1 DEF Otf2Placed, GroupsPlaced
    <3>2. PICK time, upTo : Closes(time, upTo)
      BY <1>9, CloseShape
    <3>3. paje' = paje
      BY <3>1, <3>2 DEF Closes
    <3> QED
      BY <2>1, <2>3, <3>3, HostStays DEF HostInv
  <2> QED
    BY <2>2, <2>3
<1>10. CASE UNCHANGED otf2Vars
  BY <1>10, HostStays DEF otf2Vars, archive, HostInv
<1> QED
  BY <1>1, <1>2, <1>3, <1>4, <1>5, <1>6, <1>7, <1>8, <1>9, <1>10 DEF Otf2Next

LEMMA HostInit ==
  ASSUME Otf2Init, arguments \in CommandLines, RunBy("otf22paje"), HostNamesPlain
  PROVE  HostInv
<1>1. /\ paje = NewTrace /\ nf_types = {} /\ nf_containers = {} /\ nf_depth = -1
      /\ nf_read = <<>> /\ otf2 = "start" /\ location_defs = <<>>
  BY PlacedInit DEF Otf2Init, Otf2Start, HostfileInit
<1>2. AllPlaces = {}
  BY <1>1 DEF AllPlaces
<1>3. HostRead /\ RefusedProcesses /\ CreatedAt(paje, nf_containers, AllPlaces)
  BY <1>1, <1>2 DEF HostRead, RefusedProcesses, CreatedAt, PlacesOf
<1>4. Fits(Declared(paje), AllPlaces, nf_depth - 1)
  <2>1. /\ Declared(paje).trace = NewTrace /\ Declared(paje).types = {}
        /\ Declared(paje).names = {}
    BY <1>1 DEF Declared
  <2>2. OthersUnused(NewTrace, {})
    <3>1. World = Named("0") /\ World \in Containers
      BY NamedContainers DEF World, Named
    <3>2. \A x \in ContainerTexts : Named(x) \in Containers
      BY NamedContainers
    <3>3. \A x : Named(x) = World => x = "0"
      BY DEF World, Named
    <3> QED
      BY <3>1, <3>2, <3>3 DEF OthersUnused, NewTrace
  <2>3. NewTrace.refused = {}
    BY DEF NewTrace
  <2> QED
    BY <2>1, <2>2, <2>3 DEF Fits, CreatedAt, TypesDeclared
<1> QED
  BY <1>1, <1>3, <1>4 DEF HostInv

LEMMA HostMeans ==
  ASSUME HostInv
  PROVE  HostfilePlaced
<1>1. ASSUME NEW p \in AllPlaces, OnePlace(p[1])
      PROVE  paje.kind[Named(p[1])] = p[2] /\ paje.parent[Named(p[1])] = Named(p[3])
  <2>1. p[1] \in nf_containers
    BY DEF HostInv, HostRead
  <2>2. PICK q \in AllPlaces : /\ q[1] = p[1] /\ paje.kind[Named(p[1])] = q[2]
                               /\ paje.parent[Named(p[1])] = Named(q[3])
    BY <2>1 DEF HostInv, CreatedAt
  <2>3. p = q
    BY <1>1, <2>2 DEF OnePlace
  <2> QED
    BY <2>2, <2>3
<1>2. ASSUME \A p \in AllPlaces : OnePlace(p[1]), NEW line \in paje.refused
      PROVE  line[2][1] \notin nf_containers
  <2>1. SUFFICES ASSUME line[2][1] \in nf_containers PROVE FALSE
    OBVIOUS
  <2>2. EachOnce(AllPlaces)
    BY <1>2 DEF EachOnce, OnePlace
  <2>3. PICK g \in 0..(MaxGroups - 1) : line[2] = Thread(g)
    BY <2>1, <2>2 DEF HostInv, RefusedProcesses
  <2>4. line[2][1] = "t"
    BY <2>3 DEF Thread
  <2>5. PICK p \in AllPlaces : p[1] = "t"
    BY <2>1, <2>4 DEF HostInv, CreatedAt
  <2>6. PICK described \in HostLines : p \in Places(described)
    BY DEF AllPlaces, HostInv, HostRead
  <2>7. Named(p[1]) = Thread(0) /\ 0 \in 0..(MaxGroups - 1)
    <3>1. MaxGroups \in Nat
      BY Otf2Assumption
    <3> QED
      BY <2>3, <2>5, <3>1 DEF Named, Thread
  <2> QED
    BY <2>6, <2>7 DEF HostInv, HostNamesPlain
<1> QED
  BY <1>1, <1>2 DEF HostfilePlaced

\* The machine of a hostfile of any length is printed as its lines describe it, each name
\* once and in the right place, whatever archive follows, if no name is the one of the
\* container of all or of a process.
THEOREM HostfileIsPlaced ==
  Otf2Spec /\ arguments \in CommandLines /\ RunBy("otf22paje") /\ HostNamesPlain
    => []HostfilePlaced
<1>1. Otf2Init /\ arguments \in CommandLines /\ RunBy("otf22paje") /\ HostNamesPlain
        => Otf2Placed /\ HostInv
  BY PlacedInit, HostInit
<1>2. Otf2Placed /\ HostInv /\ [Otf2Next]_otf2Vars => (Otf2Placed /\ HostInv)'
  BY Otf2PlacedKeeps, HostKeeps
<1>3. HostInv => HostfilePlaced
  BY HostMeans
<1> QED
  BY <1>1, <1>2, <1>3, PTL DEF Otf2Spec

(***************************************************************************)
(* The filters of the text of otf2-print.                                  *)
(***************************************************************************)
LineKinds == {"ENTER", "LEAVE", "METRIC", "THREAD_TEAM_BEGIN", "THREAD_TASK_SWITCH"}
LineRead ==
  [kind : LineKinds, thread : OmpThreads, region : OmpRegions \cup {"none"}, value : Nat]
ContainerWritten == [code : {"6"}, thread : OmpThreads \cup {0}]
StateWritten ==
  [code : {"12", "14"}, thread : OmpThreads, region : OmpRegions, job : Nat \cup {NoJob},
   metrics : Seq(Nat)]
LineWritten == ContainerWritten \cup StateWritten

OmpTypeOK ==
  /\ script \in {"pl", "sh", "none"} /\ filter \in {"read", "closed"}
  /\ created \subseteq OmpThreads \cup {0}
  /\ jobid \in [OmpThreads -> Nat \cup {NoJob}] /\ metrics \in Seq(Nat)
  /\ strbuffer \in Seq(LineWritten) /\ output \in Seq(LineWritten)
  /\ script # "pl" => strbuffer = <<>>
  /\ filter = "closed" => strbuffer = <<>>
  /\ lines_read \in Seq(LineRead)
  /\ \A i \in 1..Len(lines_read) : lines_read[i].value = i

\* The containers among the lines written are those created, each once.
ContainersMade(written, made) ==
  /\ \A th : th \in made <=> \E i \in 1..Len(written) : written[i] = ContainerLine(th)
  /\ \A i, j \in 1..Len(written) :
       written[i].code = "6" /\ written[i] = written[j] => i = j
\* The container of a state comes before it, or its thread was not said to begin.
Unbegun == {th \in OmpThreads : ~BegunFirst(th)}
StatesHoused(written, unbegun) ==
  \A n \in 1..Len(written) : written[n].code # "6" =>
    \/ \E i \in 1..(n - 1) : written[i] = ContainerLine(written[n].thread)
    \/ written[n].thread \in unbegun
BegunCreated ==
  script = "pl" =>
    \A th \in OmpThreads : th = 0 \/ Begun(th, Len(lines_read)) => th \in created

\* What waits to be printed with the next event.
WaitsForEvent ==
  /\ ToSet(metrics) = MetricsOf(Len(lines_read) + 1)
  /\ \A th \in OmpThreads : {jobid[th]} \ {NoJob} = JobsOf(th, Len(lines_read) + 1)

OmpInv ==
  /\ OmpTypeOK /\ BegunCreated
  /\ ContainersMade(Written, created) /\ StatesHoused(Written, Unbegun)
  /\ script = "pl" => WaitsForEvent /\ OmpEventsExplained

LEMMA WrittenLines ==
  /\ \A th \in OmpThreads \cup {0} : ContainerLine(th) \in LineWritten
  /\ \A th : ContainerLine(th).code = "6" /\ ContainerLine(th).thread = th
  /\ \A th \in OmpThreads, region \in OmpRegions, job \in Nat \cup {NoJob}, ms \in Seq(Nat),
        code \in {"12", "14"} : StateLine(code, th, region, job, ms) \in StateWritten
  /\ \A code, th, region, job, ms : LET line == StateLine(code, th, region, job, ms)
       IN /\ line.code = code /\ line.thread = th /\ line.region = region
          /\ line.job = job /\ line.metrics = ms
BY DEF ContainerLine, StateLine, LineWritten, ContainerWritten, StateWritten

LEMMA Extends ==
  ASSUME NEW S, NEW s \in Seq(S), NEW x \in S
  PROVE  /\ Append(s, x) \in Seq(S) /\ Len(s) \in Nat /\ Len(Append(s, x)) = Len(s) + 1
         /\ \A i \in 1..Len(s) : Append(s, x)[i] = s[i]
         /\ Append(s, x)[Len(s) + 1] = x
         /\ \A i \in 1..(Len(s) + 1) : i \in 1..Len(s) \/ i = Len(s) + 1
         /\ 1..Len(s) \subseteq 1..(Len(s) + 1) /\ Len(s) + 1 \in 1..(Len(s) + 1)
         /\ Len(s) + 1 \notin 1..Len(s) /\ Len(s) + 1 - 1 = Len(s)
OBVIOUS

\* A line given to bufferize is the next one written.
LEMMA Bufferized ==
  ASSUME OmpTypeOK, NEW line \in LineWritten, Bufferize(line)
  PROVE  /\ Written' = Append(Written, line)
         /\ strbuffer' \in Seq(LineWritten) /\ output' \in Seq(LineWritten)
<1> DEFINE waiting == Append(strbuffer, line)
<1>1. strbuffer \in Seq(LineWritten) /\ output \in Seq(LineWritten)
  BY DEF OmpTypeOK
<1>2. waiting \in Seq(LineWritten)
  BY <1>1
<1>3. output \o waiting = Append(output \o strbuffer, line)
  BY <1>1
<1>4. \/ output' = output \o waiting /\ strbuffer' = <<>>
      \/ strbuffer' = waiting /\ output' = output
  BY DEF Bufferize
<1>5. (output \o waiting) \o <<>> = output \o waiting /\ output \o waiting \in Seq(LineWritten)
  BY <1>1, <1>2
<1> HIDE DEF waiting
<1>6. output' \o strbuffer' = output \o waiting
  BY <1>4, <1>5
<1>7. Written' = output' \o strbuffer' /\ Written = output \o strbuffer
  BY DEF Written
<1>8. strbuffer' \in Seq(LineWritten) /\ output' \in Seq(LineWritten)
  <2>1. CASE output' = output \o waiting /\ strbuffer' = <<>>
    <3>1. <<>> \in Seq(LineWritten)
      OBVIOUS
    <3> QED
      BY <2>1, <3>1, <1>5
  <2>2. CASE strbuffer' = waiting /\ output' = output
    BY <2>2, <1>1, <1>2
  <2> QED
    BY <1>4, <2>1, <2>2
<1> QED
  BY <1>3, <1>6, <1>7, <1>8

LEMMA ContainerAppended ==
  ASSUME NEW written \in Seq(LineWritten), NEW made, ContainersMade(written, made),
         NEW th \in (OmpThreads \cup {0}) \ made
  PROVE  ContainersMade(Append(written, ContainerLine(th)), made \cup {th})
<1> DEFINE after == Append(written, ContainerLine(th))
           n == Len(written)
<1>1. ContainerLine(th) \in LineWritten /\ \A x, y : ContainerLine(x) = ContainerLine(y) => x = y
  <2>1. \A x, y : ContainerLine(x) = ContainerLine(y) => x = y
    <3> TAKE x, y
    <3> QED
      BY WrittenLines
  <2> QED
    BY <2>1, WrittenLines
<1>2. /\ n \in Nat /\ Len(after) = n + 1 /\ after[n + 1] = ContainerLine(th)
      /\ \A i \in 1..n : after[i] = written[i]
      /\ \A i \in 1..(n + 1) : i \in 1..n \/ i = n + 1
      /\ 1..n \subseteq 1..(n + 1) /\ n + 1 \in 1..(n + 1)
  BY <1>1, Extends
<1> HIDE DEF after, n
<1>3. \A x : x \in made \cup {th} <=> \E i \in 1..(n + 1) : after[i] = ContainerLine(x)
  BY <1>1, <1>2 DEF ContainersMade, n
<1>4. \A i \in 1..n : written[i] # ContainerLine(th)
  BY DEF ContainersMade, n
<1>5. \A i, j \in 1..(n + 1) : after[i].code = "6" /\ after[i] = after[j] => i = j
  <2> TAKE i, j \in 1..(n + 1)
  <2>1. CASE i \in 1..n /\ j \in 1..n
    BY <1>2, <2>1 DEF ContainersMade, n
  <2>2. CASE i = n + 1 \/ j = n + 1
    BY <1>2, <1>4, <2>2
  <2> QED
    BY <1>2, <2>1, <2>2
<1> QED
  BY <1>2, <1>3, <1>5 DEF ContainersMade, after

LEMMA StateAppended ==
  ASSUME NEW written \in Seq(LineWritten), NEW made, ContainersMade(written, made),
         NEW line \in StateWritten
  PROVE  ContainersMade(Append(written, line), made)
<1> DEFINE after == Append(written, line)
           n == Len(written)
<1>1. line.code # "6" /\ line \in LineWritten
  BY DEF StateWritten, LineWritten
<1>2. \A x : line # ContainerLine(x)
  BY <1>1, WrittenLines
<1>3. /\ n \in Nat /\ Len(after) = n + 1 /\ after[n + 1] = line
      /\ \A i \in 1..n : after[i] = written[i]
      /\ \A i \in 1..(n + 1) : i \in 1..n \/ i = n + 1
      /\ 1..n \subseteq 1..(n + 1)
  BY <1>1, Extends
<1> HIDE DEF after, n
<1>4. \A x : x \in made <=> \E i \in 1..(n + 1) : after[i] = ContainerLine(x)
  BY <1>2, <1>3 DEF ContainersMade, n
<1>5. \A i, j \in 1..(n + 1) : after[i].code = "6" /\ after[i] = after[j] => i = j
  <2> TAKE i, j \in 1..(n + 1)
  <2>1. CASE i \in 1..n /\ j \in 1..n
    BY <1>3, <2>1 DEF ContainersMade, n
  <2>2. CASE i = n + 1 \/ j = n + 1
    BY <1>1, <1>3, <2>2
  <2> QED
    BY <1>3, <2>1, <2>2
<1> QED
  BY <1>3, <1>4, <1>5 DEF ContainersMade, after

\* One more line read.
Reads(line) ==
  /\ line \in LineRead /\ line.value = Len(lines_read) + 1
  /\ lines_read' = Append(lines_read, line) /\ script' = script

LEMMA LineReads ==
  ASSUME OmpTypeOK, NEW line, Reads(line)
  PROVE  LET n == Len(lines_read)
         IN /\ n \in Nat /\ Len(lines_read') = n + 1 /\ lines_read'[n + 1] = line
            /\ \A i \in 1..n : lines_read'[i] = lines_read[i]
            /\ DOMAIN lines_read = 1..n /\ DOMAIN lines_read' = 1..(n + 1)
            /\ \A i \in 1..(n + 1) : i \in 1..n \/ i = n + 1
            /\ 1..n \subseteq 1..(n + 1) /\ n + 1 \in 1..(n + 1) /\ n + 1 - 1 = n
            /\ lines_read' \in Seq(LineRead)
            /\ \A i \in 1..(n + 1) : lines_read'[i].value = i
<1> DEFINE n == Len(lines_read)
<1>1. /\ lines_read \in Seq(LineRead) /\ line \in LineRead /\ lines_read' = Append(lines_read, line)
      /\ \A i \in 1..n : lines_read[i].value = i
      /\ line.value = n + 1
  BY DEF OmpTypeOK, Reads
<1>2. /\ n \in Nat /\ Len(lines_read') = n + 1 /\ lines_read'[n + 1] = line
      /\ \A i \in 1..n : lines_read'[i] = lines_read[i]
      /\ \A i \in 1..(n + 1) : i \in 1..n \/ i = n + 1
      /\ 1..n \subseteq 1..(n + 1) /\ n + 1 \in 1..(n + 1) /\ n + 1 - 1 = n
      /\ lines_read' \in Seq(LineRead)
  BY <1>1, Extends
<1>3. DOMAIN lines_read = 1..n /\ DOMAIN lines_read' = 1..(n + 1)
  BY <1>1, <1>2
<1> HIDE DEF n
<1>4. \A i \in 1..(n + 1) : lines_read'[i].value = i
  BY <1>1, <1>2
<1> QED
  BY <1>2, <1>3, <1>4 DEF n

LEMMA BegunStays ==
  ASSUME OmpTypeOK, NEW line, Reads(line), NEW n, n = Len(lines_read)
  PROVE  /\ \A th : ~BegunFirst(th) => ~BegunFirst(th)'
         /\ \A th : Begun(th, n + 1)' =>
              Begun(th, n) \/ (line.thread = th /\ line.kind = "THREAD_TEAM_BEGIN")
         /\ IsEvent(line) /\ script = "pl" /\ line.thread # 0 /\ ~Begun(line.thread, n)
              => ~BegunFirst(line.thread)'
<1>1. /\ n \in Nat /\ Len(lines_read') = n + 1 /\ lines_read'[n + 1] = line
      /\ \A i \in 1..n : lines_read'[i] = lines_read[i]
      /\ DOMAIN lines_read = 1..n /\ DOMAIN lines_read' = 1..(n + 1)
      /\ \A i \in 1..(n + 1) : i \in 1..n \/ i = n + 1
      /\ 1..n \subseteq 1..(n + 1) /\ n + 1 \in 1..(n + 1) /\ n + 1 - 1 = n
      /\ script' = script
  BY LineReads DEF Reads
<1>2. \A th, m : Begun(th, m)' <=>
        \E i \in 1..m : lines_read'[i].thread = th /\ lines_read'[i].kind = "THREAD_TEAM_BEGIN"
  BY DEF Begun
<1>3. \A th : \A m \in 0..n : Begun(th, m)' <=> Begun(th, m)
  <2> TAKE th
  <2> TAKE m \in 0..n
  <2>1. \A i \in 1..m : i \in 1..n
    BY <1>1
  <2> QED
    BY <1>1, <1>2, <2>1 DEF Begun
<1>4. \A th : BegunFirst(th)' <=>
        \/ script = "sh" \/ th = 0
        \/ \A i \in 1..(n + 1) :
             lines_read'[i].thread = th /\ IsEvent(lines_read'[i]) => Begun(th, i - 1)'
  BY <1>1 DEF BegunFirst, IsEvent, Begun
<1>5. \A i \in 1..n : i - 1 \in 0..n
  BY <1>1
<1>6. \A th : BegunFirst(th)' => BegunFirst(th)
  BY <1>1, <1>3, <1>4, <1>5 DEF BegunFirst
<1>7. \A th : Begun(th, n + 1)' =>
        Begun(th, n) \/ (line.thread = th /\ line.kind = "THREAD_TEAM_BEGIN")
  BY <1>1, <1>2 DEF Begun
<1>8. n \in 0..n
  BY <1>1
<1>9. IsEvent(line) /\ script = "pl" /\ line.thread # 0 /\ ~Begun(line.thread, n)
        => ~BegunFirst(line.thread)'
  BY <1>1, <1>3, <1>4, <1>8
<1> QED
  BY <1>6, <1>7, <1>9

\* States stay in their containers, and a new one is in one if its thread has one.
LEMMA HousedStays ==
  ASSUME OmpTypeOK, NEW line, Reads(line), NEW written, StatesHoused(written, Unbegun)
  PROVE  StatesHoused(written, Unbegun')
<1>1. \A th : ~BegunFirst(th) => ~BegunFirst(th)'
  BY BegunStays
<1>2. Unbegun \subseteq Unbegun'
  BY <1>1 DEF Unbegun
<1> QED
  BY <1>2 DEF StatesHoused

LEMMA HousedAppended ==
  ASSUME NEW written \in Seq(LineWritten), NEW line \in LineWritten, NEW unbegun,
         StatesHoused(written, unbegun),
         \/ line.code = "6"
         \/ \E i \in 1..Len(written) : written[i] = ContainerLine(line.thread)
         \/ line.thread \in unbegun
  PROVE  StatesHoused(Append(written, line), unbegun)
<1> DEFINE after == Append(written, line)
           n == Len(written)
<1>1. /\ n \in Nat /\ Len(after) = n + 1 /\ after[n + 1] = line
      /\ \A i \in 1..n : after[i] = written[i]
      /\ \A i \in 1..(n + 1) : i \in 1..n \/ i = n + 1
      /\ n + 1 - 1 = n
  BY Extends
<1> HIDE DEF after, n
<1>2. \A m \in 1..n : \A i \in 1..(m - 1) : i \in 1..n
  BY <1>1
<1>3. \A m \in 1..(n + 1) : after[m].code # "6" =>
        \/ \E i \in 1..(m - 1) : after[i] = ContainerLine(after[m].thread)
        \/ after[m].thread \in unbegun
  <2> TAKE m \in 1..(n + 1)
  <2>1. CASE m \in 1..n
    BY <1>1, <1>2, <2>1 DEF StatesHoused, n
  <2>2. CASE m = n + 1
    BY <1>1, <2>2 DEF n
  <2> QED
    BY <1>1, <2>1, <2>2
<1> QED
  BY <1>1, <1>3 DEF StatesHoused, after

\* What explains a line read does not change when another is read.
LEMMA ExplanationsStay ==
  ASSUME OmpTypeOK, NEW line, Reads(line), NEW n, n = Len(lines_read)
  PROVE  /\ \A i \in 1..(n + 1) : MetricsOf(i)' = MetricsOf(i)
         /\ \A th : \A i \in 1..(n + 1) : JobsOf(th, i)' = JobsOf(th, i)
         /\ \A i \in 1..n : EventsTo(i)' = EventsTo(i)
         /\ \A i \in 1..n : \A written : Explains(i, written) => Explains(i, written)'
         /\ EventsTo(n + 1)' = EventsTo(n) \cup (IF IsEvent(line) THEN {n + 1} ELSE {})
<1>1. /\ n \in Nat /\ lines_read'[n + 1] = line
      /\ \A i \in 1..n : lines_read'[i] = lines_read[i]
      /\ \A i \in 1..(n + 1) : i \in 1..n \/ i = n + 1
      /\ 1..n \subseteq 1..(n + 1) /\ n + 1 \in 1..(n + 1)
  BY LineReads
<1>2. \A i \in 1..(n + 1) : \A j \in 1..(i - 1) : j \in 1..n /\ \A k \in j..(i - 1) : k \in 1..n
  BY <1>1
<1>3. \A i \in 1..(n + 1) : MetricsOf(i)' = MetricsOf(i)
  <2> TAKE i \in 1..(n + 1)
  <2>1. \A j \in 1..(i - 1) : lines_read'[j] = lines_read[j]
    BY <1>1, <1>2
  <2>2. \A j \in 1..(i - 1) : \A k \in j..(i - 1) : lines_read'[k] = lines_read[k]
    BY <1>1, <1>2
  <2>3. MetricsOf(i)' = {j \in 1..(i - 1) : /\ lines_read'[j].kind = "METRIC"
                           /\ \A k \in j..(i - 1) : ~IsEvent(lines_read'[k])}
    BY DEF MetricsOf, IsEvent
  <2>4. MetricsOf(i) = {j \in 1..(i - 1) : /\ lines_read[j].kind = "METRIC"
                           /\ \A k \in j..(i - 1) : ~IsEvent(lines_read[k])}
    BY DEF MetricsOf
  <2> QED
    BY <2>1, <2>2, <2>3, <2>4
<1>4. \A th : \A i \in 1..(n + 1) : JobsOf(th, i)' = JobsOf(th, i)
  <2> TAKE th
  <2> TAKE i \in 1..(n + 1)
  <2>1. \A j \in 1..(i - 1) : lines_read'[j] = lines_read[j]
    BY <1>1, <1>2
  <2>2. \A j \in 1..(i - 1) : \A k \in (j + 1)..(i - 1) : lines_read'[k] = lines_read[k]
    BY <1>1, <1>2
  <2> QED
    BY <2>1, <2>2 DEF JobsOf
<1>5. \A i \in 1..n : EventsTo(i)' = EventsTo(i)
  <2> TAKE i \in 1..n
  <2>1. \A j \in 1..i : lines_read'[j] = lines_read[j]
    BY <1>1
  <2> QED
    BY <2>1 DEF EventsTo, IsEvent
<1>6. \A i \in 1..n : \A written : Explains(i, written) => Explains(i, written)'
  <2> TAKE i \in 1..n
  <2> TAKE written
  <2>1. MetricsOf(i)' = MetricsOf(i) /\ lines_read'[i] = lines_read[i]
    BY <1>1, <1>3
  <2>2. JobsOf(lines_read[i].thread, i)' = JobsOf(lines_read[i].thread, i)
    <3>1. PICK th : th = lines_read[i].thread
      OBVIOUS
    <3>2. lines_read'[i].thread = th
      BY <2>1, <3>1
    <3>3. JobsOf(th, i)' = JobsOf(th, i)
      BY <1>1, <1>4
    <3> QED
      BY <3>1, <3>2, <3>3 DEF JobsOf
  <2> QED
    BY <2>1, <2>2 DEF Explains
<1>7. EventsTo(n + 1)' = EventsTo(n) \cup (IF IsEvent(line) THEN {n + 1} ELSE {})
  <2>1. EventsTo(n + 1)' = {j \in 1..(n + 1) : IsEvent(lines_read'[j])}
    BY DEF EventsTo, IsEvent
  <2>2. EventsTo(n) = {j \in 1..n : IsEvent(lines_read[j])}
    BY DEF EventsTo
  <2> QED
    BY <1>1, <2>1, <2>2
<1> QED
  BY <1>3, <1>4, <1>5, <1>6, <1>7

\* What waits for the next event when another line is read.
LEMMA WaitsNext ==
  ASSUME OmpTypeOK, NEW line, Reads(line), NEW n, n = Len(lines_read)
  PROVE  /\ MetricsOf(n + 2)' =
              IF IsEvent(line) THEN {}
              ELSE MetricsOf(n + 1) \cup (IF line.kind = "METRIC" THEN {n + 1} ELSE {})
         /\ \A th : JobsOf(th, n + 2)' =
              CASE line.thread = th /\ line.kind = "THREAD_TASK_SWITCH" -> {n + 1}
                [] line.thread = th /\ line.kind = "ENTER" -> {}
                [] OTHER -> JobsOf(th, n + 1)
<1>1. /\ n \in Nat /\ lines_read'[n + 1] = line
      /\ \A i \in 1..n : lines_read'[i] = lines_read[i]
      /\ \A i \in 1..(n + 1) : i \in 1..n \/ i = n + 1
      /\ 1..n \subseteq 1..(n + 1) /\ n + 1 \in 1..(n + 1)
  BY LineReads
<1>2. /\ n + 2 - 1 = n + 1 /\ n + 1 - 1 = n
      /\ \A j \in 1..n : /\ \A k : k \in j..(n + 1) <=> k \in j..n \/ k = n + 1
                         /\ \A k : k \in (j + 1)..(n + 1) <=> k \in (j + 1)..n \/ k = n + 1
                         /\ \A k \in j..n : k \in 1..n
                         /\ \A k \in (j + 1)..n : k \in 1..n
      /\ \A k : k \in (n + 1)..(n + 1) <=> k = n + 1
      /\ \A k : k \notin (n + 1 + 1)..(n + 1)
      /\ n + 1 \notin 1..n
  BY <1>1
<1>3. MetricsOf(n + 2)' = {j \in 1..(n + 1) : /\ lines_read'[j].kind = "METRIC"
                              /\ \A k \in j..(n + 1) : ~IsEvent(lines_read'[k])}
  BY <1>2 DEF MetricsOf, IsEvent
<1>4. MetricsOf(n + 1) = {j \in 1..n : /\ lines_read[j].kind = "METRIC"
                              /\ \A k \in j..n : ~IsEvent(lines_read[k])}
  BY <1>2 DEF MetricsOf
<1>5. \A j \in 1..n : j \in MetricsOf(n + 2)' <=> j \in MetricsOf(n + 1) /\ ~IsEvent(line)
  BY <1>1, <1>2, <1>3, <1>4
<1>6. n + 1 \in MetricsOf(n + 2)' <=> line.kind = "METRIC" /\ ~IsEvent(line)
  BY <1>1, <1>2, <1>3
<1>7. MetricsOf(n + 2)' =
        IF IsEvent(line) THEN {}
        ELSE MetricsOf(n + 1) \cup (IF line.kind = "METRIC" THEN {n + 1} ELSE {})
  <2>1. \A j \in MetricsOf(n + 2)' : j \in 1..n \/ j = n + 1
    BY <1>1, <1>3
  <2>2. MetricsOf(n + 1) \subseteq 1..n
    BY <1>4
  <2>3. IsEvent(line) \in BOOLEAN
    BY DEF IsEvent
  <2>4. CASE IsEvent(line)
    BY <1>5, <1>6, <2>1, <2>4
  <2>5. CASE ~IsEvent(line)
    BY <1>5, <1>6, <2>1, <2>2, <2>5
  <2> QED
    BY <2>3, <2>4, <2>5
<1>8. ASSUME NEW th
      PROVE  JobsOf(th, n + 2)' =
               CASE line.thread = th /\ line.kind = "THREAD_TASK_SWITCH" -> {n + 1}
                 [] line.thread = th /\ line.kind = "ENTER" -> {}
                 [] OTHER -> JobsOf(th, n + 1)
  <2> DEFINE Ends(l) == l.thread = th /\ l.kind \in {"ENTER", "THREAD_TASK_SWITCH"}
  <2>1. JobsOf(th, n + 2)' =
          {j \in 1..(n + 1) : /\ lines_read'[j].thread = th
                              /\ lines_read'[j].kind = "THREAD_TASK_SWITCH"
                              /\ \A k \in (j + 1)..(n + 1) : ~Ends(lines_read'[k])}
    BY <1>2 DEF JobsOf
  <2>2. JobsOf(th, n + 1) =
          {j \in 1..n : /\ lines_read[j].thread = th
                        /\ lines_read[j].kind = "THREAD_TASK_SWITCH"
                        /\ \A k \in (j + 1)..n : ~Ends(lines_read[k])}
    BY <1>2 DEF JobsOf
  <2> HIDE DEF Ends
  <2>3. \A j \in 1..n : j \in JobsOf(th, n + 2)' <=> j \in JobsOf(th, n + 1) /\ ~Ends(line)
    BY <1>1, <1>2, <2>1, <2>2
  <2>4. n + 1 \in JobsOf(th, n + 2)'
          <=> line.thread = th /\ line.kind = "THREAD_TASK_SWITCH"
    BY <1>1, <1>2, <2>1
  <2>5. \A j \in JobsOf(th, n + 2)' : j \in 1..n \/ j = n + 1
    BY <1>1, <2>1
  <2>6. JobsOf(th, n + 1) \subseteq 1..n
    BY <2>2
  <2>7. JobsOf(th, n + 2)' =
          (IF Ends(line) THEN {} ELSE JobsOf(th, n + 1))
            \cup (IF line.thread = th /\ line.kind = "THREAD_TASK_SWITCH" THEN {n + 1} ELSE {})
    BY <1>2, <2>3, <2>4, <2>5, <2>6
  <2> QED
    BY <2>7 DEF Ends
<1> QED
  BY <1>7, <1>8

\* The states written when one more line is written.
LEMMA StatesAppended ==
  ASSUME Written \in Seq(LineWritten), NEW line \in LineWritten,
         Written' = Append(Written, line), NEW n, n = Len(Written)
  PROVE  /\ n \in Nat /\ Len(Written') = n + 1 /\ Written'[n + 1] = line
         /\ \A i \in 1..n : Written'[i] = Written[i] /\ StatesTo(i)' = StatesTo(i)
         /\ StatesTo(n + 1)' = StatesTo(n) \cup (IF line.code # "6" THEN {n + 1} ELSE {})
<1>1. /\ n \in Nat /\ Len(Written') = n + 1 /\ Written'[n + 1] = line
      /\ \A i \in 1..n : Written'[i] = Written[i]
      /\ \A i \in 1..(n + 1) : i \in 1..n \/ i = n + 1
      /\ 1..n \subseteq 1..(n + 1) /\ n + 1 \in 1..(n + 1)
  BY Extends
<1>2. \A i : StatesTo(i)' = {m \in 1..i : Written'[m].code # "6"}
  BY DEF StatesTo
<1>3. \A i : StatesTo(i) = {m \in 1..i : Written[m].code # "6"}
  BY DEF StatesTo
<1>4. \A i \in 1..n : StatesTo(i)' = StatesTo(i)
  <2> TAKE i \in 1..n
  <2>1. \A m \in 1..i : Written'[m] = Written[m]
    BY <1>1
  <2> QED
    BY <1>2, <1>3, <2>1
<1>5. StatesTo(n + 1)' = StatesTo(n) \cup (IF line.code # "6" THEN {n + 1} ELSE {})
  BY <1>1, <1>2, <1>3
<1> QED
  BY <1>1, <1>4, <1>5

LEMMA CountsGrow ==
  ASSUME Len(lines_read) \in Nat, Len(Written) \in Nat
  PROVE  /\ \A i \in Nat : IsFiniteSet(EventsTo(i)) /\ IsFiniteSet(StatesTo(i))
                           /\ i + 1 \notin EventsTo(i) /\ i + 1 \notin StatesTo(i)
         /\ \A j \in Nat : \A i \in 1..j : /\ Cardinality(EventsTo(i)) <= Cardinality(EventsTo(j))
                                           /\ Cardinality(StatesTo(i)) <= Cardinality(StatesTo(j))
         /\ \A i \in Nat : Cardinality(EventsTo(i)) \in Nat /\ Cardinality(StatesTo(i)) \in Nat
<1>1. \A i \in Nat : EventsTo(i) \subseteq 1..i /\ StatesTo(i) \subseteq 1..i
  BY DEF EventsTo, StatesTo
<1>2. \A i \in Nat : IsFiniteSet(EventsTo(i)) /\ IsFiniteSet(StatesTo(i))
  <2> TAKE i \in Nat
  <2>1. IsFiniteSet(1..i)
    BY FS_Interval
  <2> QED
    BY <1>1, <2>1, FS_Subset
<1>3. \A j \in Nat : \A i \in 1..j : EventsTo(i) \subseteq EventsTo(j) /\ StatesTo(i) \subseteq StatesTo(j)
  <2> TAKE j \in Nat
  <2> TAKE i \in 1..j
  <2>1. 1..i \subseteq 1..j
    OBVIOUS
  <2> QED
    BY <2>1 DEF EventsTo, StatesTo
<1>4. \A j \in Nat : \A i \in 1..j : /\ Cardinality(EventsTo(i)) <= Cardinality(EventsTo(j))
                                     /\ Cardinality(StatesTo(i)) <= Cardinality(StatesTo(j))
  BY <1>2, <1>3, FS_Subset
<1>5. \A i \in Nat : Cardinality(EventsTo(i)) \in Nat /\ Cardinality(StatesTo(i)) \in Nat
  BY <1>2, FS_CardinalityType
<1>6. \A i \in Nat : i + 1 \notin 1..i
  OBVIOUS
<1> QED
  BY <1>1, <1>2, <1>4, <1>5, <1>6

\* A line that is no event, for which no state is written.
LEMMA ExplainedQuiet ==
  ASSUME OmpTypeOK, Written \in Seq(LineWritten), OmpEventsExplained, script = "pl",
         NEW line, Reads(line), ~IsEvent(line), filter' = "read",
         \/ Written' = Written
         \/ \E th \in OmpThreads \cup {0} : Written' = Append(Written, ContainerLine(th))
  PROVE  OmpEventsExplained'
<1>1. PICK n : n = Len(lines_read)
  OBVIOUS
<1>2. PICK w : w = Len(Written)
  OBVIOUS
<1>3. PICK n1 : n1 = Len(lines_read')
  OBVIOUS
<1>4. PICK w1 : w1 = Len(Written')
  OBVIOUS
<1>5. n \in Nat /\ n1 = n + 1 /\ EventsTo(n1)' = EventsTo(n)
  <2>1. n \in Nat /\ n1 = n + 1
    BY <1>1, <1>3, LineReads
  <2>2. EventsTo(n + 1)' = EventsTo(n) \cup (IF IsEvent(line) THEN {n + 1} ELSE {})
    BY <1>1, ExplanationsStay
  <2> QED
    BY <2>1, <2>2
<1>6. /\ StatesTo(w1)' = StatesTo(w)
      /\ \A m \in StatesTo(w) : StatesTo(m)' = StatesTo(m) /\ Written'[m] = Written[m]
  <2>1. CASE Written' = Written
    BY <1>2, <1>4, <2>1 DEF StatesTo
  <2>2. ASSUME NEW th \in OmpThreads \cup {0}, Written' = Append(Written, ContainerLine(th))
        PROVE  <1>6!1 /\ <1>6!2
    <3>1. PICK made : made = ContainerLine(th)
      OBVIOUS
    <3>2. made \in LineWritten /\ made.code = "6" /\ Written' = Append(Written, made)
      BY <2>2, <3>1, WrittenLines
    <3>3. /\ w \in Nat /\ w1 = w + 1
          /\ \A i \in 1..w : Written'[i] = Written[i] /\ StatesTo(i)' = StatesTo(i)
          /\ StatesTo(w + 1)' = StatesTo(w)
      BY <1>2, <1>4, <3>2, StatesAppended
    <3>4. StatesTo(w) \subseteq 1..w
      BY DEF StatesTo
    <3> QED
      BY <3>3, <3>4
  <2> QED
    BY <2>1, <2>2
<1>7. /\ Cardinality(StatesTo(w)) = Cardinality(EventsTo(n))
      /\ \A m \in StatesTo(w), i \in EventsTo(n) :
           Cardinality(StatesTo(m)) = Cardinality(EventsTo(i)) => Explains(i, Written[m])
  BY <1>1, <1>2 DEF OmpEventsExplained
<1>8. \A i \in EventsTo(n) : /\ EventsTo(i)' = EventsTo(i)
                             /\ \A written : Explains(i, written) => Explains(i, written)'
  <2>1. EventsTo(n) \subseteq 1..n
    BY DEF EventsTo
  <2> QED
    BY <1>1, <2>1, ExplanationsStay
<1>9. ASSUME NEW m \in StatesTo(w1)', NEW i \in EventsTo(n1)',
             Cardinality(StatesTo(m)') = Cardinality(EventsTo(i)')
      PROVE  Explains(i, Written[m])'
  <2>1. m \in StatesTo(w) /\ i \in EventsTo(n)
    BY <1>5, <1>6, <1>9
  <2>2. PICK written : written = Written[m]
    OBVIOUS
  <2>3. Written'[m] = written /\ Explains(i, written)
    BY <1>6, <1>7, <1>8, <1>9, <2>1, <2>2
  <2>4. Explains(i, written)'
    BY <1>8, <2>1, <2>3
  <2> QED
    BY <2>3, <2>4 DEF Explains
<1>10. OmpEventsExplained' <=>
         (script' = "pl" =>
            /\ Cardinality(StatesTo(w1)') = Cardinality(EventsTo(n1)')
            /\ \A m \in StatesTo(w1)', i \in EventsTo(n1)' :
                 Cardinality(StatesTo(m)') = Cardinality(EventsTo(i)') => Explains(i, Written[m])'
            /\ filter' = "closed" => strbuffer' = <<>>)
  BY <1>3, <1>4 DEF OmpEventsExplained, StatesTo, EventsTo, IsEvent
<1> QED
  BY <1>5, <1>6, <1>7, <1>9, <1>10

\* An event, for which one state is written.
LEMMA ExplainedEvent ==
  ASSUME OmpTypeOK, Written \in Seq(LineWritten), OmpEventsExplained, script = "pl",
         NEW line, Reads(line), IsEvent(line), filter' = "read",
         NEW state \in StateWritten, Written' = Append(Written, state),
         NEW n, n = Len(lines_read), Explains(n + 1, state)'
  PROVE  OmpEventsExplained'
<1>1. PICK w : w = Len(Written)
  OBVIOUS
<1>2. state.code # "6" /\ state \in LineWritten
  BY DEF StateWritten, LineWritten
<1>3. n \in Nat /\ Len(lines_read') = n + 1
  BY LineReads
<1>4. EventsTo(n + 1)' = EventsTo(n) \cup {n + 1}
  <2>1. EventsTo(n + 1)' = EventsTo(n) \cup (IF IsEvent(line) THEN {n + 1} ELSE {})
    BY ExplanationsStay
  <2> QED
    BY <2>1
<1>5. /\ w \in Nat /\ Len(Written') = w + 1 /\ Written'[w + 1] = state
      /\ \A m \in 1..w : Written'[m] = Written[m] /\ StatesTo(m)' = StatesTo(m)
      /\ StatesTo(w + 1)' = StatesTo(w) \cup {w + 1}
  BY <1>1, <1>2, StatesAppended
<1>6. \A i \in 1..n : /\ EventsTo(i)' = EventsTo(i)
                      /\ \A written : Explains(i, written) => Explains(i, written)'
  BY ExplanationsStay
<1>7. EventsTo(n) \subseteq 1..n /\ StatesTo(w) \subseteq 1..w
  BY DEF EventsTo, StatesTo
<1>8. /\ Cardinality(StatesTo(w)) = Cardinality(EventsTo(n))
      /\ \A m \in StatesTo(w), i \in EventsTo(n) :
           Cardinality(StatesTo(m)) = Cardinality(EventsTo(i)) => Explains(i, Written[m])
  BY <1>1 DEF OmpEventsExplained
<1>9. /\ Cardinality(StatesTo(w)) \in Nat
      /\ Cardinality(StatesTo(w + 1)') = Cardinality(StatesTo(w)) + 1
      /\ Cardinality(EventsTo(n + 1)') = Cardinality(EventsTo(n)) + 1
  <2>1. /\ IsFiniteSet(StatesTo(w)) /\ w + 1 \notin StatesTo(w)
        /\ IsFiniteSet(EventsTo(n)) /\ n + 1 \notin EventsTo(n)
        /\ Cardinality(StatesTo(w)) \in Nat
    BY <1>1, <1>3, <1>5, CountsGrow
  <2>2. /\ Cardinality(StatesTo(w) \cup {w + 1}) = Cardinality(StatesTo(w)) + 1
        /\ Cardinality(EventsTo(n) \cup {n + 1}) = Cardinality(EventsTo(n)) + 1
    BY <2>1, FS_AddElement
  <2> QED
    BY <1>4, <1>5, <2>1, <2>2
<1>10. /\ \A m \in 1..w : Cardinality(StatesTo(m)) <= Cardinality(StatesTo(w))
       /\ \A i \in 1..n : Cardinality(EventsTo(i)) <= Cardinality(EventsTo(n))
       /\ \A m \in 1..w : Cardinality(StatesTo(m)) \in Nat
       /\ \A i \in 1..n : Cardinality(EventsTo(i)) \in Nat
  <2>1. \A m : (m \in 1..w => m \in Nat) /\ (m \in 1..n => m \in Nat)
    BY <1>3, <1>5
  <2> QED
    BY <1>1, <1>3, <1>5, <2>1, CountsGrow
<1>11. ASSUME NEW m \in StatesTo(w + 1)', NEW i \in EventsTo(n + 1)',
              Cardinality(StatesTo(m)') = Cardinality(EventsTo(i)')
       PROVE  Explains(i, Written[m])'
  <2>1. CASE m \in 1..w /\ i \in 1..n
    <3>1. n + 1 \notin 1..n /\ w + 1 \notin 1..w
      BY <1>3, <1>5
    <3>2. m \in StatesTo(w) /\ i \in EventsTo(n)
      BY <1>4, <1>5, <1>11, <2>1, <3>1
    <3>3. PICK written : written = Written[m]
      OBVIOUS
    <3>4. Written'[m] = written /\ Explains(i, written)
      BY <1>5, <1>6, <1>8, <1>11, <2>1, <3>2, <3>3
    <3>5. Explains(i, written)'
      BY <1>6, <2>1, <3>4
    <3> QED
      BY <3>4, <3>5 DEF Explains
  <2>2. CASE m = w + 1 /\ i = n + 1
    BY <1>5, <2>2 DEF Explains
  <2>3. CASE m = w + 1 /\ i \in 1..n
    <3>1. Cardinality(StatesTo(w)) + 1 = Cardinality(EventsTo(i))
      BY <1>6, <1>9, <1>11, <2>3
    <3> QED
      BY <1>8, <1>9, <1>10, <2>3, <3>1
  <2>4. CASE m \in 1..w /\ i = n + 1
    <3>1. Cardinality(StatesTo(m)) = Cardinality(EventsTo(n)) + 1
      BY <1>5, <1>9, <1>11, <2>4
    <3> QED
      BY <1>8, <1>9, <1>10, <2>4, <3>1
  <2> QED
    BY <1>4, <1>5, <1>7, <2>1, <2>2, <2>3, <2>4
<1>12. OmpEventsExplained' <=>
         (script' = "pl" =>
            /\ Cardinality(StatesTo(w + 1)') = Cardinality(EventsTo(n + 1)')
            /\ \A m \in StatesTo(w + 1)', i \in EventsTo(n + 1)' :
                 Cardinality(StatesTo(m)') = Cardinality(EventsTo(i)') => Explains(i, Written[m])'
            /\ filter' = "closed" => strbuffer' = <<>>)
  BY <1>3, <1>5 DEF OmpEventsExplained, StatesTo, EventsTo, IsEvent
<1> QED
  BY <1>8, <1>9, <1>11, <1>12

LEMMA TypesKept ==
  ASSUME OmpTypeOK, NEW line, Reads(line), filter = "read", filter' = "read",
         strbuffer' \in Seq(LineWritten), output' \in Seq(LineWritten),
         script = "pl" \/ strbuffer' = <<>>, created' \subseteq OmpThreads \cup {0},
         jobid' \in [OmpThreads -> Nat \cup {NoJob}], metrics' \in Seq(Nat)
  PROVE  OmpTypeOK'
<1>1. PICK n : n = Len(lines_read)
  OBVIOUS
<1>2. /\ Len(lines_read') = n + 1 /\ lines_read' \in Seq(LineRead)
      /\ \A i \in 1..(n + 1) : lines_read'[i].value = i
  BY <1>1, LineReads
<1>3. script' = script /\ script \in {"pl", "sh", "none"}
  BY DEF Reads, OmpTypeOK
<1> QED
  BY <1>2, <1>3 DEF OmpTypeOK

LEMMA BegunKept ==
  ASSUME OmpTypeOK, BegunCreated, NEW line, Reads(line), created \subseteq created',
         line.kind = "THREAD_TEAM_BEGIN" => line.thread \in created'
  PROVE  BegunCreated'
<1>1. PICK n : n = Len(lines_read)
  OBVIOUS
<1>2. Len(lines_read') = n + 1 /\ script' = script
  BY <1>1, LineReads DEF Reads
<1>3. \A th : Begun(th, n + 1)' =>
        Begun(th, n) \/ (line.thread = th /\ line.kind = "THREAD_TEAM_BEGIN")
  BY <1>1, BegunStays
<1>4. script = "pl" => \A th \in OmpThreads : th = 0 \/ Begun(th, n) => th \in created
  BY <1>1 DEF BegunCreated
<1>5. BegunCreated' <=>
        (script' = "pl" =>
           \A th \in OmpThreads : th = 0 \/ Begun(th, n + 1)' => th \in created')
  BY <1>2 DEF BegunCreated, Begun
<1> QED
  BY <1>2, <1>3, <1>4, <1>5

LEMMA WaitsPrimed ==
  ASSUME NEW n, Len(lines_read') = n + 1, n \in Nat,
         ToSet(metrics') = MetricsOf(n + 2)',
         \A th \in OmpThreads : {jobid'[th]} \ {NoJob} = JobsOf(th, n + 2)'
  PROVE  WaitsForEvent'
<1>1. Len(lines_read') + 1 = n + 2
  OBVIOUS
<1>2. MetricsOf(Len(lines_read) + 1)' = MetricsOf(n + 2)'
  BY <1>1 DEF MetricsOf, IsEvent
<1>3. \A th : JobsOf(th, Len(lines_read) + 1)' = JobsOf(th, n + 2)'
  BY <1>1 DEF JobsOf
<1>4. ToSet(metrics)' = ToSet(metrics')
  BY DEF ToSet
<1> QED
  BY <1>2, <1>3, <1>4 DEF WaitsForEvent

LEMMA WrittenTyped ==
  ASSUME OmpTypeOK
  PROVE  Written \in Seq(LineWritten) /\ Len(Written) \in Nat
BY DEF OmpTypeOK, Written

\* One line read by otf2ompprint2paje.pl.
LEMMA PerlReads ==
  ASSUME OmpInv, NEW kind \in LineKinds, NEW th \in OmpThreads,
         NEW region \in OmpRegions \cup {"none"}, ReadLine(OmpLine(kind, th, region))
  PROVE  \E line : /\ Reads(line) /\ line.kind = kind /\ line.thread = th
                   /\ line.region = region /\ filter = "read" /\ filter' = "read"
<1> DEFINE line == [kind |-> kind, thread |-> th, region |-> region, value |-> Len(lines_read) + 1]
<1>1. Len(lines_read) + 1 \in Nat
  BY DEF OmpInv, OmpTypeOK
<1>2. line \in LineRead
  BY <1>1 DEF LineRead
<1>3. line = OmpLine(kind, th, region)
  BY DEF OmpLine
<1>4. Reads(line)
  BY <1>2, <1>3 DEF Reads, ReadLine
<1> QED
  BY <1>4 DEF ReadLine

\* A line for which nothing is written.
LEMMA PerlQuiet ==
  ASSUME OmpInv, script = "pl", NEW line, Reads(line), ~IsEvent(line), filter = "read",
         filter' = "read", UNCHANGED <<created, strbuffer, output>>,
         line.kind = "THREAD_TEAM_BEGIN" => line.thread \in {0} \cup created,
         jobid' \in [OmpThreads -> Nat \cup {NoJob}], metrics' \in Seq(Nat), WaitsForEvent'
  PROVE  OmpInv'
<1>1. OmpTypeOK /\ Written \in Seq(LineWritten) /\ Written' = Written
  BY WrittenTyped DEF OmpInv, Written
<1>2. OmpTypeOK'
  BY <1>1, TypesKept DEF OmpTypeOK
<1>3. line.thread \in OmpThreads
  BY DEF Reads, LineRead
<1>4. line.kind = "THREAD_TEAM_BEGIN" => line.thread \in created'
  BY <1>3 DEF OmpInv, BegunCreated
<1>5. BegunCreated'
  BY <1>1, <1>4, BegunKept DEF OmpInv
<1>6. ContainersMade(Written, created)'
  BY <1>1 DEF OmpInv, ContainersMade, ContainerLine
<1>7. StatesHoused(Written, Unbegun')
  BY HousedStays DEF OmpInv
<1>8. StatesHoused(Written, Unbegun)'
  BY <1>1, <1>7 DEF StatesHoused, ContainerLine
<1>9. OmpEventsExplained'
  BY <1>1, ExplainedQuiet DEF OmpInv
<1> QED
  BY <1>2, <1>5, <1>6, <1>8, <1>9 DEF OmpInv

\* A line for which the container of its thread is written.
LEMMA PerlMade ==
  ASSUME OmpInv, script = "pl", NEW line, Reads(line), ~IsEvent(line), filter = "read",
         filter' = "read", line.thread \notin created, created' = created \cup {line.thread},
         Bufferize(ContainerLine(line.thread)), UNCHANGED <<jobid, metrics>>, WaitsForEvent'
  PROVE  OmpInv'
<1>1. OmpTypeOK /\ Written \in Seq(LineWritten)
  BY WrittenTyped DEF OmpInv
<1>2. line.thread \in OmpThreads
  BY DEF Reads, LineRead
<1>3. PICK made : made = ContainerLine(line.thread)
  OBVIOUS
<1>4. made \in LineWritten /\ made.code = "6" /\ Bufferize(made)
  BY <1>2, <1>3, WrittenLines
<1>5. /\ Written' = Append(Written, made)
      /\ strbuffer' \in Seq(LineWritten) /\ output' \in Seq(LineWritten)
  BY <1>1, <1>4, Bufferized
<1>6. OmpTypeOK'
  BY <1>1, <1>2, <1>5, TypesKept DEF OmpTypeOK
<1>7. BegunCreated'
  BY <1>1, BegunKept DEF OmpInv
<1>8. ContainersMade(Append(Written, made), created \cup {line.thread})
  BY <1>1, <1>2, <1>3, ContainerAppended DEF OmpInv
<1>9. ContainersMade(Written, created)'
  BY <1>5, <1>8 DEF ContainersMade, ContainerLine
<1>10. StatesHoused(Written, Unbegun')
  BY <1>1, HousedStays DEF OmpInv
<1>11. StatesHoused(Append(Written, made), Unbegun')
  BY <1>1, <1>4, <1>10, HousedAppended
<1>12. StatesHoused(Written, Unbegun)'
  BY <1>5, <1>11 DEF StatesHoused, ContainerLine
<1>13. OmpEventsExplained'
  BY <1>1, <1>2, <1>3, <1>5, ExplainedQuiet DEF OmpInv
<1> QED
  BY <1>6, <1>7, <1>9, <1>12, <1>13 DEF OmpInv

\* An event, and the state it is the start or the end of.
LEMMA PerlState ==
  ASSUME OmpInv, script = "pl", NEW line, Reads(line), IsEvent(line), filter = "read",
         filter' = "read", created' = created, NEW state \in StateWritten, Bufferize(state),
         state.thread = line.thread, NEW n, n = Len(lines_read), Explains(n + 1, state)',
         jobid' \in [OmpThreads -> Nat \cup {NoJob}], metrics' \in Seq(Nat), WaitsForEvent'
  PROVE  OmpInv'
<1>1. OmpTypeOK /\ Written \in Seq(LineWritten)
  BY WrittenTyped DEF OmpInv
<1>2. state \in LineWritten /\ line.thread \in OmpThreads /\ line.kind # "THREAD_TEAM_BEGIN"
  BY DEF Reads, LineRead, LineWritten, IsEvent
<1>3. /\ Written' = Append(Written, state)
      /\ strbuffer' \in Seq(LineWritten) /\ output' \in Seq(LineWritten)
  BY <1>1, <1>2, Bufferized
<1>4. OmpTypeOK'
  BY <1>1, <1>3, TypesKept DEF OmpTypeOK
<1>5. BegunCreated'
  BY <1>1, <1>2, BegunKept DEF OmpInv
<1>6. ContainersMade(Append(Written, state), created)
  BY <1>1, StateAppended DEF OmpInv
<1>7. ContainersMade(Written, created)'
  BY <1>3, <1>6 DEF ContainersMade, ContainerLine
<1>8. StatesHoused(Written, Unbegun')
  BY <1>1, HousedStays DEF OmpInv
<1>9. \/ \E i \in 1..Len(Written) : Written[i] = ContainerLine(line.thread)
      \/ line.thread \in Unbegun'
  <2>1. CASE line.thread = 0 \/ Begun(line.thread, n)
    <3>1. line.thread \in created
      BY <1>2, <2>1 DEF OmpInv, BegunCreated
    <3> QED
      BY <3>1 DEF OmpInv, ContainersMade
  <2>2. CASE line.thread # 0 /\ ~Begun(line.thread, n)
    <3>1. ~BegunFirst(line.thread)'
      BY <1>1, <2>2, BegunStays
    <3>2. PICK th : th = line.thread
      OBVIOUS
    <3>3. ~BegunFirst(th)'
      BY <3>1, <3>2 DEF BegunFirst
    <3> QED
      BY <1>2, <3>2, <3>3 DEF Unbegun
  <2> QED
    BY <2>1, <2>2
<1>10. StatesHoused(Append(Written, state), Unbegun')
  BY <1>1, <1>2, <1>8, <1>9, HousedAppended
<1>11. StatesHoused(Written, Unbegun)'
  BY <1>3, <1>10 DEF StatesHoused, ContainerLine
<1>12. OmpEventsExplained'
  BY <1>1, <1>3, ExplainedEvent DEF OmpInv
<1> QED
  BY <1>4, <1>5, <1>7, <1>11, <1>12 DEF OmpInv

\* The state written for an event is explained by it.
LEMMA ExplainedNow ==
  ASSUME OmpTypeOK, WaitsForEvent, NEW line, Reads(line), IsEvent(line),
         NEW n, n = Len(lines_read), NEW state,
         state.thread = line.thread, state.region = line.region,
         state.code = IF line.kind = "ENTER" THEN "12" ELSE "14", state.metrics = metrics,
         state.job = IF line.kind = "ENTER" THEN jobid[line.thread] ELSE NoJob
  PROVE  Explains(n + 1, state)'
<1>1. PICK th : th = line.thread
  OBVIOUS
<1>2. th \in OmpThreads
  BY <1>1 DEF Reads, LineRead
<1>3. lines_read'[n + 1] = line /\ n + 1 \in 1..(n + 1)
  BY LineReads
<1>4. /\ MetricsOf(n + 1)' = MetricsOf(n + 1)
      /\ JobsOf(th, n + 1)' = JobsOf(th, n + 1)
  BY <1>3, ExplanationsStay
<1>5. ToSet(state.metrics) = MetricsOf(n + 1)'
  BY <1>4 DEF WaitsForEvent
<1>6. {state.job} \ {NoJob} = IF line.kind = "ENTER" THEN JobsOf(th, n + 1)' ELSE {}
  BY <1>1, <1>2, <1>4 DEF WaitsForEvent
<1>7. JobsOf(lines_read[n + 1].thread, n + 1)' = JobsOf(th, n + 1)'
  BY <1>1, <1>3 DEF JobsOf
<1>8. Explains(n + 1, state)' <=>
        /\ state.thread = line.thread /\ state.region = line.region
        /\ state.code = IF line.kind = "ENTER" THEN "12" ELSE "14"
        /\ ToSet(state.metrics) = MetricsOf(n + 1)'
        /\ {state.job} \ {NoJob}
             = IF line.kind = "ENTER" THEN JobsOf(lines_read[n + 1].thread, n + 1)' ELSE {}
  BY <1>3 DEF Explains
<1> QED
  BY <1>5, <1>6, <1>7, <1>8

\* The metrics and the jobs that wait after each kind of line.
LEMMA WaitsAfter ==
  ASSUME OmpTypeOK, WaitsForEvent, NEW line, Reads(line),
         metrics' = IF IsEvent(line) THEN <<>>
                    ELSE IF line.kind = "METRIC" THEN Append(metrics, line.value) ELSE metrics,
         jobid' = CASE line.kind = "THREAD_TASK_SWITCH" ->
                         [jobid EXCEPT ![line.thread] = line.value]
                    [] line.kind = "ENTER" -> [jobid EXCEPT ![line.thread] = NoJob]
                    [] OTHER -> jobid
  PROVE  WaitsForEvent' /\ metrics' \in Seq(Nat) /\ jobid' \in [OmpThreads -> Nat \cup {NoJob}]
<1>1. PICK n : n = Len(lines_read)
  OBVIOUS
<1>2. /\ n \in Nat /\ Len(lines_read') = n + 1 /\ line.value = n + 1
      /\ metrics \in Seq(Nat) /\ line.thread \in OmpThreads
      /\ jobid \in [OmpThreads -> Nat \cup {NoJob}]
  BY <1>1, LineReads DEF Reads, LineRead, OmpTypeOK
<1>3. /\ \A i \in 1..Len(metrics) : Append(metrics, n + 1)[i] = metrics[i]
      /\ Append(metrics, n + 1)[Len(metrics) + 1] = n + 1
      /\ \A i \in 1..(Len(metrics) + 1) : i \in 1..Len(metrics) \/ i = Len(metrics) + 1
      /\ 1..Len(metrics) \subseteq 1..(Len(metrics) + 1)
      /\ Len(metrics) + 1 \in 1..(Len(metrics) + 1)
      /\ DOMAIN metrics = 1..Len(metrics)
      /\ DOMAIN Append(metrics, n + 1) = 1..(Len(metrics) + 1)
      /\ Append(metrics, n + 1) \in Seq(Nat)
  BY <1>2
<1>4. ToSet(Append(metrics, n + 1)) = ToSet(metrics) \cup {n + 1}
  BY <1>3 DEF ToSet
<1>5. ToSet(<<>>) = {} /\ <<>> \in Seq(Nat)
  BY DEF ToSet
<1>6. ToSet(metrics) = MetricsOf(n + 1)
  BY <1>1 DEF WaitsForEvent
<1>7. MetricsOf(n + 2)' =
        IF IsEvent(line) THEN {}
        ELSE MetricsOf(n + 1) \cup (IF line.kind = "METRIC" THEN {n + 1} ELSE {})
  BY <1>1, WaitsNext
<1>8. ToSet(metrics') = MetricsOf(n + 2)' /\ metrics' \in Seq(Nat)
  <2>1. CASE IsEvent(line)
    BY <1>5, <1>7, <2>1
  <2>2. CASE ~IsEvent(line) /\ line.kind = "METRIC"
    BY <1>2, <1>3, <1>4, <1>6, <1>7, <2>2
  <2>3. CASE ~IsEvent(line) /\ line.kind # "METRIC"
    BY <1>2, <1>6, <1>7, <2>3
  <2> QED
    BY <2>1, <2>2, <2>3
<1>9. ASSUME NEW th \in OmpThreads
      PROVE  {jobid'[th]} \ {NoJob} = JobsOf(th, n + 2)'
  <2>1. JobsOf(th, n + 2)' =
          CASE line.thread = th /\ line.kind = "THREAD_TASK_SWITCH" -> {n + 1}
            [] line.thread = th /\ line.kind = "ENTER" -> {}
            [] OTHER -> JobsOf(th, n + 1)
    BY <1>1, WaitsNext
  <2>2. {jobid[th]} \ {NoJob} = JobsOf(th, n + 1)
    BY <1>1 DEF WaitsForEvent
  <2>3. n + 1 # NoJob
    BY <1>2 DEF NoJob
  <2>4. CASE line.kind = "THREAD_TASK_SWITCH" /\ line.thread = th
    BY <1>2, <2>1, <2>3, <2>4
  <2>5. CASE line.kind = "ENTER" /\ line.thread = th
    BY <1>2, <2>1, <2>5
  <2>6. CASE line.thread # th \/ line.kind \notin {"ENTER", "THREAD_TASK_SWITCH"}
    <3>1. jobid'[th] = jobid[th]
      BY <1>2, <2>6
    <3> QED
      BY <2>1, <2>2, <2>6, <3>1
  <2> QED
    BY <2>4, <2>5, <2>6
<1>10. jobid' \in [OmpThreads -> Nat \cup {NoJob}]
  <2>1. n + 1 \in Nat
    BY <1>2
  <2>2. CASE line.kind = "THREAD_TASK_SWITCH"
    BY <1>2, <2>1, <2>2
  <2>3. CASE line.kind = "ENTER"
    BY <1>2, <2>3
  <2>4. CASE line.kind \notin {"ENTER", "THREAD_TASK_SWITCH"}
    BY <1>2, <2>4
  <2> QED
    BY <2>2, <2>3, <2>4
<1> QED
  BY <1>2, <1>8, <1>9, <1>10, WaitsPrimed

\* Nothing more is read or written: strbuffer is printed, or the filter is closed.
LEMMA NothingWritten ==
  ASSUME OmpInv, OmpTypeOK', Written' = Written,
         UNCHANGED <<script, created, jobid, metrics, lines_read>>
  PROVE  OmpInv'
<1>1. UNCHANGED <<script, created, jobid, metrics, lines_read>>
  OBVIOUS
<1>2. Written' = Written
  OBVIOUS
<1>3. PICK n : n = Len(lines_read)
  OBVIOUS
<1>4. BegunCreated'
  BY <1>1 DEF OmpInv, BegunCreated, Begun
<1>5. ContainersMade(Written, created)'
  BY <1>1, <1>2 DEF OmpInv, ContainersMade, ContainerLine
<1>6. StatesHoused(Written, Unbegun)'
  BY <1>1, <1>2 DEF OmpInv, StatesHoused, ContainerLine, Unbegun, BegunFirst, Begun, IsEvent
<1>7. /\ \A i : MetricsOf(i)' = MetricsOf(i)
      /\ \A th, i : JobsOf(th, i)' = JobsOf(th, i)
      /\ \A i : EventsTo(i)' = EventsTo(i)
      /\ \A i : StatesTo(i)' = StatesTo(i)
  BY <1>1, <1>2 DEF MetricsOf, JobsOf, EventsTo, StatesTo, IsEvent
<1>8. \A i, written : Explains(i, written)' <=> Explains(i, written)
  <2> TAKE i, written
  <2>1. JobsOf(lines_read[i].thread, i)' = JobsOf(lines_read[i].thread, i)
    BY <1>1 DEF JobsOf
  <2> QED
    BY <1>1, <1>7, <2>1 DEF Explains
<1>9. script = "pl" => WaitsForEvent'
  <2>1. Len(lines_read') + 1 = n + 1
    BY <1>3, <1>1
  <2>2. MetricsOf(Len(lines_read) + 1)' = MetricsOf(n + 1)'
    BY <2>1 DEF MetricsOf, IsEvent
  <2>3. \A th : JobsOf(th, Len(lines_read) + 1)' = JobsOf(th, n + 1)'
    BY <2>1 DEF JobsOf
  <2>4. ToSet(metrics)' = ToSet(metrics)
    BY <1>1 DEF ToSet
  <2> QED
    BY <1>3, <1>1, <1>7, <2>2, <2>3, <2>4 DEF OmpInv, WaitsForEvent
<1>10. ASSUME script = "pl" PROVE OmpEventsExplained'
  <2>1. PICK w : w = Len(Written)
    OBVIOUS
  <2>2. w = Len(Written') /\ n = Len(lines_read')
    BY <1>3, <1>1, <1>2, <2>1
  <2>3. /\ Cardinality(StatesTo(w)) = Cardinality(EventsTo(n))
        /\ \A m \in StatesTo(w), i \in EventsTo(n) :
             Cardinality(StatesTo(m)) = Cardinality(EventsTo(i)) => Explains(i, Written[m])
    BY <1>3, <1>10, <2>1 DEF OmpInv, OmpEventsExplained
  <2>4. ASSUME NEW m \in StatesTo(w)', NEW i \in EventsTo(n)',
               Cardinality(StatesTo(m)') = Cardinality(EventsTo(i)')
        PROVE  Explains(i, Written[m])'
    <3>1. PICK written : written = Written[m]
      OBVIOUS
    <3>2. Explains(i, written)' /\ Written'[m] = written
      BY <1>2, <1>7, <1>8, <2>3, <2>4, <3>1
    <3> QED
      BY <3>2 DEF Explains
  <2>5. OmpEventsExplained' <=>
          (script' = "pl" =>
             /\ Cardinality(StatesTo(w)') = Cardinality(EventsTo(n)')
             /\ \A m \in StatesTo(w)', i \in EventsTo(n)' :
                  Cardinality(StatesTo(m)') = Cardinality(EventsTo(i)')
                    => Explains(i, Written[m])'
             /\ filter' = "closed" => strbuffer' = <<>>)
    BY <2>2 DEF OmpEventsExplained, StatesTo, EventsTo, IsEvent
  <2>6. filter' = "closed" => strbuffer' = <<>>
    BY DEF OmpTypeOK
  <2> QED
    BY <1>1, <1>7, <2>3, <2>4, <2>5, <2>6
<1> QED
  BY <1>1, <1>4, <1>5, <1>6, <1>9, <1>10 DEF OmpInv

LEMMA PerlKeeps ==
  ASSUME OmpInv, script = "pl", PerlNext
  PROVE  OmpInv'
<1>1. OmpTypeOK /\ WaitsForEvent
  BY DEF OmpInv
<1>2. PICK n : n = Len(lines_read)
  OBVIOUS
<1>3. ASSUME NEW th \in OmpThreads, NEW region \in OmpRegions, PerlEnter(th, region)
      PROVE  OmpInv'
  <2>1. PICK line : /\ Reads(line) /\ line.kind = "ENTER" /\ line.thread = th
                    /\ line.region = region /\ filter = "read" /\ filter' = "read"
    BY <1>3, PerlReads DEF PerlEnter, LineKinds
  <2>2. IsEvent(line)
    BY <2>1 DEF IsEvent
  <2>3. PICK state : state = StateLine("12", th, region, jobid[th], metrics)
    OBVIOUS
  <2>4. Bufferize(state) /\ created' = created
    BY <1>3, <2>3 DEF PerlEnter
  <2>5. state \in StateWritten
    BY <1>1, <2>3, WrittenLines DEF OmpTypeOK
  <2>6. /\ state.code = "12" /\ state.thread = th /\ state.region = region
        /\ state.job = jobid[th] /\ state.metrics = metrics
    BY <2>3, WrittenLines
  <2>7. Explains(n + 1, state)'
    BY <1>1, <1>2, <2>1, <2>2, <2>6, ExplainedNow
  <2>8. WaitsForEvent' /\ metrics' \in Seq(Nat) /\ jobid' \in [OmpThreads -> Nat \cup {NoJob}]
    <3>1. metrics' = <<>> /\ jobid' = [jobid EXCEPT ![th] = NoJob]
      BY <1>3 DEF PerlEnter
    <3> QED
      BY <1>1, <2>1, <2>2, <3>1, WaitsAfter
  <2> QED
    BY <1>2, <2>1, <2>2, <2>4, <2>5, <2>6, <2>7, <2>8, PerlState
<1>4. ASSUME NEW th \in OmpThreads, NEW region \in OmpRegions, PerlLeave(th, region)
      PROVE  OmpInv'
  <2>1. PICK line : /\ Reads(line) /\ line.kind = "LEAVE" /\ line.thread = th
                    /\ line.region = region /\ filter = "read" /\ filter' = "read"
    BY <1>4, PerlReads DEF PerlLeave, LineKinds
  <2>2. IsEvent(line)
    BY <2>1 DEF IsEvent
  <2>3. PICK state : state = StateLine("14", th, region, NoJob, metrics)
    OBVIOUS
  <2>4. Bufferize(state) /\ created' = created
    BY <1>4, <2>3 DEF PerlLeave
  <2>5. state \in StateWritten
    BY <1>1, <2>3, WrittenLines DEF OmpTypeOK
  <2>6. /\ state.code = "14" /\ state.thread = th /\ state.region = region
        /\ state.job = NoJob /\ state.metrics = metrics
    BY <2>3, WrittenLines
  <2>7. Explains(n + 1, state)'
    BY <1>1, <1>2, <2>1, <2>2, <2>6, ExplainedNow
  <2>8. WaitsForEvent' /\ metrics' \in Seq(Nat) /\ jobid' \in [OmpThreads -> Nat \cup {NoJob}]
    <3>1. metrics' = <<>> /\ jobid' = jobid
      BY <1>4 DEF PerlLeave
    <3> QED
      BY <1>1, <2>1, <2>2, <3>1, WaitsAfter
  <2> QED
    BY <1>2, <2>1, <2>2, <2>4, <2>5, <2>6, <2>7, <2>8, PerlState
<1>5. ASSUME NEW th \in OmpThreads, PerlMetric(th)
      PROVE  OmpInv'
  <2>1. PICK line : /\ Reads(line) /\ line.kind = "METRIC" /\ line.thread = th
                    /\ filter = "read" /\ filter' = "read"
    BY <1>5, PerlReads DEF PerlMetric, LineKinds
  <2>2. ~IsEvent(line)
    BY <2>1 DEF IsEvent
  <2>3. WaitsForEvent' /\ metrics' \in Seq(Nat) /\ jobid' \in [OmpThreads -> Nat \cup {NoJob}]
    <3>1. metrics' = Append(metrics, line.value) /\ jobid' = jobid
      BY <1>5, <2>1 DEF PerlMetric, OmpLine, Reads
    <3> QED
      BY <1>1, <2>1, <2>2, <3>1, WaitsAfter
  <2>4. UNCHANGED <<created, strbuffer, output>>
    BY <1>5 DEF PerlMetric
  <2> QED
    BY <2>1, <2>2, <2>3, <2>4, PerlQuiet
<1>6. ASSUME NEW th \in OmpThreads, PerlTeamBegin(th)
      PROVE  OmpInv'
  <2>1. PICK line : /\ Reads(line) /\ line.kind = "THREAD_TEAM_BEGIN" /\ line.thread = th
                    /\ filter = "read" /\ filter' = "read"
    BY <1>6, PerlReads DEF PerlTeamBegin, LineKinds
  <2>2. ~IsEvent(line)
    BY <2>1 DEF IsEvent
  <2>3. UNCHANGED <<jobid, metrics>>
    BY <1>6 DEF PerlTeamBegin
  <2>4. WaitsForEvent' /\ metrics' \in Seq(Nat) /\ jobid' \in [OmpThreads -> Nat \cup {NoJob}]
    BY <1>1, <2>1, <2>2, <2>3, WaitsAfter
  <2>5. CASE th \in {0} \cup created
    <3>1. UNCHANGED <<created, strbuffer, output>>
      BY <1>6, <2>5 DEF PerlTeamBegin
    <3> QED
      BY <2>1, <2>2, <2>4, <2>5, <3>1, PerlQuiet
  <2>6. CASE th \notin {0} \cup created
    <3>1. created' = created \cup {th} /\ Bufferize(ContainerLine(th))
      BY <1>6, <2>6 DEF PerlTeamBegin
    <3> QED
      BY <2>1, <2>2, <2>3, <2>4, <2>6, <3>1, PerlMade
  <2> QED
    BY <2>5, <2>6
<1>7. ASSUME NEW th \in OmpThreads, PerlTaskSwitch(th)
      PROVE  OmpInv'
  <2>1. PICK line : /\ Reads(line) /\ line.kind = "THREAD_TASK_SWITCH" /\ line.thread = th
                    /\ filter = "read" /\ filter' = "read"
    BY <1>7, PerlReads DEF PerlTaskSwitch, LineKinds
  <2>2. ~IsEvent(line)
    BY <2>1 DEF IsEvent
  <2>3. WaitsForEvent' /\ metrics' \in Seq(Nat) /\ jobid' \in [OmpThreads -> Nat \cup {NoJob}]
    <3>1. metrics' = metrics /\ jobid' = [jobid EXCEPT ![th] = line.value]
      BY <1>7, <2>1 DEF PerlTaskSwitch, OmpLine, Reads
    <3> QED
      BY <1>1, <2>1, <2>2, <3>1, WaitsAfter
  <2>4. UNCHANGED <<created, strbuffer, output>>
    BY <1>7 DEF PerlTaskSwitch
  <2> QED
    BY <2>1, <2>2, <2>3, <2>4, PerlQuiet
<1>8. CASE PerlEnds
  <2>1. /\ strbuffer \in Seq(LineWritten) /\ output \in Seq(LineWritten)
        /\ output' = output \o strbuffer /\ strbuffer' = <<>> /\ filter' = "closed"
        /\ UNCHANGED <<script, created, jobid, metrics, lines_read>>
    BY <1>1, <1>8 DEF OmpTypeOK, PerlEnds
  <2>2. Written' = Written /\ output' \in Seq(LineWritten) /\ strbuffer' \in Seq(LineWritten)
    BY <2>1 DEF Written
  <2>3. OmpTypeOK'
    BY <1>1, <2>1, <2>2 DEF OmpTypeOK
  <2> QED
    BY <2>1, <2>2, <2>3, NothingWritten
<1> QED
  BY <1>3, <1>4, <1>5, <1>6, <1>7, <1>8 DEF PerlNext

\* A line read by otf2ompprint2paje.sh, or .jl.
LEMMA ShellKeeps ==
  ASSUME OmpInv, script = "sh", NEW line \in LineRead, line.value = Len(lines_read) + 1,
         ShellLine(line), line.kind \in {"ENTER", "LEAVE"} => line.region \in OmpRegions
  PROVE  OmpInv'
<1>1. OmpTypeOK /\ Reads(line) /\ filter = "read" /\ filter' = "read" /\ line.thread \in OmpThreads
  BY DEF OmpInv, ShellLine, ReadLine, Reads, LineRead
<1>2. strbuffer = <<>> /\ strbuffer' = <<>> /\ output \in Seq(LineWritten)
  BY <1>1 DEF OmpTypeOK, ShellLine
<1>3. Written = output
  BY <1>2 DEF Written
<1>4. PICK th : th = line.thread
  OBVIOUS
<1>5. created' = created \cup {th}
  BY <1>4 DEF ShellLine
<1>6. PICK mid : mid = output \o (IF th \in created THEN <<>> ELSE <<ContainerLine(th)>>)
  OBVIOUS
<1>7. PICK own : own = CASE line.kind = "ENTER" ->
                              <<StateLine("12", line.thread, line.region, NoJob, <<>>)>>
                         [] line.kind = "LEAVE" ->
                              <<StateLine("14", line.thread, line.region, NoJob, <<>>)>>
                         [] OTHER -> <<>>
  OBVIOUS
<1>8. output' = mid \o own
  BY <1>4, <1>6, <1>7 DEF ShellLine
<1>9. /\ StatesHoused(output, Unbegun')
      /\ ContainersMade(output, created)
  BY <1>1, <1>3, HousedStays DEF OmpInv
<1>10. /\ mid \in Seq(LineWritten) /\ ContainersMade(mid, created')
       /\ StatesHoused(mid, Unbegun')
  <2>1. CASE th \in created
    <3>1. mid = output
      BY <1>2, <1>6, <2>1
    <3>2. created' = created
      BY <1>5, <2>1
    <3> QED
      BY <1>2, <1>9, <3>1, <3>2
  <2>2. CASE th \notin created
    <3>1. PICK made : made = ContainerLine(th)
      OBVIOUS
    <3>2. made \in LineWritten /\ made.code = "6"
      BY <1>1, <1>4, <3>1, WrittenLines
    <3>3. mid = Append(output, made)
      BY <1>2, <1>6, <2>2, <3>1, <3>2
    <3>4. ContainersMade(Append(output, made), created \cup {th})
      BY <1>1, <1>2, <1>4, <1>9, <2>2, <3>1, ContainerAppended
    <3>5. StatesHoused(Append(output, made), Unbegun')
      BY <1>2, <1>9, <3>2, HousedAppended
    <3> QED
      BY <1>2, <1>5, <3>2, <3>3, <3>4, <3>5
  <2> QED
    BY <2>1, <2>2
<1>11. /\ output' \in Seq(LineWritten) /\ ContainersMade(output', created')
       /\ StatesHoused(output', Unbegun')
  <2>1. CASE line.kind \in {"ENTER", "LEAVE"}
    <3>1. PICK state : state = StateLine(IF line.kind = "ENTER" THEN "12" ELSE "14", th,
                                         line.region, NoJob, <<>>)
      OBVIOUS
    <3>2. state \in StateWritten
      <4>1. <<>> \in Seq(Nat) /\ NoJob \in Nat \cup {NoJob}
        OBVIOUS
      <4> QED
        BY <1>1, <1>4, <2>1, <3>1, <4>1, WrittenLines
    <3>3. own = <<state>>
      BY <1>4, <1>7, <2>1, <3>1
    <3>4. state \in LineWritten /\ state.thread = th
      BY <3>1, <3>2, WrittenLines DEF LineWritten
    <3>5. output' = Append(mid, state)
      BY <1>8, <1>10, <3>3, <3>4
    <3>6. ContainersMade(Append(mid, state), created')
      BY <1>10, <3>2, StateAppended
    <3>7. \E i \in 1..Len(mid) : mid[i] = ContainerLine(th)
      BY <1>5, <1>10 DEF ContainersMade
    <3>8. StatesHoused(Append(mid, state), Unbegun')
      BY <1>10, <3>4, <3>7, HousedAppended
    <3> QED
      BY <1>10, <3>4, <3>5, <3>6, <3>8
  <2>2. CASE line.kind \notin {"ENTER", "LEAVE"}
    <3>1. own = <<>>
      BY <1>7, <2>2
    <3>2. output' = mid
      BY <1>8, <1>10, <3>1
    <3> QED
      BY <1>10, <3>2
  <2> QED
    BY <2>1, <2>2
<1>12. Written' = output'
  BY <1>2, <1>11 DEF Written
<1>13. created' \subseteq OmpThreads \cup {0}
  BY <1>1, <1>4, <1>5 DEF OmpTypeOK
<1>14. OmpTypeOK'
  <2>1. jobid' = jobid /\ metrics' = metrics
    BY DEF ShellLine
  <2>2. <<>> \in Seq(LineWritten)
    OBVIOUS
  <2>3. /\ jobid' \in [OmpThreads -> Nat \cup {NoJob}] /\ metrics' \in Seq(Nat)
        /\ strbuffer' \in Seq(LineWritten)
    BY <1>1, <1>2, <2>1, <2>2 DEF OmpTypeOK
  <2> QED
    BY <1>1, <1>2, <1>11, <1>13, <2>3, TypesKept
<1>15. script' = "sh"
  BY <1>1 DEF Reads
<1>16. BegunCreated'
  BY <1>15 DEF BegunCreated
<1>17. ContainersMade(Written, created)' /\ StatesHoused(Written, Unbegun)'
  BY <1>11, <1>12 DEF ContainersMade, StatesHoused, ContainerLine
<1> QED
  BY <1>14, <1>15, <1>16, <1>17 DEF OmpInv

LEMMA OmpStarts == OmpInit => OmpInv
<1> SUFFICES ASSUME OmpInit PROVE OmpInv
  OBVIOUS
<1>1. /\ filter = "read" /\ jobid = [th \in OmpThreads |-> NoJob]
      /\ metrics = <<>> /\ output = <<>> /\ lines_read = <<>>
      /\ Len(lines_read) = 0 /\ Len(lines_read) + 1 = 1
  BY DEF OmpInit, OmpStart
<1>2. \/ script = "pl" /\ created = {0} /\ strbuffer = <<ContainerLine(0)>>
      \/ script \in {"sh", "none"} /\ created = {} /\ strbuffer = <<>>
  BY DEF OmpInit
<1>3. PICK made : made = ContainerLine(0)
  OBVIOUS
<1>4. made \in LineWritten /\ made.code = "6" /\ \A th : made = ContainerLine(th) => th = 0
  BY <1>3, WrittenLines
<1>5. Written = <<>> \/ Written = <<made>>
  BY <1>1, <1>2, <1>3, <1>4 DEF Written
<1>6. OmpTypeOK
  <2>1. strbuffer \in Seq(LineWritten) /\ output \in Seq(LineWritten)
    <3>1. <<>> \in Seq(LineWritten) /\ <<made>> \in Seq(LineWritten)
      BY <1>4
    <3> QED
      BY <1>1, <1>2, <1>3, <3>1
  <2>2. metrics \in Seq(Nat) /\ lines_read \in Seq(LineRead)
    BY <1>1
  <2> QED
    BY <1>1, <1>2, <2>1, <2>2 DEF OmpTypeOK
<1>7. BegunCreated
  BY <1>1, <1>2 DEF BegunCreated, Begun
<1>8. ContainersMade(Written, created)
  <2>1. CASE script = "pl"
    <3>1. created = {0} /\ Written = <<made>>
      BY <1>1, <1>2, <1>3, <1>4, <2>1 DEF Written
    <3>2. Len(<<made>>) = 1 /\ <<made>>[1] = made /\ \A i : i \in 1..1 <=> i = 1
      OBVIOUS
    <3> QED
      BY <1>3, <1>4, <3>1, <3>2 DEF ContainersMade
  <2>2. CASE script # "pl"
    <3>1. created = {} /\ Written = <<>>
      BY <1>1, <1>2, <2>2 DEF Written
    <3> QED
      BY <3>1 DEF ContainersMade
  <2> QED
    BY <2>1, <2>2
<1>9. StatesHoused(Written, Unbegun)
  <2>1. \A n \in 1..Len(Written) : Written[n].code = "6"
    BY <1>4, <1>5
  <2> QED
    BY <2>1 DEF StatesHoused
<1>10. WaitsForEvent
  <2>1. MetricsOf(1) = {} /\ \A th : JobsOf(th, 1) = {}
    BY DEF MetricsOf, JobsOf
  <2>2. ToSet(metrics) = {}
    BY <1>1 DEF ToSet
  <2> QED
    BY <1>1, <2>1, <2>2 DEF WaitsForEvent
<1>11. script = "pl" => OmpEventsExplained
  <2>1. EventsTo(0) = {}
    BY DEF EventsTo
  <2>2. StatesTo(Len(Written)) = {}
    BY <1>4, <1>5 DEF StatesTo
  <2> QED
    BY <1>1, <2>1, <2>2 DEF OmpEventsExplained
<1> QED
  BY <1>6, <1>7, <1>8, <1>9, <1>10, <1>11 DEF OmpInv

LEMMA OmpKeeps == OmpInv /\ [OmpNext]_ompVars => OmpInv'
<1> SUFFICES ASSUME OmpInv, [OmpNext]_ompVars PROVE OmpInv'
  OBVIOUS
<1>1. CASE script = "pl" /\ PerlNext
  BY <1>1, PerlKeeps
<1>2. CASE script = "sh" /\ ShellNext
  <2>1. ASSUME NEW kind \in LineKinds, NEW th \in OmpThreads, NEW region \in OmpRegions \cup {"none"},
               kind \in {"ENTER", "LEAVE"} => region \in OmpRegions,
               ShellLine(OmpLine(kind, th, region))
        PROVE  OmpInv'
    <3>1. PICK line : line = OmpLine(kind, th, region)
      OBVIOUS
    <3>2. /\ line \in LineRead /\ line.value = Len(lines_read) + 1 /\ line.kind = kind
          /\ line.region = region
      <4>1. Len(lines_read) + 1 \in Nat
        BY DEF OmpInv, OmpTypeOK
      <4> QED
        BY <3>1, <4>1 DEF OmpLine, LineRead
    <3>3. ShellLine(line)
      BY <2>1, <3>1
    <3> QED
      BY <1>2, <2>1, <3>2, <3>3, ShellKeeps
  <2>2. CASE ShellEnds
    <3>1. /\ OmpTypeOK /\ filter' = "closed"
          /\ UNCHANGED <<script, created, jobid, metrics, strbuffer, output, lines_read>>
      BY <2>2 DEF OmpInv, ShellEnds
    <3>2. OmpTypeOK'
      BY <1>2, <3>1 DEF OmpTypeOK
    <3>3. Written' = Written
      BY <3>1 DEF Written
    <3> QED
      BY <3>1, <3>2, <3>3, NothingWritten
  <2>3. ASSUME NEW th \in OmpThreads, NEW region \in OmpRegions,
               \/ ShellLine(OmpLine("ENTER", th, region))
               \/ ShellLine(OmpLine("LEAVE", th, region))
        PROVE  OmpInv'
    BY <2>1, <2>3 DEF LineKinds
  <2>4. ASSUME NEW th \in OmpThreads,
               NEW kind \in {"METRIC", "THREAD_TEAM_BEGIN", "THREAD_TASK_SWITCH"},
               ShellLine(OmpLine(kind, th, "none"))
        PROVE  OmpInv'
    BY <2>1, <2>4 DEF LineKinds
  <2> QED
    BY <1>2, <2>2, <2>3, <2>4 DEF ShellNext
<1>3. CASE UNCHANGED ompVars
  <2>1. UNCHANGED <<script, filter, created, jobid, metrics, strbuffer, output, lines_read>>
    BY <1>3 DEF ompVars
  <2>2. Written' = Written
    BY <2>1 DEF Written
  <2>3. OmpTypeOK'
    BY <2>1 DEF OmpInv, OmpTypeOK
  <2> QED
    BY <2>1, <2>2, <2>3, NothingWritten
<1> QED
  BY <1>1, <1>2, <1>3 DEF OmpNext

THEOREM OmpInvariant == OmpSpec => []OmpInv
<1> QED
  BY OmpStarts, OmpKeeps, PTL DEF OmpSpec

\* Each thread has one container, before its first state, in what the filters write: the
\* threads said to begin, and thread 0, are those created, whatever their lines are mixed with.
THEOREM OmpContainersAreOnce == OmpSpec => []OmpContainersOnce
<1>1. OmpInv => OmpContainersOnce
  <2> SUFFICES ASSUME OmpInv PROVE OmpContainersOnce
    OBVIOUS
  <2>1. PICK w : w = Len(Written) /\ w \in Nat /\ DOMAIN Written = 1..w
    BY WrittenTyped DEF OmpInv
  <2>2. ASSUME NEW n \in 1..w, Written[n].code = "6",
               NEW i \in 1..(n - 1), Written[i] = ContainerLine(Written[n].thread)
        PROVE  FALSE
    <3>1. Written[n] \in LineWritten
      BY <2>1, WrittenTyped DEF OmpInv
    <3>2. Written[n] = ContainerLine(Written[n].thread)
      BY <2>2, <3>1 DEF LineWritten, ContainerWritten, StateWritten, ContainerLine
    <3>3. i \in 1..w /\ i # n
      BY <2>1
    <3> QED
      BY <2>1, <2>2, <3>2, <3>3 DEF OmpInv, ContainersMade
  <2>3. ASSUME NEW n \in 1..w, Written[n].code # "6", BegunFirst(Written[n].thread)
        PROVE  \E i \in 1..(n - 1) : Written[i] = ContainerLine(Written[n].thread)
    BY <2>1, <2>3 DEF OmpInv, StatesHoused, Unbegun
  <2> QED
    BY <2>1, <2>2, <2>3 DEF OmpContainersOnce
<1> QED
  BY <1>1, OmpInvariant, PTL

\* The states that otf2ompprint2paje.pl writes are the events read, each with the metrics and
\* the task read for it, whatever lines of other threads come between.
THEOREM OmpEventsAreExplained == OmpSpec => []OmpEventsExplained
<1>1. OmpInv => OmpEventsExplained
  BY DEF OmpInv, OmpEventsExplained
<1> QED
  BY <1>1, OmpInvariant, PTL
=============================================================================
