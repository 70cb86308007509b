-------------------------- MODULE AkyKeyListProofs --------------------------
(***************************************************************************)
(* What is proved of the linked lists of aky_keys.c.  WellLinked and       *)
(* Contents follow pointers, by a recursive function; the proofs do not:   *)
(* the invariant names, for each descriptor, the sequence of elements it   *)
(* is the list of, enqueue appends to that sequence and dequeue takes its  *)
(* first element.  ChainIs shows that following the pointers finds it.     *)
(***************************************************************************)
EXTENDS AkyKeyList, WellFoundedInduction, FiniteSetTheorems, TLAPS

\* The numbers are well founded by some relation.
LEMMA NumbersWellFounded ==
  \E R : IsWellFoundedOn(R, Nat) /\ \A x, y \in Nat : x < y => <<x, y>> \in R
<1> DEFINE R == OpToRel(<, Nat)
<1>1. IsWellFoundedOn(R, Nat)
  BY NatLessThanWellFounded
<1>2. \A x, y \in Nat : x < y => <<x, y>> \in R
  BY DEF OpToRel
<1> QED
  BY <1>1, <1>2

LEMMA LeastNumber ==
  ASSUME NEW S, S \subseteq Nat, S # {}
  PROVE  \E m \in S : \A n \in S : m <= n
<1>1. PICK R : IsWellFoundedOn(R, Nat) /\ \A x, y \in Nat : x < y => <<x, y>> \in R
  BY NumbersWellFounded
<1>2. IsWellFoundedOn(R, Nat)
  BY <1>1
<1>3. PICK x \in S : \A y \in S : ~(<<y, x>> \in R)
  BY <1>2, WFMin, Zenon
<1>4. \A y \in S : ~(y < x)
  BY <1>1, <1>3
<1> QED
  BY <1>3, <1>4

\* p links its elements from `first' along the tails of the memory.
Links(p, first, n, mem) ==
  /\ p \in [1..n -> Elems]
  /\ n > 0 => p[1] = first
  /\ \A i \in 2..n : p[i] = mem[p[i - 1]].tail

LEMMA ChainIs ==
  ASSUME NEW first, NEW n \in Nat, NEW mem, NEW p, Links(p, first, n, mem)
  PROVE  ChainFrom(first, n, mem) = p
<1> DEFINE Step(at) == [i \in 1..n |-> IF i = 1 THEN first
                          ELSE IF at[i - 1] \in Elems THEN mem[at[i - 1]].tail ELSE NULL]
           c == CHOOSE at : at = Step(at)
<1>1. p = Step(p)
  <2>1. \A i \in 1..n : p[i] = Step(p)[i]
    <3> SUFFICES ASSUME NEW i \in 1..n PROVE p[i] = Step(p)[i]
      OBVIOUS
    <3>1. CASE i = 1
      BY <3>1 DEF Links
    <3>2. CASE i # 1
      <4>1. i \in 2..n /\ i - 1 \in 1..n
        BY <3>2
      <4> QED
        BY <3>2, <4>1 DEF Links
    <3> QED
      BY <3>1, <3>2
  <2> QED
    BY <2>1 DEF Links
<1>2. c = Step(c)
  <2> HIDE DEF Step
  <2> QED
    BY <1>1
<1>3. \A i \in 1..n : c[i] = IF i = 1 THEN first
                             ELSE IF c[i - 1] \in Elems THEN mem[c[i - 1]].tail ELSE NULL
  <2> HIDE DEF c
  <2> QED
    BY <1>2
<1>4. c \in [1..n -> {c[i] : i \in 1..n}]
  <2> HIDE DEF c
  <2> QED
    BY <1>2
<1>5. ChainFrom(first, n, mem) = c
  BY Zenon DEF ChainFrom
<1> HIDE DEF c, Step
<1>6. ASSUME NEW i \in 1..n, c[i] # p[i] PROVE FALSE
  <2> DEFINE Apart == {j \in 1..n : c[j] # p[j]}
  <2>1. PICK m \in Apart : \A j \in Apart : m <= j
    <3>1. Apart \subseteq Nat /\ Apart # {}
      BY <1>6
    <3> HIDE DEF Apart
    <3> QED
      BY <3>1, LeastNumber
  <2>2. CASE m = 1
    BY <1>3, <2>1, <2>2 DEF Links
  <2>3. CASE m # 1
    <3>1. m \in 2..n /\ m - 1 \in 1..n /\ ~(m <= m - 1)
      BY <2>1, <2>3
    <3>2. c[m - 1] = p[m - 1]
      BY <2>1, <3>1
    <3>3. p[m - 1] \in Elems /\ p[m] = mem[p[m - 1]].tail
      BY <3>1 DEF Links
    <3> QED
      BY <1>3, <2>1, <2>3, <3>1, <3>2, <3>3
  <2> QED
    BY <2>2, <2>3
<1> QED
  BY <1>4, <1>5, <1>6 DEF Links

\* Sequences of the same length with the same elements are the same.
LEMMA SameSequence ==
  ASSUME NEW S, NEW s \in Seq(S), NEW T, NEW t \in Seq(T), Len(s) = Len(t),
         \A i \in 1..Len(s) : s[i] = t[i]
  PROVE  s = t
<1>1. s \in [1..Len(s) -> S] /\ t \in [1..Len(s) -> T]
  OBVIOUS
<1> QED
  BY <1>1

-----------------------------------------------------------------------------
\* The sequence p is the list of the descriptor d in the memory mem.
Represents(p, d, mem) ==
  /\ d.n = Len(p)
  /\ p = <<>> => d.first = NULL /\ d.last = NULL
  /\ p # <<>> => /\ d.first = p[1] /\ mem[p[1]].head = NULL
                 /\ d.last = p[Len(p)] /\ mem[p[Len(p)]].tail = NULL
  /\ \A i \in 2..Len(p) : mem[p[i - 1]].tail = p[i] /\ mem[p[i]].head = p[i - 1]

\* No element is twice in it; e is not in it.
Unrepeated(p) == \A i, j \in 1..Len(p) : p[i] = p[j] => i = j
Outside(e, p) == \A i \in 1..Len(p) : p[i] # e

\* The keys along it.
KeysAlong(p, mem) == [i \in 1..Len(p) |-> mem[p[i]].data]

LEMMA KeysAlongType ==
  ASSUME NEW p \in Seq(Elems), NEW mem \in [Elems -> Elem]
  PROVE  /\ KeysAlong(p, mem) \in Seq(Key \cup {NoKey})
         /\ Len(KeysAlong(p, mem)) = Len(p)
         /\ \A i \in 1..Len(p) : KeysAlong(p, mem)[i] = mem[p[i]].data
<1>1. Len(p) \in Nat /\ \A i \in 1..Len(p) : p[i] \in Elems
  OBVIOUS
<1>2. \A i \in 1..Len(p) : mem[p[i]].data \in Key \cup {NoKey}
  BY <1>1 DEF Elem
<1> QED
  BY <1>1, <1>2 DEF KeysAlong

LEMMA ChainRepresents ==
  ASSUME NEW p \in Seq(Elems), NEW d, NEW mem, Represents(p, d, mem)
  PROVE  ChainFrom(d.first, d.n, mem) = p
<1>1. Len(p) \in Nat /\ p \in [1..Len(p) -> Elems] /\ d.n = Len(p)
  BY DEF Represents
<1>2. Links(p, d.first, d.n, mem)
  BY <1>1 DEF Represents, Links
<1> QED
  BY <1>1, <1>2, ChainIs

\* What is written to other elements leaves a list as it is.
LEMMA ElsewhereRepresents ==
  ASSUME NEW p \in Seq(Elems), NEW d, NEW mem, NEW next, Represents(p, d, mem),
         \A i \in 1..Len(p) : next[p[i]] = mem[p[i]]
  PROVE  Represents(p, d, next) /\ KeysAlong(p, next) = KeysAlong(p, mem)
<1>1. Len(p) \in Nat /\ (p # <<>> => 1 \in 1..Len(p) /\ Len(p) \in 1..Len(p))
  OBVIOUS
<1>2. \A i \in 2..Len(p) : i \in 1..Len(p) /\ i - 1 \in 1..Len(p)
  BY <1>1
<1> QED
  BY <1>1, <1>2 DEF Represents, KeysAlong

\* What enqueue makes of a descriptor and of the memory.
Enqueued(d, d1, mem, mem1, new, key) ==
  LET filled == [mem EXCEPT ![new] = [data |-> key, head |-> NULL, tail |-> NULL]]
  IN IF d.n = 0
     THEN d1 = [first |-> new, last |-> new, n |-> 1] /\ mem1 = filled
     ELSE /\ d1 = [d EXCEPT !.last = new, !.n = @ + 1]
          /\ mem1 = [filled EXCEPT ![d.last].tail = new, ![new].head = d.last]

\* It appends the element.
LEMMA EnqueueRepresents ==
  ASSUME NEW p \in Seq(Elems), NEW d \in Desc, NEW mem \in [Elems -> Elem],
         Represents(p, d, mem),
         Unrepeated(p), NEW new \in Elems, Outside(new, p),
         NEW key \in Key, NEW d1, NEW mem1, Enqueued(d, d1, mem, mem1, new, key)
  PROVE  /\ Represents(Append(p, new), d1, mem1)
         /\ KeysAlong(Append(p, new), mem1) = Append(KeysAlong(p, mem), key)
         /\ d1 \in Desc /\ mem1 \in [Elems -> Elem]
         /\ \A e \in Elems : e # new /\ Outside(e, p) => mem1[e] = mem[e]
<1> DEFINE q == Append(p, new)
           filled == [mem EXCEPT ![new] = [data |-> key, head |-> NULL, tail |-> NULL]]
<1>0. /\ d.n = 0 => d1 = [first |-> new, last |-> new, n |-> 1] /\ mem1 = filled
      /\ d.n # 0 => /\ d1 = [d EXCEPT !.last = new, !.n = @ + 1]
                    /\ mem1 = [filled EXCEPT ![d.last].tail = new, ![new].head = d.last]
  BY Zenon DEF Enqueued
<1> USE DEF Unrepeated, Outside
<1>1. /\ Len(p) \in Nat /\ p \in [1..Len(p) -> Elems] /\ d.n = Len(p)
      /\ q \in Seq(Elems) /\ Len(q) = Len(p) + 1 /\ q[Len(p) + 1] = new
      /\ \A i \in 1..Len(p) : q[i] = p[i]
  BY DEF Represents
<1>2. /\ filled \in [Elems -> Elem] /\ new \in Pointer /\ NULL \in Pointer
      /\ filled[new] = [data |-> key, head |-> NULL, tail |-> NULL]
      /\ \A e \in Elems \ {new} : filled[e] = mem[e]
  BY DEF Elem, Pointer
<1> HIDE DEF q, filled
<1>3. CASE d.n = 0
  <2>1. p = <<>> /\ q[1] = new /\ Len(q) = 1 /\ q # <<>>
    <3>1. Len(p) = 0 /\ Len(p) + 1 = 1
      BY <1>1, <1>3
    <3>2. p = <<>> /\ q[1] = new
      BY <1>1, <3>1
    <3>3. Len(q) = 1
      BY <1>1, <3>1
    <3> QED
      BY <3>2, <3>3
  <2>2. d1 \in Desc /\ mem1 = filled /\ d1.n = 1 /\ d1.first = new /\ d1.last = new
    BY <1>0, <1>2, <1>3 DEF Desc
  <2>3. Represents(q, d1, mem1)
    BY <1>2, <2>1, <2>2 DEF Represents
  <2>4. KeysAlong(q, mem1) = <<key>>
    BY <1>2, <2>1, <2>2 DEF KeysAlong
  <2>5. Append(KeysAlong(p, mem), key) = <<key>>
    BY <2>1 DEF KeysAlong
  <2> QED
    BY <1>2, <2>2, <2>3, <2>4, <2>5 DEF q
<1>4. CASE d.n # 0
  <2> DEFINE n == Len(p)
             last == p[n]
  <2>1. /\ n \in 1..n /\ p # <<>> /\ q # <<>> /\ d.last = last /\ d.first = p[1] /\ 1 \in 1..n
        /\ last \in Elems /\ last # new /\ mem[last].tail = NULL
    BY <1>1, <1>4 DEF Represents
  <2>2. /\ d1 \in Desc /\ d1.n = n + 1 /\ d1.last = new /\ d1.first = p[1]
    <3>1. d1 = [d EXCEPT !.last = new, !.n = @ + 1]
      BY <1>0, <1>4
    <3>2. d1 = [first |-> d.first, last |-> new, n |-> d.n + 1]
      BY <3>1 DEF Desc
    <3> QED
      BY <1>1, <1>2, <2>1, <3>2 DEF Desc
  <2>3. /\ mem1 = [filled EXCEPT ![last].tail = new, ![new].head = last]
        /\ last \in Pointer
    BY <1>0, <1>4, <2>1 DEF Pointer
  <2>4. /\ mem1 \in [Elems -> Elem]
        /\ mem1[new] = [data |-> key, head |-> last, tail |-> NULL]
        /\ mem1[last] = [mem[last] EXCEPT !.tail = new]
        /\ \A e \in Elems \ {new, last} : mem1[e] = mem[e]
    <3>1. filled[last] = mem[last] /\ filled[last] \in Elem
      BY <1>2, <2>1
    <3> DEFINE w == [filled EXCEPT ![last].tail = new]
    <3>2. /\ [filled[last] EXCEPT !.tail = new] \in Elem
          /\ [filled[new] EXCEPT !.head = last] \in Elem
          /\ [filled[new] EXCEPT !.head = last] = [data |-> key, head |-> last, tail |-> NULL]
      BY <1>2, <2>3, <3>1 DEF Elem
    <3>3. /\ w \in [Elems -> Elem] /\ w[last] = [mem[last] EXCEPT !.tail = new]
          /\ \A e \in Elems \ {last} : w[e] = filled[e]
      BY <1>2, <2>1, <3>1, <3>2
    <3>4. mem1 = [w EXCEPT ![new].head = last]
      BY <2>3
    <3> HIDE DEF w
    <3>5. w[new] = filled[new]
      BY <2>1, <3>3
    <3>6. /\ mem1 \in [Elems -> Elem] /\ mem1[new] = [filled[new] EXCEPT !.head = last]
          /\ \A e \in Elems \ {new} : mem1[e] = w[e]
      BY <3>2, <3>3, <3>4, <3>5
    <3> QED
      BY <1>2, <2>1, <3>2, <3>3, <3>6
  <2>5. /\ mem1[last].tail = new /\ mem1[last].head = mem[last].head
        /\ mem1[last].data = mem[last].data
    BY <2>1, <2>4 DEF Elem
  <2>6. \A i \in 1..(n - 1) : p[i] \in Elems \ {new, last}
    BY <1>1, <2>1
  <2>7. ASSUME NEW i \in 1..n PROVE mem1[p[i]].head = mem[p[i]].head /\ mem1[p[i]].data = mem[p[i]].data
    <3>1. i = n \/ i \in 1..(n - 1)
      BY <1>1
    <3> QED
      BY <3>1, <2>4, <2>5, <2>6
  <2>8. ASSUME NEW i \in 2..(n + 1) PROVE mem1[q[i - 1]].tail = q[i] /\ mem1[q[i]].head = q[i - 1]
    <3>1. CASE i = n + 1
      <4>1. i - 1 = n /\ q[i] = new /\ q[i - 1] = last
        BY <1>1, <2>1, <3>1
      <4> QED
        BY <4>1, <2>4, <2>5
    <3>2. CASE i # n + 1
      <4>1. i \in 2..n /\ i \in 1..n /\ i - 1 \in 1..(n - 1) /\ i - 1 \in 1..n
        BY <1>1, <3>2
      <4>2. mem[p[i - 1]].tail = p[i] /\ mem[p[i]].head = p[i - 1]
        BY <4>1 DEF Represents
      <4>3. q[i] = p[i] /\ q[i - 1] = p[i - 1]
        BY <1>1, <4>1
      <4> QED
        BY <4>1, <4>2, <4>3, <2>4, <2>6, <2>7
    <3> QED
      BY <3>1, <3>2
  <2>9. mem1[q[1]].head = NULL /\ q[1] = p[1]
    BY <1>1, <2>1, <2>7 DEF Represents
  <2>10. Represents(q, d1, mem1)
    BY <1>1, <2>1, <2>2, <2>4, <2>8, <2>9 DEF Represents
  <2>11. KeysAlong(q, mem1) = Append(KeysAlong(p, mem), key)
    <3> DEFINE k == KeysAlong(p, mem)
               k1 == KeysAlong(q, mem1)
    <3>1. /\ k \in Seq(Key \cup {NoKey}) /\ Len(k) = n
          /\ \A i \in 1..n : k[i] = mem[p[i]].data
      BY KeysAlongType
    <3>2. /\ k1 \in Seq(Key \cup {NoKey}) /\ Len(k1) = n + 1
          /\ \A i \in 1..(n + 1) : k1[i] = mem1[q[i]].data
      BY KeysAlongType, <1>1, <2>4
    <3> HIDE DEF k, k1
    <3>3. /\ Append(k, key) \in Seq(Key \cup {NoKey}) /\ Len(Append(k, key)) = n + 1
          /\ Append(k, key)[n + 1] = key /\ \A i \in 1..n : Append(k, key)[i] = k[i]
      BY <3>1
    <3>4. ASSUME NEW i \in 1..(n + 1) PROVE k1[i] = Append(k, key)[i]
      <4>1. CASE i = n + 1
        BY <4>1, <1>1, <2>4, <3>2, <3>3
      <4>2. CASE i # n + 1
        <5>1. i \in 1..n
          BY <4>2, <1>1
        <5> QED
          BY <5>1, <1>1, <2>7, <3>1, <3>2, <3>3
      <4> QED
        BY <4>1, <4>2
    <3>5. k1 = Append(k, key)
      BY <3>2, <3>3, <3>4, SameSequence
    <3> QED
      BY <3>5 DEF k, k1
  <2> QED
    BY <2>1, <2>2, <2>4, <2>10, <2>11 DEF q
<1> QED
  BY <1>3, <1>4

\* What dequeue makes of them.
Dequeued(d, d1, mem, mem1) ==
  LET new_first == mem[d.first].tail
  IN IF new_first # NULL
     THEN /\ d1 = [d EXCEPT !.first = new_first, !.n = @ - 1]
          /\ mem1 = [mem EXCEPT ![new_first].head = NULL, ![d.first] = Unused]
     ELSE /\ d1 = [first |-> NULL, last |-> NULL, n |-> d.n - 1]
          /\ mem1 = [mem EXCEPT ![d.first] = Unused]

\* It takes the first element.
LEMMA DequeueRepresents ==
  ASSUME NEW p \in Seq(Elems), NEW d \in Desc, NEW mem \in [Elems -> Elem],
         Represents(p, d, mem), d.n # 0, NULL \notin Elems,
         Unrepeated(p),
         NEW d1, NEW mem1, Dequeued(d, d1, mem, mem1)
  PROVE  /\ p # <<>> /\ d.first = p[1]
         /\ Represents(Tail(p), d1, mem1)
         /\ KeysAlong(Tail(p), mem1) = Tail(KeysAlong(p, mem))
         /\ d1 \in Desc /\ mem1 \in [Elems -> Elem]
         /\ \A e \in Elems : Outside(e, p) => mem1[e] = mem[e]
         /\ \A i \in 2..Len(p) : mem1[p[i]].data = mem[p[i]].data
<1> DEFINE q == Tail(p)
           n == Len(p)
           new_first == mem[d.first].tail
<1>0. /\ new_first # NULL => /\ d1 = [d EXCEPT !.first = new_first, !.n = @ - 1]
                             /\ mem1 = [mem EXCEPT ![new_first].head = NULL, ![d.first] = Unused]
      /\ new_first = NULL => /\ d1 = [first |-> NULL, last |-> NULL, n |-> d.n - 1]
                             /\ mem1 = [mem EXCEPT ![d.first] = Unused]
  BY Zenon DEF Dequeued
<1> USE DEF Unrepeated, Outside
<1>1. /\ n \in Nat \ {0} /\ p # <<>> /\ d.n = n /\ p \in [1..n -> Elems]
      /\ d.first = p[1] /\ d.last = p[n] /\ 1 \in 1..n /\ n \in 1..n /\ p[1] \in Elems
      /\ mem[p[n]].tail = NULL
  BY DEF Represents, Desc
<1>2. /\ q \in Seq(Elems) /\ Len(q) = n - 1 /\ \A i \in 1..(n - 1) : q[i] = p[i + 1]
  BY <1>1
<1>3. Unused \in Elem /\ NULL \in Pointer
  BY DEF Unused, Elem, Pointer
<1> DEFINE k == KeysAlong(p, mem)
<1>4. /\ k \in Seq(Key \cup {NoKey}) /\ Len(k) = n
      /\ \A i \in 1..n : k[i] = mem[p[i]].data
  BY KeysAlongType
<1>5. /\ Tail(k) \in Seq(Key \cup {NoKey}) /\ Len(Tail(k)) = n - 1
      /\ \A i \in 1..(n - 1) : Tail(k)[i] = k[i + 1]
  <2> HIDE DEF k
  <2>1. k # <<>>
    BY <1>1, <1>4
  <2> QED
    BY <1>1, <1>4, <2>1
<1> HIDE DEF q, k
<1>6. CASE n = 1
  <2>1. new_first = NULL /\ q = <<>>
    BY <1>1, <1>2, <1>6
  <2>2. d1 = [first |-> NULL, last |-> NULL, n |-> 0] /\ d1 \in Desc
    BY <1>0, <1>1, <1>3, <1>6, <2>1 DEF Desc
  <2>3. mem1 \in [Elems -> Elem] /\ \A e \in Elems \ {p[1]} : mem1[e] = mem[e]
    BY <1>0, <1>1, <1>3, <2>1
  <2>4. Represents(q, d1, mem1)
    BY <1>2, <1>6, <2>1, <2>2 DEF Represents
  <2>5. KeysAlong(q, mem1) = Tail(k)
    <3>1. q \in Seq(Elems) /\ Len(q) = 0
      BY <1>2, <1>6
    <3>2. KeysAlong(q, mem1) \in Seq(Key \cup {NoKey}) /\ Len(KeysAlong(q, mem1)) = 0
      BY <2>3, <3>1, KeysAlongType
    <3>3. Len(Tail(k)) = 0 /\ Tail(k) \in Seq(Key \cup {NoKey})
      BY <1>5, <1>6
    <3>4. \A i \in 1..Len(KeysAlong(q, mem1)) : KeysAlong(q, mem1)[i] = Tail(k)[i]
      BY <3>2
    <3> DEFINE none == KeysAlong(q, mem1)
               rest == Tail(k)
    <3>5. /\ none \in Seq(Key \cup {NoKey}) /\ rest \in Seq(Key \cup {NoKey})
          /\ Len(none) = Len(rest) /\ \A i \in 1..Len(none) : none[i] = rest[i]
      BY <3>2, <3>3, <3>4
    <3> HIDE DEF none, rest
    <3>6. none = rest
      BY <3>5, SameSequence
    <3> QED
      BY <3>6 DEF none, rest
  <2> QED
    BY <1>1, <1>6, <2>2, <2>3, <2>4, <2>5 DEF q, k
<1>7. CASE n # 1
  <2>1. 2 \in 2..n /\ 2 - 1 = 1 /\ 2 \in 1..n /\ 1 \in 1..(n - 1) /\ 1 + 1 = 2
    BY <1>1, <1>7
  <2>2. /\ new_first = p[2] /\ p[2] \in Elems /\ p[2] # NULL /\ p[1] # p[2] /\ q # <<>>
        /\ q[1] = p[2]
    <3>1. mem[p[2 - 1]].tail = p[2]
      BY <2>1 DEF Represents
    <3> QED
      BY <1>1, <1>2, <2>1, <3>1
  <2>3. d1 \in Desc /\ d1.n = n - 1 /\ d1.first = p[2] /\ d1.last = p[n]
    <3>1. d1 = [d EXCEPT !.first = new_first, !.n = @ - 1]
      BY <1>0, <2>2
    <3>2. d1 = [first |-> p[2], last |-> d.last, n |-> d.n - 1] /\ d.last \in Pointer
      BY <2>2, <3>1 DEF Desc
    <3>3. n - 1 \in Nat /\ p[2] \in Pointer
      BY <1>1, <2>2 DEF Pointer
    <3> QED
      BY <1>1, <3>2, <3>3 DEF Desc
  <2>4. mem1 = [mem EXCEPT ![p[2]].head = NULL, ![p[1]] = Unused]
    BY <1>0, <1>1, <2>2
  <2>5. /\ mem1 \in [Elems -> Elem]
        /\ mem1[p[2]].head = NULL
        /\ mem1[p[2]].tail = mem[p[2]].tail /\ mem1[p[2]].data = mem[p[2]].data
        /\ \A e \in Elems \ {p[1], p[2]} : mem1[e] = mem[e]
    BY <1>1, <1>3, <2>2, <2>4 DEF Elem
  <2>6. \A i \in 2..n : i \in 1..n /\ p[i] \in Elems \ {p[1]} /\ (i # 2 => p[i] # p[2])
    BY <1>1, <2>1
  <2>7. \A i \in 2..n : mem1[p[i]].tail = mem[p[i]].tail /\ mem1[p[i]].data = mem[p[i]].data
                          /\ (i # 2 => mem1[p[i]].head = mem[p[i]].head)
    BY <2>5, <2>6
  <2>8. ASSUME NEW i \in 2..(n - 1) PROVE mem1[q[i - 1]].tail = q[i] /\ mem1[q[i]].head = q[i - 1]
    <3>1. i + 1 \in 2..n /\ i \in 2..n /\ i + 1 # 2 /\ (i + 1) - 1 = i /\ i \in 1..(n - 1)
          /\ i - 1 \in 1..(n - 1) /\ (i - 1) + 1 = i
      BY <1>1
    <3>2. mem[p[i]].tail = p[i + 1] /\ mem[p[i + 1]].head = p[i]
      BY <3>1 DEF Represents
    <3>3. q[i] = p[i + 1] /\ q[i - 1] = p[i]
      BY <1>2, <3>1
    <3> QED
      BY <3>1, <3>2, <3>3, <2>7
  <2>9. n \in 2..n /\ n - 1 \in 1..(n - 1) /\ (n - 1) + 1 = n
    BY <1>1, <1>7
  <2>10. q[Len(q)] = p[n] /\ mem1[p[n]].tail = NULL
    BY <1>1, <1>2, <2>7, <2>9
  <2>11. Represents(q, d1, mem1)
    BY <1>2, <2>2, <2>3, <2>5, <2>8, <2>10 DEF Represents
  <2>12. KeysAlong(q, mem1) = Tail(k)
    <3>1. \A i \in 1..(n - 1) : i + 1 \in 2..n /\ i + 1 \in 1..n
      BY <1>1
    <3>2. ASSUME NEW i \in 1..(n - 1) PROVE mem1[q[i]].data = k[i + 1]
      <4>1. q[i] = p[i + 1] /\ k[i + 1] = mem[p[i + 1]].data
        BY <1>2, <1>4, <3>1
      <4>2. mem1[p[i + 1]].data = mem[p[i + 1]].data
        BY <2>7, <3>1
      <4> QED
        BY <4>1, <4>2
    <3>3. /\ KeysAlong(q, mem1) \in Seq(Key \cup {NoKey}) /\ Len(KeysAlong(q, mem1)) = n - 1
          /\ \A i \in 1..(n - 1) : KeysAlong(q, mem1)[i] = mem1[q[i]].data
      BY <1>2, <2>5, KeysAlongType
    <3> QED
      BY <1>5, <3>2, <3>3, SameSequence
  <2>13. ASSUME NEW e \in Elems, \A i \in 1..n : p[i] # e PROVE mem1[e] = mem[e]
    BY <1>1, <2>1, <2>5, <2>13
  <2> QED
    BY <1>1, <2>3, <2>5, <2>7, <2>11, <2>12, <2>13 DEF q, k
<1> QED
  BY <1>6, <1>7

-----------------------------------------------------------------------------
\* The inductive invariant: the lists are those of some sequences of elements, one for
\* each name, that share no element, hold all that is allocated, and are no longer than
\* the number of keys made.  That the witness is a sequence and not the chain found by
\* following pointers is what lets a step be followed without following the pointers.
OnePlaceEach(P) ==
  \A nm, m \in Names : \A i \in 1..Len(P[nm]), j \in 1..Len(P[m]) :
    P[nm][i] = P[m][j] => nm = m /\ i = j

AllListed(P) ==
  /\ \A nm \in Names : \A i \in 1..Len(P[nm]) : P[nm][i] \in alive
  /\ \A e \in alive : \E nm \in Names : \E i \in 1..Len(P[nm]) : P[nm][i] = e

Lists(P) ==
  /\ P \in [Names -> Seq(Elems)]
  /\ \A nm \in Names : Represents(P[nm], desc[nm], elem)
  /\ \A nm \in Names : Len(P[nm]) <= counter
  /\ \A nm \in Names : \A i \in 1..Len(P[nm]) : elem[P[nm][i]].data \in Key
  /\ OnePlaceEach(P)
  /\ AllListed(P)

ListInv == ListTypeOK /\ counter <= MaxKeys /\ \E P : Lists(P)

LEMMA ListStarts == ListAssumption /\ ListInit => ListInv
<1> SUFFICES ASSUME ListAssumption, ListInit PROVE ListInv
  OBVIOUS
<1> DEFINE P == [nm \in Names |-> <<>>]
<1>1. ListTypeOK /\ counter <= MaxKeys
  <2>1. EmptyDesc \in Desc /\ Unused \in Elem
    BY DEF EmptyDesc, Desc, Unused, Elem, Pointer
  <2> QED
    BY <2>1 DEF ListTypeOK, ListInit, ListAssumption
<1>2. P \in [Names -> Seq(Elems)] /\ \A nm \in Names : P[nm] = <<>> /\ Len(P[nm]) = 0
  OBVIOUS
<1> HIDE DEF P
<1>3. \A nm \in Names : Represents(P[nm], desc[nm], elem)
  BY <1>2 DEF ListInit, Represents, EmptyDesc
<1>4. Lists(P)
  BY <1>2, <1>3 DEF Lists, ListInit, OnePlaceEach, AllListed
<1> QED
  BY <1>1, <1>4 DEF ListInv

\* A new element behind a list: the others stay as they are.
LEMMA PutLists ==
  ASSUME ListAssumption, ListInv, NEW nm \in Names, PutElem(nm), NEW P, Lists(P)
  PROVE  /\ ListInv'
         /\ \E Q : /\ Lists(Q)'
                   /\ KeysAlong(Q[nm], elem') = Append(KeysAlong(P[nm], elem), KeyOf(nm, counter))
                   /\ \A m \in Names \ {nm} : KeysAlong(Q[m], elem') = KeysAlong(P[m], elem)
<1> DEFINE key == KeyOf(nm, counter)
<1>1. PICK new \in Elems \ alive :
         /\ alive' = alive \cup {new}
         /\ Enqueue(nm, new, Filled(new, key))
  BY DEF PutElem
<1> DEFINE filled == Filled(new, key)
           Q == [P EXCEPT ![nm] = Append(@, new)]
<1>2. /\ desc \in [Names -> Desc] /\ elem \in [Elems -> Elem] /\ counter \in Nat
      /\ counter' = counter + 1 /\ counter' \in Nat /\ counter' <= MaxKeys /\ key \in Key
  BY DEF ListInv, ListTypeOK, PutElem, ListAssumption, KeyOf, Key, Names
<1>3. filled = [elem EXCEPT ![new] = [data |-> key, head |-> NULL, tail |-> NULL]]
  BY DEF Filled
<1>4. /\ P \in [Names -> Seq(Elems)] /\ P[nm] \in Seq(Elems) /\ Represents(P[nm], desc[nm], elem)
      /\ \A m \in Names : P[m] \in Seq(Elems) /\ Len(P[m]) \in Nat
      /\ \A m \in Names : \A i \in 1..Len(P[m]) : P[m][i] # new
      /\ \A i, j \in 1..Len(P[nm]) : P[nm][i] = P[nm][j] => i = j
  BY <1>1 DEF Lists, AllListed, OnePlaceEach
<1>5. /\ Enqueued(desc[nm], desc'[nm], elem, elem', new, key)
      /\ \E d : desc' = [desc EXCEPT ![nm] = d]
  BY <1>1, <1>2, <1>3 DEF Enqueue, Enqueued
<1> HIDE DEF key, filled
<1>6. /\ Represents(Append(P[nm], new), desc'[nm], elem')
      /\ KeysAlong(Append(P[nm], new), elem') = Append(KeysAlong(P[nm], elem), key)
      /\ desc'[nm] \in Desc /\ elem' \in [Elems -> Elem]
      /\ \A e \in Elems : e # new /\ Outside(e, P[nm]) => elem'[e] = elem[e]
  <2>1. desc[nm] \in Desc /\ elem \in [Elems -> Elem] /\ new \in Elems /\ key \in Key
    BY <1>1, <1>2
  <2>2. /\ P[nm] \in Seq(Elems) /\ Represents(P[nm], desc[nm], elem)
        /\ Enqueued(desc[nm], desc'[nm], elem, elem', new, key)
    BY <1>4, <1>5
  <2>3. Unrepeated(P[nm]) /\ Outside(new, P[nm])
    BY <1>4 DEF Unrepeated, Outside
  <2> DEFINE p == P[nm]
             d == desc[nm]
             d1 == desc'[nm]
             mem == elem
             mem1 == elem'
  <2>4. /\ p \in Seq(Elems) /\ d \in Desc /\ mem \in [Elems -> Elem] /\ Represents(p, d, mem)
        /\ Unrepeated(p) /\ new \in Elems /\ Outside(new, p) /\ key \in Key
        /\ Enqueued(d, d1, mem, mem1, new, key)
    BY <2>1, <2>2, <2>3
  <2> HIDE DEF p, d, d1, mem, mem1
  <2>5. /\ Represents(Append(p, new), d1, mem1)
        /\ KeysAlong(Append(p, new), mem1) = Append(KeysAlong(p, mem), key)
        /\ d1 \in Desc /\ mem1 \in [Elems -> Elem]
        /\ \A e \in Elems : e # new /\ Outside(e, p) => mem1[e] = mem[e]
    BY <2>4, EnqueueRepresents
  <2> QED
    BY <2>5 DEF p, d, d1, mem, mem1
<1>7. ListTypeOK'
  <2>1. desc' \in [Names -> Desc]
    BY <1>2, <1>5, <1>6
  <2>2. buffer' = key /\ entered' = entered \cup {nm}
    BY DEF PutElem, key
  <2> QED
    BY <1>1, <1>2, <1>6, <2>1, <2>2 DEF ListInv, ListTypeOK
<1>8. /\ Q \in [Names -> Seq(Elems)] /\ Q[nm] = Append(P[nm], new)
      /\ \A m \in Names \ {nm} : Q[m] = P[m]
      /\ Len(Q[nm]) = Len(P[nm]) + 1 /\ Q[nm][Len(P[nm]) + 1] = new
      /\ \A i \in 1..Len(P[nm]) : Q[nm][i] = P[nm][i]
  BY <1>1, <1>4
<1> HIDE DEF Q
<1>9. ASSUME NEW m \in Names \ {nm}
      PROVE  /\ \A i \in 1..Len(P[m]) : elem'[P[m][i]] = elem[P[m][i]]
             /\ Represents(Q[m], desc'[m], elem')
             /\ KeysAlong(Q[m], elem') = KeysAlong(P[m], elem)
  <2>1. \A i \in 1..Len(P[m]) : elem'[P[m][i]] = elem[P[m][i]]
    <3> TAKE i \in 1..Len(P[m])
    <3>1. P[m][i] \in Elems /\ P[m][i] # new
      BY <1>4
    <3>2. \A j \in 1..Len(P[nm]) : P[nm][j] # P[m][i]
      BY DEF Lists, OnePlaceEach
    <3> QED
      BY <1>6, <3>1, <3>2 DEF Outside
  <2>2. desc'[m] = desc[m] /\ Represents(P[m], desc[m], elem)
    BY <1>2, <1>5 DEF Lists
  <2> QED
    <3> DEFINE p == P[m]
               d == desc[m]
               mem1 == elem'
    <3>1. p \in Seq(Elems) /\ Represents(p, d, elem) /\ \A i \in 1..Len(p) : mem1[p[i]] = elem[p[i]]
      BY <1>4, <2>1, <2>2
    <3> HIDE DEF p, d, mem1
    <3>2. Represents(p, d, mem1) /\ KeysAlong(p, mem1) = KeysAlong(p, elem)
      BY <3>1, ElsewhereRepresents
    <3>3. Represents(P[m], desc[m], elem') /\ KeysAlong(P[m], elem') = KeysAlong(P[m], elem)
      BY <3>2 DEF p, d, mem1
    <3> QED
      BY <1>8, <2>1, <2>2, <3>3
\* Every element listed afterwards: an old one in its place, or the new one.
<1>10. ASSUME NEW m \in Names, NEW i \in 1..Len(Q[m])
       PROVE  \/ i \in 1..Len(P[m]) /\ Q[m][i] = P[m][i]
              \/ m = nm /\ i = Len(P[nm]) + 1 /\ Q[m][i] = new
  <2>1. CASE m = nm
    <3>1. i \in 1..Len(P[nm]) \/ i = Len(P[nm]) + 1
      BY <1>4, <1>8, <2>1
    <3> QED
      BY <1>8, <2>1, <3>1
  <2>2. CASE m # nm
    BY <1>8, <2>2
  <2> QED
    BY <2>1, <2>2
<1>11. \A m \in Names : \A i \in 1..Len(P[m]) : i \in 1..Len(Q[m]) /\ Q[m][i] = P[m][i]
  <2> TAKE m \in Names
  <2> TAKE i \in 1..Len(P[m])
  <2>1. CASE m = nm
    BY <1>4, <1>8, <2>1
  <2>2. CASE m # nm
    BY <1>8, <2>2
  <2> QED
    BY <2>1, <2>2
<1>12. Lists(Q)'
  <2>1. ASSUME NEW m \in Names PROVE Represents(Q[m], desc'[m], elem')
    <3>1. CASE m = nm
      BY <1>6, <1>8, <3>1
    <3>2. CASE m # nm
      BY <1>9, <3>2
    <3> QED
      BY <3>1, <3>2
  <2>2. ASSUME NEW m \in Names PROVE Len(Q[m]) <= counter'
    <3>1. Len(P[m]) \in Nat /\ Len(P[m]) <= counter
      BY <1>4 DEF Lists
    <3>2. Len(Q[m]) = Len(P[m]) \/ Len(Q[m]) = Len(P[m]) + 1
      BY <1>8
    <3> QED
      BY <1>2, <3>1, <3>2
  <2>3. ASSUME NEW m \in Names, NEW i \in 1..Len(Q[m]) PROVE elem'[Q[m][i]].data \in Key
    <3>1. CASE m # nm
      BY <1>8, <1>9, <3>1 DEF Lists
    <3>2. CASE m = nm
      <4> DEFINE k == KeysAlong(P[nm], elem)
      <4>1. /\ k \in Seq(Key \cup {NoKey}) /\ Len(k) = Len(P[nm])
            /\ \A j \in 1..Len(P[nm]) : k[j] = elem[P[nm][j]].data
        BY <1>2, <1>4, KeysAlongType
      <4>2. \A j \in 1..Len(P[nm]) : k[j] \in Key
        BY <4>1 DEF Lists
      <4>3. elem'[Q[nm][i]].data = KeysAlong(Q[nm], elem')[i]
        <5>1. Q[nm] \in Seq(Elems)
          BY <1>8
        <5> QED
          BY <1>6, <3>2, <5>1, KeysAlongType
      <4> HIDE DEF k
      <4>4. KeysAlong(Q[nm], elem') = Append(k, key)
        BY <1>6, <1>8 DEF k
      <4>5. Append(k, key)[i] \in Key
        BY <1>2, <1>4, <1>8, <3>2, <4>1, <4>2
      <4> QED
        BY <3>2, <4>3, <4>4, <4>5
    <3> QED
      BY <3>1, <3>2
  <2>4. OnePlaceEach(Q)
    <3> SUFFICES ASSUME NEW m \in Names, NEW l \in Names, NEW i \in 1..Len(Q[m]),
                        NEW j \in 1..Len(Q[l]), Q[m][i] = Q[l][j]
                 PROVE  m = l /\ i = j
      BY DEF OnePlaceEach
    <3>1. CASE i \in 1..Len(P[m]) /\ Q[m][i] = P[m][i] /\ j \in 1..Len(P[l]) /\ Q[l][j] = P[l][j]
      <4>1. P[m][i] = P[l][j]
        BY <3>1
      <4>2. \A a, b \in Names : \A x \in 1..Len(P[a]), y \in 1..Len(P[b]) : P[a][x] = P[b][y] => a = b /\ x = y
        BY DEF Lists, OnePlaceEach
      <4> QED
        BY <3>1, <4>1, <4>2
    <3>2. CASE m = nm /\ i = Len(P[nm]) + 1 /\ l = nm /\ j = Len(P[nm]) + 1
      BY <3>2
    <3>3. ~(i \in 1..Len(P[m]) /\ Q[m][i] = P[m][i] /\ Q[l][j] = new)
      BY <1>4
    <3>4. ~(j \in 1..Len(P[l]) /\ Q[l][j] = P[l][j] /\ Q[m][i] = new)
      BY <1>4
    <3> QED
      BY <1>10, <3>1, <3>2, <3>3, <3>4
  <2>5. AllListed(Q)'
    <3>1. \A m \in Names : \A i \in 1..Len(Q[m]) : Q[m][i] \in alive'
      BY <1>1, <1>10 DEF Lists, AllListed
    <3>2. ASSUME NEW e \in alive' PROVE \E m \in Names : \E i \in 1..Len(Q[m]) : Q[m][i] = e
      <4>1. CASE e = new
        <5>1. Len(P[nm]) + 1 \in 1..Len(Q[nm])
          BY <1>4, <1>8
        <5> QED
          BY <1>8, <4>1, <5>1
      <4>2. CASE e \in alive
        <5>1. PICK m \in Names : \E i \in 1..Len(P[m]) : P[m][i] = e
          BY <4>2 DEF Lists, AllListed
        <5> QED
          BY <5>1, <1>11
      <4> QED
        BY <1>1, <4>1, <4>2
    <3> QED
      BY <3>1, <3>2 DEF AllListed
  <2> QED
    BY <1>8, <2>1, <2>2, <2>3, <2>4, <2>5 DEF Lists, OnePlaceEach
<1> QED
  BY <1>2, <1>6, <1>7, <1>8, <1>9, <1>12 DEF ListInv, key

\* The first element of a list is taken and freed: the others stay as they are.
LEMMA GetLists ==
  ASSUME ListAssumption, ListInv, NEW nm \in Names, GetElem(nm), NEW P, Lists(P)
  PROVE  /\ ListInv'
         /\ P[nm] # <<>> /\ buffer' = elem[P[nm][1]].data
         /\ \E Q : /\ Lists(Q)'
                   /\ KeysAlong(Q[nm], elem') = Tail(KeysAlong(P[nm], elem))
                   /\ \A m \in Names \ {nm} : KeysAlong(Q[m], elem') = KeysAlong(P[m], elem)
<1> DEFINE ret == desc[nm].first
           Q == [P EXCEPT ![nm] = Tail(@)]
<1>1. /\ desc \in [Names -> Desc] /\ elem \in [Elems -> Elem] /\ counter \in Nat
      /\ counter' = counter /\ entered' = entered /\ counter' <= MaxKeys
      /\ desc[nm].n # 0 /\ NULL \notin Elems
  BY DEF ListInv, ListTypeOK, GetElem, ListAssumption
<1>2. /\ Dequeued(desc[nm], desc'[nm], elem, elem')
      /\ \E d : desc' = [desc EXCEPT ![nm] = d]
      /\ alive' = alive \ {ret}
  BY <1>1 DEF GetElem, Dequeue, Dequeued
<1>3. /\ P \in [Names -> Seq(Elems)] /\ P[nm] \in Seq(Elems) /\ Represents(P[nm], desc[nm], elem)
      /\ \A m \in Names : P[m] \in Seq(Elems) /\ Len(P[m]) \in Nat
      /\ Unrepeated(P[nm])
  BY DEF Lists, OnePlaceEach, Unrepeated
<1>4. /\ P[nm] # <<>> /\ ret = P[nm][1]
      /\ Represents(Tail(P[nm]), desc'[nm], elem')
      /\ KeysAlong(Tail(P[nm]), elem') = Tail(KeysAlong(P[nm], elem))
      /\ desc'[nm] \in Desc /\ elem' \in [Elems -> Elem]
      /\ \A e \in Elems : Outside(e, P[nm]) => elem'[e] = elem[e]
      /\ \A i \in 2..Len(P[nm]) : elem'[P[nm][i]].data = elem[P[nm][i]].data
  <2> DEFINE p == P[nm]
             d == desc[nm]
             d1 == desc'[nm]
             mem == elem
             mem1 == elem'
  <2>1. /\ p \in Seq(Elems) /\ d \in Desc /\ mem \in [Elems -> Elem] /\ Represents(p, d, mem)
        /\ d.n # 0 /\ NULL \notin Elems /\ Unrepeated(p) /\ Dequeued(d, d1, mem, mem1)
    BY <1>1, <1>2, <1>3
  <2> HIDE DEF p, d, d1, mem, mem1
  <2>2. /\ p # <<>> /\ d.first = p[1]
        /\ Represents(Tail(p), d1, mem1)
        /\ KeysAlong(Tail(p), mem1) = Tail(KeysAlong(p, mem))
        /\ d1 \in Desc /\ mem1 \in [Elems -> Elem]
        /\ \A e \in Elems : Outside(e, p) => mem1[e] = mem[e]
        /\ \A i \in 2..Len(p) : mem1[p[i]].data = mem[p[i]].data
    BY <2>1, DequeueRepresents
  <2> QED
    BY <2>2 DEF p, d, d1, mem, mem1
<1>5. /\ buffer' = elem[P[nm][1]].data /\ buffer' \in Key /\ 1 \in 1..Len(P[nm])
      /\ Len(P[nm]) \in Nat \ {0} /\ P[nm][1] \in Elems
  <2>1. Len(P[nm]) \in Nat \ {0} /\ 1 \in 1..Len(P[nm])
    BY <1>3, <1>4
  <2>2. buffer' = elem[P[nm][1]].data
    BY <1>4 DEF GetElem
  <2> QED
    BY <1>3, <2>1, <2>2 DEF Lists
<1>6. ListTypeOK'
  <2>1. desc' \in [Names -> Desc]
    BY <1>1, <1>2, <1>4
  <2> QED
    BY <1>1, <1>2, <1>4, <1>5, <2>1 DEF ListInv, ListTypeOK
<1>7. /\ Q \in [Names -> Seq(Elems)] /\ Q[nm] = Tail(P[nm])
      /\ \A m \in Names \ {nm} : Q[m] = P[m]
      /\ Len(Q[nm]) = Len(P[nm]) - 1
      /\ \A i \in 1..Len(Q[nm]) : Q[nm][i] = P[nm][i + 1]
  <2>1. Tail(P[nm]) \in Seq(Elems) /\ Len(Tail(P[nm])) = Len(P[nm]) - 1
        /\ \A i \in 1..Len(Tail(P[nm])) : Tail(P[nm])[i] = P[nm][i + 1]
    BY <1>3, <1>4
  <2> QED
    BY <1>3, <2>1
<1> HIDE DEF Q
<1>8. ASSUME NEW m \in Names \ {nm}
      PROVE  /\ \A i \in 1..Len(P[m]) : elem'[P[m][i]] = elem[P[m][i]]
             /\ Represents(Q[m], desc'[m], elem')
             /\ KeysAlong(Q[m], elem') = KeysAlong(P[m], elem)
  <2>1. \A i \in 1..Len(P[m]) : elem'[P[m][i]] = elem[P[m][i]]
    <3> TAKE i \in 1..Len(P[m])
    <3>1. P[m][i] \in Elems
      BY <1>3
    <3>2. \A j \in 1..Len(P[nm]) : P[nm][j] # P[m][i]
      BY DEF Lists, OnePlaceEach
    <3> QED
      BY <1>4, <3>1, <3>2 DEF Outside
  <2>2. desc'[m] = desc[m] /\ Represents(P[m], desc[m], elem)
    BY <1>1, <1>2 DEF Lists
  <2> DEFINE p == P[m]
             d == desc[m]
             mem1 == elem'
  <2>3. p \in Seq(Elems) /\ Represents(p, d, elem) /\ \A i \in 1..Len(p) : mem1[p[i]] = elem[p[i]]
    BY <1>3, <2>1, <2>2
  <2> HIDE DEF p, d, mem1
  <2>4. Represents(p, d, mem1) /\ KeysAlong(p, mem1) = KeysAlong(p, elem)
    BY <2>3, ElsewhereRepresents
  <2>5. Represents(P[m], desc[m], elem') /\ KeysAlong(P[m], elem') = KeysAlong(P[m], elem)
    BY <2>4 DEF p, d, mem1
  <2> QED
    BY <1>7, <2>1, <2>2, <2>5
\* Every element listed afterwards was listed before, and was not the one taken.
<1> DEFINE Was(m, i) == IF m = nm THEN i + 1 ELSE i
<1>9. ASSUME NEW m \in Names, NEW i \in 1..Len(Q[m])
      PROVE  /\ Was(m, i) \in 1..Len(P[m]) /\ Q[m][i] = P[m][Was(m, i)]
             /\ Q[m][i] # ret
  <2>1. Was(m, i) \in 1..Len(P[m]) /\ Q[m][i] = P[m][Was(m, i)]
    <3>1. CASE m = nm
      BY <1>5, <1>7, <3>1
    <3>2. CASE m # nm
      BY <1>7, <3>2
    <3> QED
      BY <3>1, <3>2
  <2>2. \A a, b \in Names : \A x \in 1..Len(P[a]), y \in 1..Len(P[b]) : P[a][x] = P[b][y] => a = b /\ x = y
    BY DEF Lists, OnePlaceEach
  <2>3. ASSUME P[m][Was(m, i)] = P[nm][1] PROVE FALSE
    <3>1. m = nm /\ Was(m, i) = 1
      BY <1>5, <2>1, <2>2, <2>3
    <3> QED
      BY <1>7, <3>1
  <2> QED
    BY <1>4, <2>1, <2>3
<1>10. ASSUME NEW m \in Names, NEW j \in 1..Len(P[m]), P[m][j] # ret
       PROVE  \E i \in 1..Len(Q[m]) : Q[m][i] = P[m][j]
  <2>1. CASE m = nm
    <3>1. j - 1 \in 1..Len(Q[nm]) /\ (j - 1) + 1 = j
      BY <1>4, <1>5, <1>7, <1>10, <2>1
    <3> QED
      BY <1>7, <2>1, <3>1
  <2>2. CASE m # nm
    BY <1>7, <2>2
  <2> QED
    BY <2>1, <2>2
<1>11. Lists(Q)'
  <2>1. ASSUME NEW m \in Names PROVE Represents(Q[m], desc'[m], elem')
    <3>1. CASE m = nm
      BY <1>4, <1>7, <3>1
    <3>2. CASE m # nm
      BY <1>8, <3>2
    <3> QED
      BY <3>1, <3>2
  <2>2. ASSUME NEW m \in Names PROVE Len(Q[m]) <= counter'
    <3>1. Len(P[m]) \in Nat /\ Len(P[m]) <= counter
      BY <1>3 DEF Lists
    <3>2. Len(Q[m]) = Len(P[m]) \/ Len(Q[m]) = Len(P[m]) - 1
      BY <1>7
    <3> QED
      BY <1>1, <3>1, <3>2
  <2>3. ASSUME NEW m \in Names, NEW i \in 1..Len(Q[m]) PROVE elem'[Q[m][i]].data \in Key
    <3>1. CASE m # nm
      BY <1>7, <1>8, <3>1 DEF Lists
    <3>2. CASE m = nm
      <4>1. Len(P[nm]) \in Nat /\ i \in 1..Len(P[nm]) - 1 /\ Q[m][i] = P[nm][i + 1]
        <5> HIDE DEF Q
        <5>1. Len(Q[nm]) = Len(P[nm]) - 1 /\ Len(P[nm]) \in Nat
          BY <1>5, <1>7
        <5>2. i \in 1..Len(Q[nm])
          BY <3>2
        <5> QED
          BY <1>7, <3>2, <5>1, <5>2
      <4>2. i + 1 \in 2..Len(P[nm]) /\ i + 1 \in 1..Len(P[nm])
        BY <4>1
      <4>3. elem[P[nm][i + 1]].data \in Key
        BY <4>2 DEF Lists
      <4> HIDE DEF Q, ret
      <4>4. elem'[P[nm][i + 1]].data = elem[P[nm][i + 1]].data
        BY <1>4, <4>2
      <4> QED
        BY <4>1, <4>3, <4>4
    <3> QED
      BY <3>1, <3>2
  <2>4. OnePlaceEach(Q)
    <3> SUFFICES ASSUME NEW m \in Names, NEW l \in Names, NEW i \in 1..Len(Q[m]),
                        NEW j \in 1..Len(Q[l]), Q[m][i] = Q[l][j]
                 PROVE  m = l /\ i = j
      BY DEF OnePlaceEach
    <3>1. P[m][Was(m, i)] = P[l][Was(l, j)] /\ Was(m, i) \in 1..Len(P[m]) /\ Was(l, j) \in 1..Len(P[l])
      BY <1>9
    <3>2. \A a, b \in Names : \A x \in 1..Len(P[a]), y \in 1..Len(P[b]) : P[a][x] = P[b][y] => a = b /\ x = y
      BY DEF Lists, OnePlaceEach
    <3>3. m = l /\ Was(m, i) = Was(l, j)
      <4> HIDE DEF Was
      <4> QED
        BY <3>1, <3>2
    <3> QED
      BY <1>7, <3>3
  <2>5. AllListed(Q)'
    <3>1. ASSUME NEW m \in Names, NEW i \in 1..Len(Q[m]) PROVE Q[m][i] \in alive'
      <4>1. Q[m][i] = P[m][Was(m, i)] /\ Q[m][i] # ret /\ Was(m, i) \in 1..Len(P[m])
        BY <1>9
      <4> HIDE DEF Was
      <4> QED
        BY <1>2, <4>1 DEF Lists, AllListed
    <3>2. ASSUME NEW e \in alive' PROVE \E m \in Names : \E i \in 1..Len(Q[m]) : Q[m][i] = e
      <4>1. e \in alive /\ e # ret
        BY <1>2
      <4>2. PICK m \in Names : \E j \in 1..Len(P[m]) : P[m][j] = e
        BY <4>1 DEF Lists, AllListed
      <4> QED
        BY <1>10, <4>1, <4>2
    <3> QED
      BY <3>1, <3>2 DEF AllListed
  <2> QED
    BY <1>7, <2>1, <2>2, <2>3, <2>4, <2>5 DEF Lists, OnePlaceEach
<1> QED
  BY <1>1, <1>4, <1>5, <1>6, <1>7, <1>8, <1>11 DEF ListInv

-----------------------------------------------------------------------------
\* A call that changes no list.
LEMMA KeepsLists ==
  ASSUME ListInv, UNCHANGED <<entered, counter, desc, alive, elem>>, buffer' \in Key \cup {NoKey}
  PROVE  ListInv' /\ \A P : Lists(P)' <=> Lists(P)
<1>1. \A P : Lists(P)' <=> Lists(P)
  BY DEF Lists, AllListed, OnePlaceEach
<1> QED
  BY <1>1 DEF ListInv, ListTypeOK

LEMMA ListStep == ListAssumption /\ ListInv /\ [ListNext]_listVars => ListInv'
<1> SUFFICES ASSUME ListAssumption, ListInv, [ListNext]_listVars PROVE ListInv'
  OBVIOUS
<1>1. PICK P : Lists(P)
  BY DEF ListInv
<1>2. ASSUME NEW nm \in Names, PutElem(nm) PROVE ListInv'
  BY <1>1, <1>2, PutLists
<1>3. ASSUME NEW nm \in Names, PutRefused(nm) PROVE ListInv'
  BY <1>3, KeepsLists DEF PutRefused
<1>4. ASSUME NEW nm \in Names, GetElem(nm) PROVE ListInv'
  BY <1>1, <1>4, GetLists
<1>5. ASSUME NEW nm \in Names, GetMissing(nm) PROVE ListInv'
  BY <1>5, KeepsLists DEF GetMissing
<1>6. CASE UNCHANGED listVars
  <2>1. buffer' \in Key \cup {NoKey}
    BY <1>6 DEF listVars, ListInv, ListTypeOK
  <2> QED
    BY <1>6, <2>1, KeepsLists DEF listVars
<1> QED
  BY <1>2, <1>3, <1>4, <1>5, <1>6 DEF ListNext

\* The chain and the contents of a descriptor are those of the sequence it is the list of.
LEMMA ContentsRepresent ==
  ASSUME NEW p \in Seq(Elems), NEW d, NEW mem, Represents(p, d, mem)
  PROVE  [i \in 1..d.n |-> IF ChainFrom(d.first, d.n, mem)[i] \in Elems
                           THEN mem[ChainFrom(d.first, d.n, mem)[i]].data ELSE NoKey]
           = KeysAlong(p, mem)
<1>1. ChainFrom(d.first, d.n, mem) = p
  BY ChainRepresents
<1>2. d.n = Len(p) /\ \A i \in 1..Len(p) : p[i] \in Elems
  BY DEF Represents
<1> QED
  BY <1>1, <1>2 DEF KeysAlong

LEMMA ContentsListed ==
  ASSUME NEW P, Lists(P), NEW nm \in Names
  PROVE  Chain(nm) = P[nm] /\ Contents(nm) = KeysAlong(P[nm], elem)
<1> DEFINE p == P[nm]
           d == desc[nm]
<1>1. p \in Seq(Elems) /\ Represents(p, d, elem)
  BY DEF Lists
<1> HIDE DEF p, d
<1>2. ChainFrom(d.first, d.n, elem) = p
  BY <1>1, ChainRepresents
<1>3. [i \in 1..d.n |-> IF ChainFrom(d.first, d.n, elem)[i] \in Elems
                        THEN elem[ChainFrom(d.first, d.n, elem)[i]].data ELSE NoKey]
        = KeysAlong(p, elem)
  BY <1>1, ContentsRepresent
<1> QED
  BY <1>2, <1>3, Zenon DEF Contents, Chain, p, d

LEMMA ContentsListedNext ==
  ASSUME NEW P, Lists(P)', NEW nm \in Names
  PROVE  Contents(nm)' = KeysAlong(P[nm], elem')
<1> DEFINE p == P[nm]
           d1 == desc'[nm]
           mem1 == elem'
<1>1. p \in Seq(Elems) /\ Represents(p, d1, mem1)
  BY DEF Lists
<1> HIDE DEF p, d1, mem1
<1>2. [i \in 1..d1.n |-> IF ChainFrom(d1.first, d1.n, mem1)[i] \in Elems
                         THEN mem1[ChainFrom(d1.first, d1.n, mem1)[i]].data ELSE NoKey]
        = KeysAlong(p, mem1)
  BY <1>1, ContentsRepresent
<1> QED
  BY <1>2, Zenon DEF Contents, Chain, p, d1, mem1

-----------------------------------------------------------------------------
\* In every reachable state the lists are those of sequences of elements that share
\* nothing and hold exactly what is allocated: the invariant the other theorems rest on.
THEOREM ListInvariant == ListSpec => []ListInv
<1>1. ListInit => ListInv
  BY ListStarts, ListAssumption
<1>2. ListInv /\ [ListNext]_listVars => ListInv'
  BY ListStep, ListAssumption
<1> QED
  BY <1>1, <1>2, PTL DEF ListSpec

\* enqueue, dequeue, new_element and free_element leave every variable of the lists in
\* its type: no pointer ever leaves the allocated elements and NULL.
THEOREM ListTypeCorrect == ListSpec => []ListTypeOK
<1>1. ListInv => ListTypeOK
  BY DEF ListInv
<1> QED
  BY <1>1, ListInvariant, PTL

\* enqueue and dequeue keep every list well linked, whatever the names, the elements and
\* the order of the calls: first and last are its ends, head is the inverse of tail, and
\* no element on it has been freed.
THEOREM ListsStayWellLinked == ListSpec => []WellLinked
<1>1. ASSUME ListInv PROVE WellLinked
  <2>1. PICK P : Lists(P)
    BY <1>1 DEF ListInv
  <2> SUFFICES ASSUME NEW nm \in Names
               PROVE  LET n == desc[nm].n
                          at == Chain(nm)
                      IN IF n = 0
                         THEN desc[nm].first = NULL /\ desc[nm].last = NULL
                         ELSE /\ \A i \in 1..n : at[i] \in alive
                              /\ desc[nm].last = at[n]
                              /\ elem[at[n]].tail = NULL
                              /\ elem[at[1]].head = NULL
                              /\ \A i \in 2..n : elem[at[i]].head = at[i - 1]
    BY Zenon DEF WellLinked
  <2>2. Chain(nm) = P[nm]
    BY <2>1, ContentsListed
  <2>3. P[nm] \in Seq(Elems) /\ Represents(P[nm], desc[nm], elem)
    BY <2>1 DEF Lists
  <2>4. \A i \in 1..Len(P[nm]) : P[nm][i] \in alive
    BY <2>1 DEF Lists, AllListed
  <2>5. desc[nm].n = Len(P[nm]) /\ Len(P[nm]) \in Nat /\ (P[nm] = <<>> <=> Len(P[nm]) = 0)
    BY <2>3 DEF Represents
  <2> QED
    BY <2>2, <2>3, <2>4, <2>5 DEF Represents
<1> QED
  BY <1>1, ListInvariant, PTL

\* Every element that new_element allocated and free_element has not freed is in exactly
\* one place of one list, and no freed element is in any: nothing leaks, and no two lists
\* share an element.
THEOREM NothingLeaks == ListSpec => []NoLeakNoSharing
<1>1. ASSUME ListInv PROVE NoLeakNoSharing
  <2>1. PICK P : Lists(P)
    BY <1>1 DEF ListInv
  <2> SUFFICES ASSUME NEW e \in Elems
               PROVE  Cardinality(PlacesOf(e)) = IF e \in alive THEN 1 ELSE 0
    BY DEF NoLeakNoSharing
  <2>2. \A nm \in Names : /\ Chain(nm) = P[nm] /\ desc[nm].n = Len(P[nm])
                          /\ Len(P[nm]) \in Nat /\ Len(P[nm]) <= MaxKeys
    <3> SUFFICES ASSUME NEW nm \in Names
                 PROVE  /\ Chain(nm) = P[nm] /\ desc[nm].n = Len(P[nm])
                        /\ Len(P[nm]) \in Nat /\ Len(P[nm]) <= MaxKeys
      OBVIOUS
    <3>1. Chain(nm) = P[nm]
      BY <2>1, ContentsListed
    <3>2. P[nm] \in Seq(Elems) /\ Represents(P[nm], desc[nm], elem) /\ Len(P[nm]) <= counter
      BY <2>1 DEF Lists
    <3>3. counter \in Nat /\ counter <= MaxKeys /\ MaxKeys \in Nat
      BY <1>1, ListAssumption DEF ListInv, ListTypeOK
    <3> QED
      BY <3>1, <3>2, <3>3 DEF Represents
  <2>3. \A place : place \in PlacesOf(e) <=>
          \E nm \in Names : \E i \in 1..Len(P[nm]) : place = <<nm, i>> /\ P[nm][i] = e
    <3>1. MaxKeys \in Nat
      BY ListAssumption
    <3>2. ASSUME NEW place \in PlacesOf(e)
          PROVE  \E nm \in Names : \E i \in 1..Len(P[nm]) : place = <<nm, i>> /\ P[nm][i] = e
      <4>1. PICK nm \in Names, i \in 1..MaxKeys : place = <<nm, i>>
        BY <3>2 DEF PlacesOf
      <4>2. i <= desc[nm].n /\ Chain(nm)[i] = e
        BY <3>2, <4>1 DEF PlacesOf
      <4> QED
        BY <2>2, <3>1, <4>1, <4>2
    <3>3. ASSUME NEW nm \in Names, NEW i \in 1..Len(P[nm]), P[nm][i] = e
          PROVE  <<nm, i>> \in PlacesOf(e)
      <4>1. i \in 1..MaxKeys /\ i <= desc[nm].n /\ Chain(nm)[i] = e
        BY <2>2, <3>1, <3>3
      <4> QED
        BY <4>1 DEF PlacesOf
    <3> QED
      BY <3>2, <3>3
  <2>4. CASE e \in alive
    <3>1. PICK nm \in Names : \E i \in 1..Len(P[nm]) : P[nm][i] = e
      BY <2>1, <2>4 DEF Lists, AllListed
    <3>2. PICK i \in 1..Len(P[nm]) : P[nm][i] = e
      BY <3>1
    <3>3. \A m \in Names : \A j \in 1..Len(P[m]) : P[m][j] = e => m = nm /\ j = i
      BY <2>1, <3>2 DEF Lists, OnePlaceEach
    <3>4. PlacesOf(e) = {<<nm, i>>}
      BY <2>3, <3>2, <3>3
    <3> QED
      BY <2>4, <3>4, FS_Singleton
  <2>5. CASE e \notin alive
    <3>1. PlacesOf(e) = {}
      BY <2>1, <2>3, <2>5 DEF Lists, AllListed
    <3> QED
      BY <2>5, <3>1, FS_EmptySet
  <2> QED
    BY <2>4, <2>5
<1> QED
  BY <1>1, ListInvariant, PTL

-----------------------------------------------------------------------------
\* The queues AkyKeys speaks of, under the refinement mapping.
Queues == [nm \in Names |-> Contents(nm)]

LEMMA QueuesListed ==
  ASSUME NEW P, Lists(P)
  PROVE  Queues = [nm \in Names |-> KeysAlong(P[nm], elem)]
BY ContentsListed, Zenon DEF Queues

LEMMA QueuesListedNext ==
  ASSUME NEW P, Lists(P)'
  PROVE  Queues' = [nm \in Names |-> KeysAlong(P[nm], elem')]
<1>1. \A nm \in Names : Contents(nm)' = KeysAlong(P[nm], elem')
  BY ContentsListedNext
<1> QED
  BY <1>1, Zenon DEF Queues

LEMMA PutImplements ==
  ASSUME ListInv, NEW nm \in Names, PutElem(nm)
  PROVE  Queues' = [Queues EXCEPT ![nm] = Append(@, KeyOf(nm, counter))]
<1>1. PICK P : Lists(P)
  BY DEF ListInv
<1>2. PICK Q : /\ Lists(Q)'
               /\ KeysAlong(Q[nm], elem') = Append(KeysAlong(P[nm], elem), KeyOf(nm, counter))
               /\ \A m \in Names \ {nm} : KeysAlong(Q[m], elem') = KeysAlong(P[m], elem)
  BY <1>1, PutLists, ListAssumption
<1>3. Queues = [m \in Names |-> KeysAlong(P[m], elem)]
  BY <1>1, QueuesListed
<1>4. Queues' = [m \in Names |-> KeysAlong(Q[m], elem')]
  BY <1>2, QueuesListedNext
<1> QED
  BY <1>2, <1>3, <1>4

LEMMA GetImplements ==
  ASSUME ListInv, NEW nm \in Names, GetElem(nm)
  PROVE  /\ Queues[nm] # <<>> /\ buffer' = Head(Queues[nm])
         /\ Queues' = [Queues EXCEPT ![nm] = Tail(@)]
<1>1. PICK P : Lists(P)
  BY DEF ListInv
<1>2. P[nm] # <<>> /\ buffer' = elem[P[nm][1]].data
  BY <1>1, GetLists, ListAssumption
<1>3. PICK Q : /\ Lists(Q)'
               /\ KeysAlong(Q[nm], elem') = Tail(KeysAlong(P[nm], elem))
               /\ \A m \in Names \ {nm} : KeysAlong(Q[m], elem') = KeysAlong(P[m], elem)
  BY <1>1, GetLists, ListAssumption
<1>4. Queues = [m \in Names |-> KeysAlong(P[m], elem)]
  BY <1>1, QueuesListed
<1>5. Queues' = [m \in Names |-> KeysAlong(Q[m], elem')]
  BY <1>3, QueuesListedNext
<1>6. P[nm] \in Seq(Elems) /\ elem \in [Elems -> Elem]
  BY <1>1 DEF Lists, ListInv, ListTypeOK
<1>7. Len(P[nm]) \in Nat /\ 1 \in 1..Len(P[nm])
  BY <1>2, <1>6
<1>8. Queues[nm] # <<>> /\ Queues[nm][1] = elem[P[nm][1]].data
  <2> DEFINE p == P[nm]
  <2>1. KeysAlong(p, elem) \in Seq(Key \cup {NoKey}) /\ Len(KeysAlong(p, elem)) = Len(p)
        /\ \A i \in 1..Len(p) : KeysAlong(p, elem)[i] = elem[p[i]].data
    BY <1>6, KeysAlongType
  <2>2. Queues[nm] = KeysAlong(p, elem)
    BY <1>4
  <2> QED
    BY <1>7, <2>1, <2>2
<1>9. buffer' = Head(Queues[nm])
  BY <1>2, <1>8
<1>10. Queues' = [Queues EXCEPT ![nm] = Tail(@)]
  <2>1. Queues[nm] = KeysAlong(P[nm], elem)
    BY <1>4
  <2>2. [Queues EXCEPT ![nm] = Tail(@)] =
          [m \in Names |-> IF m = nm THEN Tail(Queues[nm]) ELSE Queues[m]]
    BY <1>4, Zenon
  <2>3. \A m \in Names : KeysAlong(Q[m], elem') = IF m = nm THEN Tail(Queues[nm]) ELSE Queues[m]
    BY <1>3, <1>4, <2>1
  <2> QED
    BY <1>5, <2>2, <2>3, Zenon
<1> QED
  BY <1>8, <1>9, <1>10

\* A name has a key in its queue just when its descriptor counts one.
LEMMA EmptyImplements ==
  ASSUME ListInv, NEW nm \in Names
  PROVE  desc[nm].n = 0 <=> Queues[nm] = <<>>
<1>1. PICK P : Lists(P)
  BY DEF ListInv
<1> DEFINE p == P[nm]
<1>2. p \in Seq(Elems) /\ elem \in [Elems -> Elem] /\ desc[nm].n = Len(p)
  BY <1>1 DEF Lists, ListInv, ListTypeOK, Represents
<1>3. Queues[nm] = KeysAlong(p, elem)
  BY <1>1, QueuesListed
<1>4. KeysAlong(p, elem) \in Seq(Key \cup {NoKey}) /\ Len(KeysAlong(p, elem)) = Len(p)
  BY <1>2, KeysAlongType
<1> QED
  BY <1>2, <1>3, <1>4

LEMMA KeepsQueues ==
  ASSUME UNCHANGED <<desc, elem>> PROVE Queues' = Queues
BY DEF Queues, Contents, Chain

\* The instance counts as the module does.
LEMMA SameCardinality ==
  ASSUME NEW S PROVE AbstractKeys!Cardinality(S) = Cardinality(S)
BY Zenon DEF AbstractKeys!Cardinality, Cardinality

\* The pointer program of aky_keys.c implements the table of first-in first-out queues of
\* AkyKeys, for every table size, number of keys and set of addresses: what is proved of
\* that table (AkyKeysProofs) holds of the linked lists.
THEOREM ListImplementsKeys == ListSpec => ImplementsAkyKeys
<1>1. ListInit => AbstractKeys!KeysInit
  <2> SUFFICES ASSUME ListInit PROVE AbstractKeys!KeysInit
    OBVIOUS
  <2>1. \A nm \in Names : Contents(nm) = <<>>
    BY DEF ListInit, EmptyDesc, Contents
  <2> QED
    BY <2>1 DEF ListInit, AbstractKeys!KeysInit, AbstractKeys!Names, Names, AbstractKeys!NoKey, NoKey
<1>2. ListInv /\ [ListNext]_listVars => [AbstractKeys!KeysNext]_AbstractKeys!keyVars
  <2> SUFFICES ASSUME ListInv, [ListNext]_listVars
               PROVE  AbstractKeys!KeysNext \/ UNCHANGED AbstractKeys!keyVars
    OBVIOUS
  <2>1. ASSUME NEW nm \in Names, PutElem(nm) PROVE AbstractKeys!PutKey(nm)
    <3>1. Queues' = [Queues EXCEPT ![nm] = Append(@, KeyOf(nm, counter))]
      BY <2>1, PutImplements
    <3> QED
      BY <2>1, <3>1, SameCardinality
      DEF AbstractKeys!PutKey, PutElem, Queues, AbstractKeys!KeyOf, KeyOf
  <2>2. ASSUME NEW nm \in Names, PutRefused(nm) PROVE AbstractKeys!PutRefused(nm)
    <3>1. Queues' = Queues
      BY <2>2, KeepsQueues DEF PutRefused
    <3> QED
      BY <2>2, <3>1, SameCardinality
      DEF AbstractKeys!PutRefused, PutRefused, Queues, AbstractKeys!NoKey, NoKey
  <2>3. ASSUME NEW nm \in Names, GetElem(nm) PROVE AbstractKeys!GetKey(nm)
    <3>1. /\ Queues[nm] # <<>> /\ buffer' = Head(Queues[nm])
          /\ Queues' = [Queues EXCEPT ![nm] = Tail(@)]
      BY <2>3, GetImplements
    <3> QED
      BY <2>3, <3>1 DEF AbstractKeys!GetKey, GetElem, Queues
  <2>4. ASSUME NEW nm \in Names, GetMissing(nm) PROVE AbstractKeys!GetMissing(nm)
    <3>1. Queues' = Queues
      BY <2>4, KeepsQueues DEF GetMissing
    <3>2. nm \notin entered \/ Queues[nm] = <<>>
      BY <2>4, EmptyImplements DEF GetMissing
    <3> QED
      BY <2>4, <3>1, <3>2 DEF AbstractKeys!GetMissing, GetMissing, Queues, AbstractKeys!NoKey, NoKey
  <2>5. CASE UNCHANGED listVars
    <3>1. Queues' = Queues
      BY <2>5, KeepsQueues DEF listVars
    <3> QED
      BY <2>5, <3>1 DEF AbstractKeys!keyVars, Queues, listVars
  <2> QED
    BY <2>1, <2>2, <2>3, <2>4, <2>5
    DEF ListNext, AbstractKeys!KeysNext, AbstractKeys!AkyPutKey, AbstractKeys!AkyGetKey,
        AbstractKeys!Names, Names
<1> QED
  BY <1>1, <1>2, ListInvariant, PTL DEF ListSpec, ImplementsAkyKeys, AbstractKeys!KeysSpec
===============================================================================
