----------------------------- MODULE DawgProofs -----------------------------
(* Why, whatever the keys, the automaton of a dictionary is minimal and      *)
(* acyclic and holds the words of the keys.  Lemmas for DoubleArrayProofs    *)
(* say when insert finds two keys out of order, and what each operation on   *)
(* the array does.                                                           *)
EXTENDS DoubleArray, FiniteSetTheorems, SequenceTheorems, WellFoundedInduction, TLAPS

-----------------------------------------------------------------------------
(* Induction, as a statement about sets: what holds at 0 and is handed on    *)
(* holds up to N.                                                            *)

LEMMA UpTo ==
    ASSUME NEW N \in Nat, NEW T, 0 \in T, \A m \in 0 .. N - 1 : m \in T => m + 1 \in T
    PROVE  \A m \in 0 .. N : m \in T
  <1> DEFINE Missing == {m \in 0 .. N : m \notin T}
  <1> SUFFICES ASSUME Missing # {} PROVE FALSE
    OBVIOUS
  <1>1. PICK least \in Missing : \A m \in Missing : ~ (<<m, least>> \in OpToRel(<, Nat))
    <2>1. Missing \subseteq Nat
      OBVIOUS
    <2> QED
      BY <2>1, NatLessThanWellFounded, WFMin
  <1>2. least \in Nat /\ least # 0 /\ least - 1 \in 0 .. N - 1
    OBVIOUS
  <1>3. least - 1 \in Missing
    BY <1>2
  <1>4. <<least - 1, least>> \in OpToRel(<, Nat)
    BY <1>2 DEF OpToRel
  <1> QED
    BY <1>1, <1>3, <1>4

\* The first of the numbers up to N a set holds.
LEMMA FirstOf ==
    ASSUME NEW N \in Nat, NEW T, T \subseteq 0 .. N, T # {}
    PROVE  \E least \in T : \A m \in T : least <= m
  <1>1. PICK least \in T : \A m \in T : ~ (<<m, least>> \in OpToRel(<, Nat))
    <2>1. T \subseteq Nat
      OBVIOUS
    <2> QED
      BY <2>1, NatLessThanWellFounded, WFMin
  <1>2. \A m \in T : m \in Nat
    OBVIOUS
  <1>3. \A m \in T : ~ (m < least)
    BY <1>1, <1>2 DEF OpToRel
  <1> QED
    BY <1>2, <1>3

-----------------------------------------------------------------------------
(* The hash table: a table holds the first n of some states when the search  *)
(* for each of them meets it before an empty slot.                           *)

HashedIn(slots, states, held) ==
    /\ slots \in Seq(Nat)
    /\ \A j \in 1 .. Len(slots) : slots[j] \in 0 .. held
    /\ \A i, j \in 1 .. Len(slots) : slots[i] = slots[j] /\ slots[i] # 0 => i = j
    /\ \A s \in 1 .. held : \E k \in 0 .. Len(slots) - 1 :
          /\ slots[Probe(states[s], k, Len(slots))] = s
          /\ \A m \in 0 .. k - 1 : slots[Probe(states[s], m, Len(slots))] # 0

\* The search for x finds its first empty slot after k others.
FreeAfter(slots, x, k) ==
    /\ k \in 0 .. Len(slots) - 1
    /\ slots[Probe(x, k, Len(slots))] = 0
    /\ \A m \in 0 .. k - 1 : slots[Probe(x, m, Len(slots))] # 0

LEMMA Remainder == ASSUME NEW h \in Nat, NEW held \in Nat \ {0} PROVE h % held \in 0 .. held - 1
  OBVIOUS

LEMMA HomeIn == ASSUME NEW x, NEW size \in Nat \ {0} PROVE Home(x, size) \in 0 .. size - 1
  <1>1. CASE HashOf(x) \in Nat
    BY <1>1, Remainder DEF Home
  <1>2. CASE HashOf(x) \notin Nat
    BY <1>2 DEF Home
  <1> QED
    BY <1>1, <1>2

LEMMA ProbeIn ==
    ASSUME NEW x, NEW size \in Nat \ {0}
    PROVE  /\ \A k \in 0 .. size - 1 : Probe(x, k, size) \in 1 .. size
           /\ \A j \in 1 .. size : \E k \in 0 .. size - 1 : Probe(x, k, size) = j
  <1>1. Home(x, size) \in 0 .. size - 1
    BY HomeIn
  <1>2. ASSUME NEW k \in 0 .. size - 1 PROVE Probe(x, k, size) \in 1 .. size
    BY <1>1 DEF Probe
  <1>3. ASSUME NEW j \in 1 .. size PROVE \E k \in 0 .. size - 1 : Probe(x, k, size) = j
    <2> DEFINE k == IF j - 1 >= Home(x, size) THEN j - 1 - Home(x, size)
                    ELSE j - 1 - Home(x, size) + size
    <2>1. k \in 0 .. size - 1
      BY <1>1
    <2>2. Probe(x, k, size) = j
      BY <1>1 DEF Probe
    <2> QED
      BY <2>1, <2>2
  <1> QED
    BY <1>2, <1>3

LEMMA CountTo == ASSUME NEW held \in Nat PROVE IsFiniteSet(1 .. held) /\ Cardinality(1 .. held) = held
  <1>1. 1 \in Int /\ held \in Int
    OBVIOUS
  <1>2. IsFiniteSet(1 .. held) /\ Cardinality(1 .. held) = IF 1 > held THEN 0 ELSE held - 1 + 1
    BY <1>1, FS_Interval
  <1> QED
    BY <1>2

\* A table with more slots than states has an empty one.
LEMMA SomeFree ==
    ASSUME NEW slots, NEW states, NEW held \in Nat, HashedIn(slots, states, held), held < Len(slots)
    PROVE  \E j \in 1 .. Len(slots) : slots[j] = 0
  <1> SUFFICES ASSUME \A j \in 1 .. Len(slots) : slots[j] # 0 PROVE FALSE
    OBVIOUS
  <1> DEFINE S == 1 .. Len(slots)
             f == [j \in S |-> slots[j]]
  <1>1. Len(slots) \in Nat
    BY DEF HashedIn
  <1>2. \A j \in S : slots[j] \in 1 .. held
    BY DEF HashedIn
  <1>3. f \in [S -> 1 .. held]
    BY <1>2
  <1>4. IsFiniteSet(S) /\ Cardinality(S) = Len(slots)
    <2> DEFINE size == Len(slots)
    <2>1. size \in Nat
      BY <1>1
    <2> HIDE DEF size
    <2>2. IsFiniteSet(1 .. size) /\ Cardinality(1 .. size) = size
      BY <2>1, CountTo
    <2> QED
      BY <2>2 DEF size
  <1>5. IsFiniteSet(1 .. held) /\ Cardinality(1 .. held) = held
    BY CountTo
  <1>6. Cardinality(1 .. held) < Cardinality(S)
    BY <1>4, <1>5
  <1> HIDE DEF f
  <1>7. \E i, j \in S : i # j /\ f[i] = f[j]
    BY <1>3, <1>4, <1>5, <1>6, FS_PigeonHole
  <1> QED
    BY <1>7 DEF f, HashedIn

LEMMA FindUnitIs ==
    ASSUME NEW slots, NEW states, NEW held \in Nat, HashedIn(slots, states, held), held < Len(slots),
           NEW x
    PROVE  \E k : FreeAfter(slots, x, k) /\ FindUnit(slots, x) = Probe(x, k, Len(slots))
  <1> DEFINE size == Len(slots)
             Free == {k \in 0 .. size - 1 : slots[Probe(x, k, size)] = 0}
             First(k) == /\ slots[Probe(x, k, size)] = 0
                         /\ \A m \in 0 .. k - 1 : slots[Probe(x, m, size)] # 0
  <1>1. size \in Nat \ {0}
    BY DEF HashedIn
  <1>2. Free # {}
    <2>1. PICK j \in 1 .. size : slots[j] = 0
      BY SomeFree
    <2> HIDE DEF size
    <2>2. PICK k \in 0 .. size - 1 : Probe(x, k, size) = j
      BY <1>1, ProbeIn
    <2> QED
      BY <2>1, <2>2
  <1>3. \E k \in 0 .. size - 1 : First(k)
    <2>1. size - 1 \in Nat /\ Free \subseteq 0 .. size - 1
      BY <1>1
    <2> HIDE DEF size
    <2>2. PICK least \in Free : \A m \in Free : least <= m
      <3> HIDE DEF Free
      <3> QED
        BY <1>2, <2>1, FirstOf
    <2> QED
      BY <1>1, <2>2
  <1> DEFINE k == CHOOSE k \in 0 .. size - 1 : First(k)
  <1>4. k \in 0 .. size - 1 /\ First(k)
    <2> HIDE DEF First, size
    <2> QED
      BY <1>3
  <1>5. FindUnit(slots, x) = Probe(x, k, size)
    BY DEF FindUnit
  <1> QED
    BY <1>4, <1>5 DEF FreeAfter

\* One state more than the first n, and a table it was put into.
WithOne(more, states, held, x) == more[held + 1] = x /\ \A s \in 1 .. held : more[s] = states[s]
PutAfter(put, slots, x, k, held) == put = [slots EXCEPT ![Probe(x, k, Len(slots))] = held + 1]

\* A state put where its search ends is held with the others.
LEMMA PutHolds ==
    ASSUME NEW slots, NEW states, NEW held \in Nat, HashedIn(slots, states, held), held < Len(slots),
           NEW x, NEW k, FreeAfter(slots, x, k),
           NEW more, WithOne(more, states, held, x), NEW put, PutAfter(put, slots, x, k, held)
    PROVE  HashedIn(put, more, held + 1) /\ Len(put) = Len(slots)
  <1> DEFINE size == Len(slots)
             slot == Probe(x, k, size)
  <1>1. size \in Nat \ {0} /\ k \in 0 .. size - 1 /\ slots \in Seq(Nat)
    BY DEF HashedIn, FreeAfter
  <1>2. \A y : \A m \in 0 .. size - 1 : Probe(y, m, size) \in 1 .. size
    BY <1>1, ProbeIn
  <1>3. slot \in 1 .. size
    BY <1>1, <1>2
  <1>4. put \in Seq(Nat) /\ Len(put) = size
        /\ \A j \in 1 .. size : put[j] = IF j = slot THEN held + 1 ELSE slots[j]
    <2>1. held + 1 \in Nat /\ put = [slots EXCEPT ![slot] = held + 1]
      BY DEF PutAfter
    <2> HIDE DEF slot
    <2> QED
      BY <1>1, <1>3, <2>1, ExceptSeq
  <1>5. slots[slot] = 0
    BY DEF FreeAfter
  <1> HIDE DEF slot
  <1>6. \A j \in 1 .. size : put[j] \in 0 .. held + 1
    <2>1. \A j \in 1 .. size : slots[j] \in 0 .. held
      BY DEF HashedIn
    <2> HIDE DEF size
    <2> QED
      BY <1>4, <2>1
  <1>7. \A i, j \in 1 .. size : put[i] = put[j] /\ put[i] # 0 => i = j
    <2>1. \A j \in 1 .. size : slots[j] # held + 1 /\ slots[j] \in 0 .. held
      BY DEF HashedIn
    <2> QED
      BY <1>1, <1>3, <1>4, <2>1 DEF HashedIn
  <1>8. ASSUME NEW s \in 1 .. held + 1
        PROVE  \E m \in 0 .. size - 1 : /\ put[Probe(more[s], m, size)] = s
                                        /\ \A h \in 0 .. m - 1 : put[Probe(more[s], h, size)] # 0
    <2>1. CASE s = held + 1
      <3>1. put[Probe(x, k, size)] = held + 1
        BY <1>3, <1>4 DEF slot
      <3>2. ASSUME NEW h \in 0 .. k - 1 PROVE put[Probe(x, h, size)] # 0
        <4>1. h \in 0 .. size - 1 /\ Probe(x, h, size) \in 1 .. size
          BY <1>1, <1>2
        <4>2. slots[Probe(x, h, size)] # 0
          BY DEF FreeAfter
        <4> QED
          BY <1>4, <4>1, <4>2
      <3>3. more[s] = x
        BY <2>1 DEF WithOne
      <3> QED
        BY <1>1, <2>1, <3>1, <3>2, <3>3
    <2>2. CASE s \in 1 .. held
      <3> DEFINE y == states[s]
      <3>1. more[s] = y
        BY <2>2 DEF WithOne
      <3>2. PICK m \in 0 .. size - 1 :
               /\ slots[Probe(y, m, size)] = s
               /\ \A h \in 0 .. m - 1 : slots[Probe(y, h, size)] # 0
        BY <2>2 DEF HashedIn
      <3> HIDE DEF y
      <3>3. put[Probe(y, m, size)] = s
        <4>1. Probe(y, m, size) \in 1 .. size
          BY <1>2
        <4> QED
          BY <1>4, <1>5, <2>2, <3>2, <4>1
      <3>4. ASSUME NEW h \in 0 .. m - 1 PROVE put[Probe(y, h, size)] # 0
        <4>1. h \in 0 .. size - 1 /\ Probe(y, h, size) \in 1 .. size
          BY <1>1, <1>2
        <4>2. slots[Probe(y, h, size)] # 0
          BY <3>2
        <4>3. held + 1 # 0
          OBVIOUS
        <4> HIDE DEF size
        <4> QED
          BY <1>4, <4>1, <4>2, <4>3
      <3> QED
        BY <3>1, <3>3, <3>4
    <2> QED
      BY <2>1, <2>2
  <1>9. Len(put) = Len(slots) /\ put \in Seq(Nat)
    BY <1>4
  <1> HIDE DEF size
  <1>10. \A j \in 1 .. Len(put) : put[j] \in 0 .. held + 1
    BY <1>4, <1>6
  <1>11. \A i, j \in 1 .. Len(put) : put[i] = put[j] /\ put[i] # 0 => i = j
    BY <1>4, <1>7
  <1>12. \A s \in 1 .. held + 1 : \E m \in 0 .. Len(put) - 1 :
            /\ put[Probe(more[s], m, Len(put))] = s
            /\ \A h \in 0 .. m - 1 : put[Probe(more[s], h, Len(put))] # 0
    BY <1>4, <1>8
  <1> QED
    BY <1>9, <1>10, <1>11, <1>12 DEF HashedIn

\* The function that fills a table with up to N states; there is one.
Fills(f, states, N, empty) ==
    f = [s \in 0 .. N |-> IF s = 0 THEN empty ELSE PutUnit(f[s - 1], states[s], s)]

LEMMA FilledExists == ASSUME NEW states, NEW N \in Nat, NEW empty PROVE \E f : Fills(f, states, N, empty)
  <1> DEFINE T == {M \in Nat : \E f : Fills(f, states, M, empty)}
  <1>1. 0 \in T
    <2> DEFINE f == [s \in 0 .. 0 |-> empty]
    <2>1. Fills(f, states, 0, empty)
      BY DEF Fills
    <2> QED
      BY <2>1
  <1>2. ASSUME NEW M \in 0 .. N - 1, M \in T PROVE M + 1 \in T
    <2>1. PICK f : Fills(f, states, M, empty)
      BY <1>2
    <2> DEFINE g == [s \in 0 .. M + 1 |-> IF s = 0 THEN empty ELSE PutUnit(f[s - 1], states[s], s)]
    <2>2. \A s \in 0 .. M : f[s] = g[s]
      BY <2>1 DEF Fills
    <2>3. \A s \in 0 .. M + 1 : s # 0 => s - 1 \in 0 .. M
      OBVIOUS
    <2>4. \A s \in 0 .. M + 1 : g[s] = IF s = 0 THEN empty ELSE PutUnit(g[s - 1], states[s], s)
      BY <2>2, <2>3
    <2>5. g = [s \in 0 .. M + 1 |-> g[s]]
      OBVIOUS
    <2>6. M + 1 \in Nat
      OBVIOUS
    <2> HIDE DEF g
    <2>7. Fills(g, states, M + 1, empty)
      BY <2>4, <2>5 DEF Fills
    <2> QED
      BY <2>6, <2>7
  <1> HIDE DEF T
  <1>3. \A M \in 0 .. N : M \in T
    BY <1>1, <1>2, UpTo
  <1>4. N \in T
    BY <1>3
  <1> QED
    BY <1>4 DEF T

Unlike(d) == \A s, t \in 1 .. Len(d.states) : d.states[s] = d.states[t] => s = t

\* What the table of an automaton is worth: it holds every closed state, it is
\* never full, and no two closed states are alike.
Hashed(d) ==
    /\ HashedIn(d.table, d.states, Len(d.states))
    /\ Len(d.states) < Len(d.table)
    /\ Unlike(d)

\* expand_table puts every state in again.
LEMMA ExpandHolds ==
    ASSUME NEW d, Len(d.states) \in Nat, Hashed(d)
    PROVE  /\ HashedIn(ExpandTable(d), d.states, Len(d.states))
           /\ Len(ExpandTable(d)) = 2 * Len(d.table)
  <1> DEFINE N == Len(d.states)
             size == 2 * Len(d.table)
             empty == [slot \in 1 .. size |-> 0]
             filled == CHOOSE filled : filled = [s \in 0 .. N |->
                          IF s = 0 THEN empty ELSE PutUnit(filled[s - 1], d.states[s], s)]
             T == {s \in 0 .. N : HashedIn(filled[s], d.states, s) /\ Len(filled[s]) = size}
  <1>1. N \in Nat /\ size \in Nat /\ N < size
    BY DEF Hashed, HashedIn
  <1>2. ExpandTable(d) = filled[N]
    BY DEF ExpandTable
  <1>3. filled = [s \in 0 .. N |-> IF s = 0 THEN empty ELSE PutUnit(filled[s - 1], d.states[s], s)]
    <2> DEFINE states == d.states
    <2> HIDE DEF empty, N, states
    <2>1. \E f : Fills(f, states, N, empty)
      BY <1>1, FilledExists
    <2> QED
      BY <2>1 DEF Fills, states
  <1> HIDE DEF filled, size, N
  <1>4. empty \in Seq(Nat) /\ Len(empty) = size /\ \A j \in 1 .. size : empty[j] = 0
    BY <1>1
  <1> HIDE DEF empty
  <1>5. 0 \in T
    BY <1>1, <1>3, <1>4 DEF HashedIn
  <1>6. ASSUME NEW s \in 0 .. N - 1, s \in T PROVE s + 1 \in T
    <2> DEFINE now == filled[s]
               x == d.states[s + 1]
    <2>1. filled[s + 1] = PutUnit(now, x, s + 1)
      BY <1>1, <1>3
    <2>2. HashedIn(now, d.states, s) /\ Len(now) = size /\ s \in Nat /\ s < size
      BY <1>1, <1>6
    <2> HIDE DEF now
    <2>3. PICK k : FreeAfter(now, x, k) /\ FindUnit(now, x) = Probe(x, k, size)
      <3> HIDE DEF x
      <3> QED
        BY <2>2, FindUnitIs
    <2>4. filled[s + 1] = [now EXCEPT ![Probe(x, k, size)] = s + 1]
      BY <2>1, <2>3 DEF PutUnit
    <2>5. HashedIn(filled[s + 1], d.states, s + 1) /\ Len(filled[s + 1]) = size
      <3> DEFINE more == d.states
                 put == filled[s + 1]
      <3>1. WithOne(more, more, s, x) /\ PutAfter(put, now, x, k, s)
        BY <2>2, <2>4 DEF WithOne, PutAfter
      <3>2. HashedIn(now, more, s) /\ s \in Nat /\ s < Len(now) /\ FreeAfter(now, x, k)
        BY <2>2, <2>3
      <3> HIDE DEF more, put, x
      <3>3. HashedIn(put, more, s + 1) /\ Len(put) = Len(now)
        BY <3>1, <3>2, PutHolds
      <3> QED
        BY <2>2, <3>3 DEF more, put
    <2> QED
      BY <1>1, <2>5
  <1> HIDE DEF T
  <1>7. \A s \in 0 .. N : s \in T
    BY <1>1, <1>5, <1>6, UpTo
  <1> QED
    <2>1. N \in T
      BY <1>1, <1>7
    <2>2. HashedIn(filled[N], d.states, N) /\ Len(filled[N]) = size
      BY <2>1 DEF T
    <2> QED
      BY <1>2, <2>2 DEF N, size

LEMMA Room == ASSUME NEW t \in Nat, NEW held \in Nat, ~ (held + 1 >= t - t \div 4) PROVE held + 1 < t
  <1>1. t \div 4 \in Nat
    OBVIOUS
  <1> DEFINE q == t \div 4
  <1>2. q \in Nat /\ ~ (held + 1 >= t - q)
    BY <1>1
  <1> HIDE DEF q
  <1> QED
    BY <1>2

LEMMA TableForHolds ==
    ASSUME NEW d, Len(d.states) \in Nat, Hashed(d)
    PROVE  /\ HashedIn(TableFor(d), d.states, Len(d.states))
           /\ Len(d.states) + 1 < Len(TableFor(d))
  <1>1. Len(d.table) \in Nat
    BY DEF Hashed, HashedIn
  <1>2. CASE Len(d.states) + 1 >= Len(d.table) - Len(d.table) \div 4
    <2>1. TableFor(d) = ExpandTable(d)
      BY <1>2 DEF TableFor
    <2>2. Len(d.states) + 1 < 2 * Len(d.table)
      BY <1>1 DEF Hashed
    <2>3. /\ HashedIn(ExpandTable(d), d.states, Len(d.states))
          /\ Len(ExpandTable(d)) = 2 * Len(d.table)
      BY ExpandHolds
    <2> QED
      BY <2>1, <2>2, <2>3
  <1>3. CASE ~ (Len(d.states) + 1 >= Len(d.table) - Len(d.table) \div 4)
    <2>1. TableFor(d) = d.table
      BY <1>3 DEF TableFor
    <2> DEFINE t == Len(d.table)
               held == Len(d.states)
    <2>2. t \in Nat /\ held \in Nat /\ ~ (held + 1 >= t - t \div 4)
      BY <1>1, <1>3
    <2>3. held + 1 < t
      <3> HIDE DEF t, held
      <3> QED
        BY <2>2, Room
    <2>4. Len(d.states) + 1 < Len(d.table)
      BY <2>3
    <2> QED
      BY <2>1, <2>4 DEF Hashed
  <1> QED
    BY <1>2, <1>3

-----------------------------------------------------------------------------
(* The automaton while keys are inserted. *)

Arc == [label : 0 .. MaxLabel, to : Int]
Automata == [levels : Seq(Seq(Arc)), states : Seq(Seq(Arc)), crossed : SUBSET Nat,
             table : Seq(Nat)]

\* The path of open states is never empty, nor is a state on it, and the table
\* finds the closed ones.
Shaped(d) ==
    /\ d \in Automata
    /\ Len(d.levels) >= 1
    /\ \A l \in 1 .. Len(d.levels) : Len(d.levels[l]) >= 1
    /\ Hashed(d)

\* Where an arc of a state may lead: a closed one to a state closed before it.
ArcsBack(d) ==
    \A s \in 1 .. Len(d.states) : \A m \in 1 .. Len(d.states[s]) :
        d.states[s][m].label # 0 => d.states[s][m].to \in 1 .. s - 1

\* An open arc leads to a closed state, but along the path of the last key, where
\* what it leads to is open too.
ArcsDown(d) ==
    \A l \in 1 .. Len(d.levels) : \A m \in 1 .. Len(d.levels[l]) :
        d.levels[l][m].label # 0 =>
            /\ d.levels[l][m].to \in 0 .. Len(d.states)
            /\ d.levels[l][m].to = 0 => m = Len(d.levels[l]) /\ (l < Len(d.levels) \/ l = 1)

\* A state two arcs lead to is marked, be the arcs closed or open.
ClosedCross(d) ==
    \A s, t \in 1 .. Len(d.states) :
        \A m \in 1 .. Len(d.states[s]), k \in 1 .. Len(d.states[t]) :
            /\ d.states[s][m].label # 0 /\ d.states[t][k].label # 0
            /\ d.states[s][m].to = d.states[t][k].to
            /\ s # t \/ m # k
            => d.states[s][m].to \in d.crossed

MixedCross(d) ==
    \A s \in 1 .. Len(d.states), l \in 1 .. Len(d.levels) :
        \A m \in 1 .. Len(d.states[s]), k \in 1 .. Len(d.levels[l]) :
            /\ d.states[s][m].label # 0 /\ d.levels[l][k].label # 0
            /\ d.states[s][m].to = d.levels[l][k].to
            => d.states[s][m].to \in d.crossed

OpenCross(d) ==
    \A l, h \in 1 .. Len(d.levels) :
        \A m \in 1 .. Len(d.levels[l]), k \in 1 .. Len(d.levels[h]) :
            /\ d.levels[l][m].label # 0 /\ d.levels[h][k].label # 0
            /\ d.levels[l][m].to = d.levels[h][k].to
            /\ d.levels[l][m].to # 0
            /\ l # h \/ m # k
            => d.levels[l][m].to \in d.crossed

DawgInv(d) ==
    /\ Shaped(d)
    /\ ArcsBack(d) /\ ArcsDown(d) /\ Unlike(d)
    /\ ClosedCross(d) /\ MixedCross(d) /\ OpenCross(d)

LEMMA DawgInvMinimal == ASSUME NEW d, DawgInv(d) PROVE Minimal(d)
  <1> DEFINE To(a) == d.states[a[1]][a[2]].to
  <1>1. \A a \in Arcs(d) : /\ a[1] \in 1 .. Len(d.states) /\ a[2] \in 1 .. Len(d.states[a[1]])
                           /\ d.states[a[1]][a[2]].label # 0 /\ a = <<a[1], a[2]>>
    <2> SUFFICES ASSUME NEW a \in Arcs(d)
                 PROVE  /\ a[1] \in 1 .. Len(d.states) /\ a[2] \in 1 .. Len(d.states[a[1]])
                        /\ d.states[a[1]][a[2]].label # 0 /\ a = <<a[1], a[2]>>
      OBVIOUS
    <2>1. a \in (1 .. Len(d.states)) \X (1 .. MaxLabel + 1)
      BY DEF Arcs
    <2>2. PICK s \in 1 .. Len(d.states), m \in 1 .. MaxLabel + 1 :
              a = <<s, m>> /\ m <= Len(d.states[s]) /\ d.states[s][m].label # 0
      BY DEF Arcs
    <2>3. d.states[s] \in Seq(Arc)
      BY DEF DawgInv, Shaped, Automata
    <2> QED
      BY <2>2, <2>3
  <1>2. \A a \in Arcs(d) : To(a) \in 1 .. a[1] - 1
    BY <1>1 DEF DawgInv, ArcsBack
  <1>3. ASSUME NEW a \in Arcs(d), NEW b \in Arcs(d), a # b, To(a) = To(b) PROVE To(a) \in d.crossed
    <2>1. a[1] # b[1] \/ a[2] # b[2]
      BY <1>1, <1>3
    <2> QED
      BY <1>1, <1>3, <2>1 DEF DawgInv, ClosedCross
  <1> QED
    BY <1>2, <1>3 DEF Minimal, DawgInv, Unlike


LEMMA InitDawgInv == DawgInv(InitDawg)
  <1> DEFINE d == InitDawg
  <1>1. /\ d.levels = << <<[label |-> MaxLabel, to |-> 0]>> >>
        /\ d.states = <<>> /\ d.crossed = {}
    BY DEF InitDawg
  <1>12. /\ d.table = [slot \in 1 .. TableSize |-> 0] /\ d.table \in Seq(Nat)
         /\ Len(d.table) = TableSize
    BY TableSizeAssumption DEF InitDawg
  <1>2. d \in Automata
    <2>1. [label |-> MaxLabel, to |-> 0] \in Arc
      BY MaxLabelAssumption DEF Arc
    <2>2. d.levels \in Seq(Seq(Arc)) /\ d.states \in Seq(Seq(Arc)) /\ d.crossed \in SUBSET Nat
      BY <1>1, <2>1
    <2>3. d = [levels |-> d.levels, states |-> d.states, crossed |-> d.crossed, table |-> d.table]
      BY DEF InitDawg
    <2> HIDE DEF d
    <2> QED
      BY <1>12, <2>2, <2>3 DEF Automata
  <1>3. Len(d.levels) = 1 /\ Len(d.levels[1]) = 1 /\ Len(d.states) = 0
    BY <1>1
  <1> HIDE DEF d
  <1>4. \A l \in 1 .. Len(d.levels) : l = 1
    BY <1>3
  <1>7. \A m \in 1 .. Len(d.levels[1]) : m = 1
    BY <1>3
  <1>5. d.levels[1][1].to = 0
    BY <1>1
  <1>13. Hashed(d)
    BY <1>3, <1>12, TableSizeAssumption DEF Hashed, HashedIn, Unlike
  <1>8. Shaped(d)
    BY <1>2, <1>3, <1>4, <1>13 DEF Shaped
  <1>9. ArcsBack(d) /\ Unlike(d) /\ ClosedCross(d) /\ MixedCross(d)
    BY <1>3 DEF ArcsBack, Unlike, ClosedCross, MixedCross
  <1>10. ArcsDown(d)
    <2> SUFFICES ASSUME NEW l \in 1 .. Len(d.levels), NEW m \in 1 .. Len(d.levels[l])
                 PROVE  /\ d.levels[l][m].to \in 0 .. Len(d.states)
                        /\ d.levels[l][m].to = 0 => m = Len(d.levels[l]) /\ l = 1
      BY DEF ArcsDown
    <2>1. l = 1
      BY <1>4
    <2>2. m = 1 /\ Len(d.levels[l]) = 1
      BY <1>3, <1>7, <2>1
    <2> QED
      BY <1>3, <1>5, <2>1, <2>2
  <1>11. OpenCross(d)
    BY <1>4, <1>7 DEF OpenCross
  <1>6. DawgInv(d)
    BY <1>8, <1>9, <1>10, <1>11 DEF DawgInv
  <1> QED
    BY <1>6 DEF d

-----------------------------------------------------------------------------
(* Closing the last open state. *)

Equal(d) == {s \in 1 .. Len(d.states) : d.states[s] = Last(d.levels)}
Id(d) == IF Equal(d) = {} THEN Len(d.states) + 1 ELSE CHOOSE s \in Equal(d) : TRUE

Unalike(states, held) == \A s, t \in 1 .. held : states[s] = states[t] => s = t

\* The search ends at the state that is like the last open one, or at the slot for it.
LEMMA FindNodeIs ==
    ASSUME NEW slots, NEW states, NEW held \in Nat, HashedIn(slots, states, held), held < Len(slots),
           Unalike(states, held), NEW x,
           NEW slot, slot = FindNode(slots, states, x)
    PROVE  /\ \A s \in 1 .. held : states[s] = x => slots[slot] = s
           /\ slots[slot] # 0 => slots[slot] \in 1 .. held /\ states[slots[slot]] = x
           /\ slots[slot] = 0 => \E k : FreeAfter(slots, x, k) /\ slot = Probe(x, k, Len(slots))
  <1> DEFINE size == Len(slots)
             Stop(k) == \/ slots[Probe(x, k, size)] = 0
                        \/ states[slots[Probe(x, k, size)]] = x
             Stops == {k \in 0 .. size - 1 : Stop(k)}
             First(k) == Stop(k) /\ \A m \in 0 .. k - 1 : ~Stop(m)
  <1>1. size \in Nat \ {0}
    BY DEF HashedIn
  <1>2. \A m \in 0 .. size - 1 : Probe(x, m, size) \in 1 .. size
    BY <1>1, ProbeIn
  <1>3. Stops # {}
    <2>1. PICK j \in 1 .. size : slots[j] = 0
      BY SomeFree
    <2> HIDE DEF size
    <2>2. PICK k \in 0 .. size - 1 : Probe(x, k, size) = j
      BY <1>1, ProbeIn
    <2> QED
      BY <2>1, <2>2
  <1>4. \E k \in 0 .. size - 1 : First(k)
    <2>1. size - 1 \in Nat /\ Stops \subseteq 0 .. size - 1
      BY <1>1
    <2>2. PICK least \in Stops : \A m \in Stops : least <= m
      <3> HIDE DEF Stops, size
      <3> QED
        BY <1>3, <2>1, FirstOf
    <2>3. \A m \in 0 .. least - 1 : m \in 0 .. size - 1 /\ m \notin Stops
      BY <1>1, <2>2
    <2>4. least \in 0 .. size - 1 /\ Stop(least)
      BY <2>2
    <2>5. \A m \in 0 .. least - 1 : ~Stop(m)
      <3> HIDE DEF Stop, size
      <3> QED
        BY <2>3
    <2> HIDE DEF Stop, size, Stops
    <2> QED
      BY <2>4, <2>5
  <1> DEFINE k == CHOOSE k \in 0 .. size - 1 : First(k)
  <1>5. k \in 0 .. size - 1 /\ First(k)
    <2> HIDE DEF First, size
    <2> QED
      BY <1>4
  <1>6. slot = Probe(x, k, size)
    BY DEF FindNode
  <1> HIDE DEF k
  <1>7. slot \in 1 .. size /\ slots[slot] \in 0 .. held
    BY <1>2, <1>5, <1>6 DEF HashedIn
  <1>8. slots[slot] # 0 => slots[slot] \in 1 .. held /\ states[slots[slot]] = x
    BY <1>5, <1>6, <1>7
  <1>9. ASSUME NEW s \in 1 .. held, states[s] = x PROVE slots[slot] = s
    <2>1. PICK m \in 0 .. size - 1 :
              /\ slots[Probe(x, m, size)] = s
              /\ \A h \in 0 .. m - 1 : slots[Probe(x, h, size)] # 0
      BY <1>9 DEF HashedIn
    <2>2. Stop(m)
      BY <1>9, <2>1
    <2>3. k <= m
      <3> HIDE DEF Stop
      <3> QED
        BY <1>1, <1>5, <2>1, <2>2
    <2>4. slots[slot] # 0
      <3>1. CASE k = m
        BY <1>6, <2>1, <3>1
      <3>2. CASE k < m
        BY <1>1, <1>5, <1>6, <2>1, <3>2
      <3> QED
        BY <1>1, <1>5, <2>1, <2>3, <3>1, <3>2
    <2> QED
      BY <1>8, <1>9, <2>4 DEF Unalike
  <1>10. slots[slot] = 0 => FreeAfter(slots, x, k)
    BY <1>5, <1>6 DEF FreeAfter
  <1> QED
    BY <1>6, <1>8, <1>9, <1>10

LEMMA CloseParts ==
    ASSUME NEW d, Shaped(d)
    PROVE  LET upper == Len(d.levels) - 1
           IN  /\ Close(d).levels =
                     [Front(d.levels) EXCEPT ![upper][Len(d.levels[upper])].to = Id(d)]
               /\ Close(d).states =
                     IF Equal(d) = {} THEN Append(d.states, Last(d.levels)) ELSE d.states
               /\ Close(d).crossed = IF Equal(d) = {} THEN d.crossed ELSE d.crossed \cup {Id(d)}
  <1> DEFINE x == Last(d.levels)
             held == Len(d.states)
             slots == TableFor(d)
             slot == FindNode(slots, d.states, x)
             id == IF slots[slot] = 0 THEN held + 1 ELSE slots[slot]
             upper == Len(d.levels) - 1
  <1>1. /\ Close(d).levels = [Front(d.levels) EXCEPT ![upper][Len(d.levels[upper])].to = id]
        /\ Close(d).states = IF slots[slot] = 0 THEN Append(d.states, x) ELSE d.states
        /\ Close(d).crossed = IF slots[slot] = 0 THEN d.crossed ELSE d.crossed \cup {id}
    BY DEF Close
  <1>2. held \in Nat /\ Hashed(d)
    BY DEF Shaped, Automata
  <1>3. HashedIn(slots, d.states, held) /\ held < Len(slots)
    <2>1. HashedIn(slots, d.states, held) /\ held + 1 < Len(slots) /\ Len(slots) \in Nat
      BY <1>2, TableForHolds DEF HashedIn
    <2> QED
      BY <1>2, <2>1
  <1>4. /\ \A s \in 1 .. held : d.states[s] = x => slots[slot] = s
        /\ slots[slot] # 0 => slots[slot] \in 1 .. held /\ d.states[slots[slot]] = x
    <2>1. Unalike(d.states, held)
      BY <1>2 DEF Hashed, Unlike, Unalike
    <2> HIDE DEF slots, x, held
    <2> QED
      BY <1>2, <1>3, <2>1, FindNodeIs
  <1>5. \A s \in Equal(d) : s \in 1 .. held /\ slots[slot] = s
    BY <1>4 DEF Equal
  <1>6. Equal(d) = {} <=> slots[slot] = 0
    <2>1. slots[slot] # 0 => slots[slot] \in Equal(d)
      BY <1>4 DEF Equal
    <2> HIDE DEF slots, slot, x, held
    <2> QED
      BY <1>2, <1>5, <2>1
  <1>7. Id(d) = id
    <2>1. CASE Equal(d) = {}
      BY <1>6, <2>1 DEF Id
    <2>2. CASE Equal(d) # {}
      <3>1. Id(d) \in Equal(d)
        BY <2>2 DEF Id
      <3> QED
        BY <1>5, <1>6, <2>2, <3>1
    <2> QED
      BY <2>1, <2>2
  <1> HIDE DEF id, slot, slots
  <1> QED
    BY <1>1, <1>6, <1>7

\* The table still holds every closed state.
LEMMA CloseHashed ==
    ASSUME NEW d, Shaped(d)
    PROVE  Hashed(Close(d)) /\ Close(d).table \in Seq(Nat)
  <1> DEFINE x == Last(d.levels)
             held == Len(d.states)
             slots == TableFor(d)
             slot == FindNode(slots, d.states, x)
             e == Close(d)
  <1>1. /\ e.states = IF slots[slot] = 0 THEN Append(d.states, x) ELSE d.states
        /\ e.table = IF slots[slot] = 0 THEN [slots EXCEPT ![slot] = held + 1] ELSE slots
    BY DEF Close
  <1>2. held \in Nat /\ Hashed(d) /\ d.states \in Seq(Seq(Arc)) /\ Last(d.levels) \in Seq(Arc)
    BY DEF Shaped, Automata, Last
  <1>3. HashedIn(slots, d.states, held) /\ held + 1 < Len(slots) /\ held < Len(slots) /\ Len(slots) \in Nat
    <2>1. HashedIn(slots, d.states, held) /\ held + 1 < Len(slots) /\ Len(slots) \in Nat
      BY <1>2, TableForHolds DEF HashedIn
    <2> QED
      BY <1>2, <2>1
  <1>4. Unalike(d.states, held)
    BY <1>2 DEF Hashed, Unlike, Unalike
  <1>5. /\ \A s \in 1 .. held : d.states[s] = x => slots[slot] = s
        /\ slots[slot] = 0 => \E k : FreeAfter(slots, x, k) /\ slot = Probe(x, k, Len(slots))
    <2> DEFINE states == d.states
    <2>1. Unalike(states, held) /\ HashedIn(slots, states, held) /\ held < Len(slots) /\ held \in Nat
          /\ slot = FindNode(slots, states, x)
      BY <1>2, <1>3, <1>4
    <2>2. states = d.states
      OBVIOUS
    <2> HIDE DEF slots, x, held, slot, states
    <2>3. /\ \A s \in 1 .. held : states[s] = x => slots[slot] = s
          /\ slots[slot] = 0 => \E k : FreeAfter(slots, x, k) /\ slot = Probe(x, k, Len(slots))
      BY <2>1, FindNodeIs
    <2> QED
      BY <2>2, <2>3
  <1>6. CASE slots[slot] = 0
    <2>1. PICK k : FreeAfter(slots, x, k) /\ slot = Probe(x, k, Len(slots))
      BY <1>5, <1>6
    <2>2. e.states = Append(d.states, x) /\ e.table = [slots EXCEPT ![slot] = held + 1]
      BY <1>1, <1>6
    <2>3. /\ Len(e.states) = held + 1 /\ e.states[held + 1] = x
          /\ \A s \in 1 .. held : e.states[s] = d.states[s]
      BY <1>2, <2>2, AppendProperties
    <2> HIDE DEF slots, slot, x, held, e
    <2>4. HashedIn(e.table, e.states, held + 1) /\ Len(e.table) = Len(slots)
      <3> DEFINE more == e.states
                 put == e.table
                 states == d.states
      <3>1. WithOne(more, states, held, x) /\ PutAfter(put, slots, x, k, held)
        BY <2>1, <2>2, <2>3 DEF WithOne, PutAfter
      <3>2. HashedIn(slots, states, held) /\ held \in Nat /\ held < Len(slots) /\ FreeAfter(slots, x, k)
        BY <1>2, <1>3, <2>1
      <3> HIDE DEF more, put, states
      <3>3. HashedIn(put, more, held + 1) /\ Len(put) = Len(slots)
        BY <3>1, <3>2, PutHolds
      <3> QED
        BY <3>3 DEF more, put
    <2>5. \A s \in 1 .. held : d.states[s] # x
      <3>1. \A s \in 1 .. held : s # 0
        BY <1>2
      <3> QED
        BY <1>5, <1>6, <3>1
    <2>6. Unlike(e)
      <3> SUFFICES ASSUME NEW s \in 1 .. held + 1, NEW t \in 1 .. held + 1, e.states[s] = e.states[t]
                   PROVE  s = t
        BY <2>3 DEF Unlike
      <3>1. CASE s \in 1 .. held /\ t \in 1 .. held
        BY <1>4, <2>3, <3>1 DEF Unalike
      <3>2. s \in 1 .. held \/ s = held + 1
        BY <1>2
      <3>3. t \in 1 .. held \/ t = held + 1
        BY <1>2
      <3>4. e.states[held + 1] = x /\ \A r \in 1 .. held : e.states[r] # x
        BY <2>3, <2>5
      <3>5. CASE s = held + 1 /\ t \in 1 .. held
        BY <3>4, <3>5
      <3>6. CASE s \in 1 .. held /\ t = held + 1
        BY <3>4, <3>6
      <3> QED
        BY <3>1, <3>2, <3>3, <3>5, <3>6
    <2>7. Len(e.states) < Len(e.table) /\ HashedIn(e.table, e.states, Len(e.states))
      BY <1>3, <2>3, <2>4
    <2> QED
      BY <2>6, <2>7 DEF Hashed, HashedIn, e
  <1>7. CASE slots[slot] # 0
    <2>1. e.states = d.states /\ e.table = slots
      BY <1>1, <1>7
    <2>2. slots \in Seq(Nat)
      BY <1>3 DEF HashedIn
    <2> HIDE DEF slots, e
    <2> QED
      BY <1>2, <1>3, <2>1, <2>2 DEF Hashed, Unlike, e
  <1> QED
    BY <1>6, <1>7

LEMMA IdType ==
    ASSUME NEW d, Shaped(d)
    PROVE  /\ Id(d) \in 1 .. Len(d.states) + 1
           /\ Equal(d) # {} => Id(d) \in 1 .. Len(d.states)
  <1>1. Len(d.states) \in Nat
    BY DEF Shaped, Automata
  <1> QED
    BY <1>1 DEF Id, Equal

LEMMA CloseEffect ==
    ASSUME NEW d, Shaped(d), Len(d.levels) >= 2
    PROVE  LET L == Len(d.levels)
               e == Close(d)
           IN  /\ Shaped(e)
               /\ Len(e.levels) = L - 1
               /\ \A l \in 1 .. L - 1 :
                    /\ Len(e.levels[l]) = Len(d.levels[l])
                    /\ \A m \in 1 .. Len(d.levels[l]) :
                         /\ e.levels[l][m].label = d.levels[l][m].label
                         /\ e.levels[l][m].to =
                               IF l = L - 1 /\ m = Len(d.levels[l]) THEN Id(d) ELSE d.levels[l][m].to
  <1> DEFINE L == Len(d.levels)
             u == L - 1
             p == Len(d.levels[u])
             front == SubSeq(d.levels, 1, u)
             row == [d.levels[u] EXCEPT ![p].to = Id(d)]
             open == [front EXCEPT ![u][p].to = Id(d)]
  <1>1. d.levels \in Seq(Seq(Arc)) /\ d.states \in Seq(Seq(Arc)) /\ L \in Nat /\ u \in 1 .. L
        /\ d.crossed \in SUBSET Nat
    BY DEF Shaped, Automata
  <1>2. d.levels[u] \in Seq(Arc) /\ p \in Nat /\ p >= 1 /\ p \in 1 .. p
    BY <1>1 DEF Shaped
  <1>3. Id(d) \in Int /\ Id(d) \in 1 .. Len(d.states) + 1
    BY <1>1, IdType
  <1>4. front \in Seq(Seq(Arc)) /\ Len(front) = u /\ \A l \in 1 .. u : front[l] = d.levels[l]
    <2>1. \A l \in 1 .. u : d.levels[l] \in Seq(Arc)
      BY <1>1
    <2>2. /\ SubSeq(d.levels, 1, u) \in Seq(Seq(Arc))
          /\ Len(SubSeq(d.levels, 1, u)) = IF 1 <= u THEN u - 1 + 1 ELSE 0
          /\ \A i \in 1 .. u - 1 + 1 : SubSeq(d.levels, 1, u)[i] = d.levels[1 + i - 1]
      BY <1>1, <2>1, SubSeqProperties, SMTT(30)
    <2> QED
      BY <1>1, <2>2
  <1>5. d.levels[u][p] \in Arc
    BY <1>2, ElementOfSeq
  <1>15. \A x : x = front => [x EXCEPT ![u][p].to = Id(d)] = [x EXCEPT ![u] = row]
    <2> SUFFICES ASSUME NEW x, x = front
                 PROVE  [x EXCEPT ![u][p].to = Id(d)] = [x EXCEPT ![u] = row]
      OBVIOUS
    <2>1. x[u] = d.levels[u] /\ u \in DOMAIN x
      BY <1>1, <1>4
    <2> HIDE DEF front
    <2> QED
      BY <2>1
  <1>6. [d.levels[u][p] EXCEPT !.to = Id(d)] \in Arc
        /\ [d.levels[u][p] EXCEPT !.to = Id(d)].label = d.levels[u][p].label
        /\ [d.levels[u][p] EXCEPT !.to = Id(d)].to = Id(d)
    BY <1>5, <1>3 DEF Arc
  <1>7. row = [d.levels[u] EXCEPT ![p] = [d.levels[u][p] EXCEPT !.to = Id(d)]]
    BY <1>2
  <1>8. row \in Seq(Arc) /\ Len(row) = p
        /\ \A m \in 1 .. p : row[m] = IF m = p THEN [d.levels[u][p] EXCEPT !.to = Id(d)] ELSE d.levels[u][m]
    BY <1>2, <1>6, <1>7, ExceptSeq
  <1>9. open = [front EXCEPT ![u] = row]
    BY <1>15
  <1> HIDE DEF front, row
  <1>10. open \in Seq(Seq(Arc)) /\ Len(open) = u
         /\ \A l \in 1 .. u : open[l] = IF l = u THEN row ELSE d.levels[l]
    <2> HIDE DEF open
    <2>1. row \in Seq(Arc) /\ u \in 1 .. Len(front)
      BY <1>1, <1>4, <1>8
    <2>2. open \in Seq(Seq(Arc)) /\ Len(open) = Len(front)
          /\ \A l \in 1 .. Len(front) : open[l] = IF l = u THEN row ELSE front[l]
      BY <1>4, <1>9, <2>1, ExceptSeq
    <2> QED
      BY <1>1, <1>4, <2>2
  <1>11. Close(d).levels = open
    BY CloseParts DEF Front, open, front
  <1>12. Close(d) \in Automata
    <2>1. Last(d.levels) \in Seq(Arc)
      BY <1>1 DEF Last
    <2>3. Append(d.states, Last(d.levels)) \in Seq(Seq(Arc))
      BY <1>1, <2>1, AppendProperties
    <2>4. Id(d) \in Nat
      BY <1>1, <1>3
    <2>2. /\ Close(d).states \in Seq(Seq(Arc)) /\ Close(d).crossed \in SUBSET Nat
      <3>1. /\ Close(d).states = IF Equal(d) = {} THEN Append(d.states, Last(d.levels)) ELSE d.states
            /\ Close(d).crossed = IF Equal(d) = {} THEN d.crossed ELSE d.crossed \cup {Id(d)}
        BY CloseParts
      <3> QED
        BY <1>1, <2>3, <2>4, <3>1
    <2>5. Close(d) = [levels |-> Close(d).levels, states |-> Close(d).states,
                      crossed |-> Close(d).crossed, table |-> Close(d).table]
      BY DEF Close
    <2>6. Close(d).table \in Seq(Nat)
      BY CloseHashed
    <2> HIDE DEF open
    <2> QED
      BY <1>10, <1>11, <2>2, <2>5, <2>6 DEF Automata
  <1>16. Hashed(Close(d))
    BY CloseHashed
  <1> HIDE DEF open
  <1>13. \A l \in 1 .. u : \A m \in 1 .. Len(d.levels[l]) :
             /\ Len(open[l]) = Len(d.levels[l])
             /\ open[l][m].label = d.levels[l][m].label
             /\ open[l][m].to = IF l = u /\ m = Len(d.levels[l]) THEN Id(d) ELSE d.levels[l][m].to
    BY <1>6, <1>8, <1>10
  <1>14. \A l \in 1 .. u : Len(open[l]) = Len(d.levels[l]) /\ Len(open[l]) >= 1
    <2>1. \A l \in 1 .. u : Len(d.levels[l]) >= 1
      BY <1>1 DEF Shaped
    <2> QED
      BY <1>1, <1>2, <1>8, <1>10, <2>1
  <1>17. Shaped(Close(d))
    <2> DEFINE e == Close(d)
    <2>1. /\ e \in Automata /\ Len(e.levels) >= 1 /\ Hashed(e)
          /\ \A l \in 1 .. Len(e.levels) : Len(e.levels[l]) >= 1
      BY <1>1, <1>10, <1>11, <1>12, <1>14, <1>16
    <2> HIDE DEF e
    <2>2. Shaped(e)
      BY <2>1 DEF Shaped
    <2> QED
      BY <2>2 DEF e
  <1> QED
    BY <1>1, <1>10, <1>11, <1>13, <1>14, <1>17

\* What closing does to the closed states.
LEMMA CloseStates ==
    ASSUME NEW d, Shaped(d), Len(d.levels) >= 2
    PROVE  LET L == Len(d.levels)
               S == Len(d.states)
               e == Close(d)
           IN  /\ Id(d) \in 1 .. Len(e.states)
               /\ S \in Nat /\ L \in Nat
               /\ \A s \in 1 .. S : e.states[s] = d.states[s]
               /\ \/ /\ Len(e.states) = S /\ Id(d) <= S
                     /\ e.crossed = d.crossed \cup {Id(d)}
                  \/ /\ Len(e.states) = S + 1 /\ Id(d) = S + 1
                     /\ e.states[S + 1] = d.levels[L]
                     /\ \A s \in 1 .. S : d.states[s] # d.levels[L]
                     /\ e.crossed = d.crossed
  <1>1. /\ d.states \in Seq(Seq(Arc)) /\ Last(d.levels) \in Seq(Arc)
        /\ Len(d.states) \in Nat /\ Len(d.levels) \in Nat
    BY DEF Shaped, Automata, Last
  <1>2. CASE Equal(d) = {}
    <2> DEFINE L == Len(d.levels)
               S == Len(d.states)
               e == Close(d)
    <2>1. e.states = Append(d.states, d.levels[L]) /\ e.crossed = d.crossed
      BY <1>2, CloseParts DEF Last
    <2>2. d.levels[L] \in Seq(Arc) /\ S \in Nat /\ L \in Nat
      BY <1>1 DEF Last
    <2>3. /\ Len(e.states) = S + 1
          /\ \A s \in 1 .. S : e.states[s] = d.states[s]
          /\ e.states[S + 1] = d.levels[L]
      BY <1>1, <2>1, <2>2, AppendProperties
    <2>4. Id(d) = S + 1
      BY <1>2 DEF Id
    <2>5. \A s \in 1 .. S : d.states[s] # d.levels[L]
      BY <1>2 DEF Equal, Last
    <2>6. Id(d) \in 1 .. Len(e.states)
      <3> HIDE DEF S, e
      <3> QED
        BY <2>2, <2>3, <2>4
    <2> QED
      BY <2>1, <2>2, <2>3, <2>4, <2>5, <2>6, Zenon
  <1>3. CASE Equal(d) # {}
    <2>1. /\ Close(d).states = d.states /\ Close(d).crossed = d.crossed \cup {Id(d)}
      BY <1>3, CloseParts
    <2> QED
      BY <1>1, <1>3, <2>1, IdType
  <1> QED
    BY <1>2, <1>3

LEMMA CloseKeeps ==
    ASSUME NEW d, DawgInv(d), Len(d.levels) >= 2
    PROVE  DawgInv(Close(d)) /\ Len(Close(d).levels) = Len(d.levels) - 1
  <1> DEFINE L == Len(d.levels)
             S == Len(d.states)
             e == Close(d)
             id == Id(d)
  <1>1. Shaped(d)
    BY DEF DawgInv
  <1>2. /\ id \in 1 .. Len(e.states)
        /\ S \in Nat /\ L \in Nat
        /\ \A s \in 1 .. S : e.states[s] = d.states[s]
    BY <1>1, CloseStates
  <1>3. \/ Len(e.states) = S /\ id <= S /\ e.crossed = d.crossed \cup {id}
        \/ /\ Len(e.states) = S + 1 /\ id = S + 1
           /\ e.states[S + 1] = d.levels[L]
           /\ \A s \in 1 .. S : d.states[s] # d.levels[L]
           /\ e.crossed = d.crossed
    BY <1>1, CloseStates
  <1>4. /\ Shaped(e) /\ Len(e.levels) = L - 1
        /\ \A l \in 1 .. L - 1 : Len(e.levels[l]) = Len(d.levels[l])
    BY <1>1, CloseEffect
  <1>5. \A l \in 1 .. L - 1 : \A m \in 1 .. Len(d.levels[l]) :
          /\ e.levels[l][m].label = d.levels[l][m].label
          /\ e.levels[l][m].to =
                IF l = L - 1 /\ m = Len(d.levels[l]) THEN id ELSE d.levels[l][m].to
    BY <1>1, CloseEffect
  <1>6. \A s \in 1 .. S : d.states[s] \in Seq(Arc) /\ Len(d.states[s]) \in Nat
    BY <1>1 DEF Shaped, Automata
  <1>7. \A l \in 1 .. L : d.levels[l] \in Seq(Arc) /\ Len(d.levels[l]) \in Nat
    BY <1>1 DEF Shaped, Automata
  <1> HIDE DEF L, S, e, id
  \* The arcs of the state that is closed lead to states closed before.
  <1>8. \A m \in 1 .. Len(d.levels[L]) : d.levels[L][m].label # 0 => d.levels[L][m].to \in 1 .. S
    BY <1>2 DEF DawgInv, ArcsDown, L, S
  <1>9. ArcsBack(e)
    <2>1. \A s \in 1 .. S : \A m \in 1 .. Len(d.states[s]) :
              d.states[s][m].label # 0 => d.states[s][m].to \in 1 .. s - 1
      BY DEF DawgInv, ArcsBack, S
    <2> SUFFICES ASSUME NEW s \in 1 .. Len(e.states), NEW m \in 1 .. Len(e.states[s]),
                        e.states[s][m].label # 0
                 PROVE  e.states[s][m].to \in 1 .. s - 1
      BY DEF ArcsBack
    <2>2. CASE s \in 1 .. S
      BY <1>2, <2>1, <2>2
    <2>3. CASE s \notin 1 .. S
      <3>1. s = S + 1 /\ e.states[s] = d.levels[L]
        BY <1>2, <1>3, <2>3
      <3>2. m \in 1 .. Len(d.levels[L]) /\ d.levels[L][m].label # 0
            /\ e.states[s][m].to = d.levels[L][m].to
        BY <3>1
      <3> QED
        BY <1>2, <1>8, <3>1, <3>2
    <2> QED
      BY <2>2, <2>3
  <1>10. Unlike(e)
    <2>1. \A s, t \in 1 .. S : d.states[s] = d.states[t] => s = t
      BY DEF DawgInv, Unlike, S
    <2> QED
      BY <1>2, <1>3, <2>1 DEF Unlike
  <1>11. ArcsDown(e)
    <2>1. \A l \in 1 .. L : \A m \in 1 .. Len(d.levels[l]) :
            d.levels[l][m].label # 0 =>
              /\ d.levels[l][m].to \in 0 .. S
              /\ d.levels[l][m].to = 0 => m = Len(d.levels[l]) /\ (l < L \/ l = 1)
      BY DEF DawgInv, ArcsDown, S, L
    <2> SUFFICES ASSUME NEW l \in 1 .. L - 1, NEW m \in 1 .. Len(e.levels[l]),
                        e.levels[l][m].label # 0
                 PROVE  /\ e.levels[l][m].to \in 0 .. Len(e.states)
                        /\ e.levels[l][m].to = 0 =>
                             m = Len(e.levels[l]) /\ (l < L - 1 \/ l = 1)
      BY <1>4 DEF ArcsDown
    <2>2. /\ l \in 1 .. L /\ m \in 1 .. Len(d.levels[l]) /\ Len(e.levels[l]) = Len(d.levels[l])
          /\ d.levels[l][m].label # 0
          /\ e.levels[l][m].to = IF l = L - 1 /\ m = Len(d.levels[l]) THEN id ELSE d.levels[l][m].to
      BY <1>2, <1>4, <1>5, SMTT(30)
    <2>3. /\ d.levels[l][m].to \in 0 .. S
          /\ d.levels[l][m].to = 0 => m = Len(d.levels[l]) /\ (l < L \/ l = 1)
      BY <2>1, <2>2
    <2>4. S \in Nat /\ Len(e.states) \in Nat /\ Len(e.states) >= S
      BY <1>2, <1>3
    <2>5. CASE l = L - 1 /\ m = Len(d.levels[l])
      BY <1>2, <2>2, <2>4, <2>5
    <2>6. CASE ~ (l = L - 1 /\ m = Len(d.levels[l]))
      BY <1>2, <2>2, <2>3, <2>4, <2>6, SMTT(30)
    <2> QED
      BY <2>5, <2>6
  <1>12. /\ d.crossed \subseteq e.crossed
         /\ id \in 1 .. S => id \in e.crossed
    BY <1>2, <1>3
  \* An arc closed now was closed before or is one of the state that is closed.
  <1>13. \A s \in 1 .. Len(e.states) :
           \/ s \in 1 .. S /\ e.states[s] = d.states[s]
           \/ s = S + 1 /\ e.states[s] = d.levels[L]
    BY <1>2, <1>3
  <1>14. \A s \in 1 .. S : \A m \in 1 .. Len(d.states[s]) :
              d.states[s][m].label # 0 => d.states[s][m].to \in 1 .. S
    BY <1>2 DEF DawgInv, ArcsBack, S
  <1>15. ASSUME NEW s \in 1 .. S, NEW t \in 1 .. S, NEW m \in 1 .. Len(d.states[s]),
                NEW k \in 1 .. Len(d.states[t]),
                d.states[s][m].label # 0, d.states[t][k].label # 0,
                d.states[s][m].to = d.states[t][k].to, s # t \/ m # k
         PROVE  d.states[s][m].to \in e.crossed
    BY <1>12, <1>15 DEF DawgInv, ClosedCross, S
  <1>16. ASSUME NEW s \in 1 .. S, NEW l \in 1 .. L, NEW m \in 1 .. Len(d.states[s]),
                NEW k \in 1 .. Len(d.levels[l]),
                d.states[s][m].label # 0, d.levels[l][k].label # 0,
                d.states[s][m].to = d.levels[l][k].to
         PROVE  d.states[s][m].to \in e.crossed
    BY <1>12, <1>16 DEF DawgInv, MixedCross, S, L
  <1>17. ASSUME NEW l \in 1 .. L, NEW h \in 1 .. L, NEW m \in 1 .. Len(d.levels[l]),
                NEW k \in 1 .. Len(d.levels[h]),
                d.levels[l][m].label # 0, d.levels[h][k].label # 0,
                d.levels[l][m].to = d.levels[h][k].to, d.levels[l][m].to # 0, l # h \/ m # k
         PROVE  d.levels[l][m].to \in e.crossed
    BY <1>12, <1>17 DEF DawgInv, OpenCross, L
  <1>18. ClosedCross(e)
    <2> SUFFICES ASSUME NEW s \in 1 .. Len(e.states), NEW t \in 1 .. Len(e.states),
                        NEW m \in 1 .. Len(e.states[s]), NEW k \in 1 .. Len(e.states[t]),
                        e.states[s][m].label # 0, e.states[t][k].label # 0,
                        e.states[s][m].to = e.states[t][k].to, s # t \/ m # k
                 PROVE  e.states[s][m].to \in e.crossed
      BY DEF ClosedCross
    <2>1. L \in 1 .. L
      BY <1>2 DEF L
    <2>2. CASE s \in 1 .. S /\ t \in 1 .. S
      <3>1. e.states[s] = d.states[s] /\ e.states[t] = d.states[t]
        BY <1>2, <2>2
      <3>2. /\ m \in 1 .. Len(d.states[s]) /\ d.states[s][m].label # 0
            /\ k \in 1 .. Len(d.states[t]) /\ d.states[t][k].label # 0
            /\ d.states[s][m].to = d.states[t][k].to
        BY <3>1
      <3>3. d.states[s][m].to \in e.crossed
        BY <1>15, <2>2, <3>2
      <3> QED
        BY <3>1, <3>3
    <2>3. CASE s \in 1 .. S /\ t = S + 1 /\ e.states[t] = d.levels[L]
      <3>1. /\ m \in 1 .. Len(d.states[s]) /\ d.states[s][m].label # 0
            /\ k \in 1 .. Len(d.levels[L]) /\ d.levels[L][k].label # 0
            /\ d.states[s][m].to = d.levels[L][k].to /\ e.states[s] = d.states[s]
        BY <1>2, <2>3
      <3> QED
        BY <1>16, <2>1, <2>3, <3>1
    <2>4. CASE s = S + 1 /\ e.states[s] = d.levels[L] /\ t \in 1 .. S
      <3>1. /\ m \in 1 .. Len(d.levels[L]) /\ d.levels[L][m].label # 0
            /\ k \in 1 .. Len(d.states[t]) /\ d.states[t][k].label # 0
            /\ d.states[t][k].to = d.levels[L][m].to /\ e.states[t] = d.states[t]
        BY <1>2, <2>4
      <3>2. d.states[t][k].to \in e.crossed
        BY <1>16, <2>1, <2>4, <3>1
      <3> QED
        BY <2>4, <3>1, <3>2
    <2>5. CASE s = S + 1 /\ t = S + 1 /\ e.states[s] = d.levels[L]
      <3>1. /\ m \in 1 .. Len(d.levels[L]) /\ d.levels[L][m].label # 0
            /\ k \in 1 .. Len(d.levels[L]) /\ d.levels[L][k].label # 0
            /\ d.levels[L][m].to = d.levels[L][k].to /\ m # k
        BY <2>5
      <3>2. d.levels[L][m].to # 0
        <4>1. d.levels[L][m].to \in 1 .. S
          BY <1>8, <3>1
        <4>2. S \in Nat /\ \A x \in 1 .. S : x # 0
          <5>1. S \in Nat
            BY <1>2
          <5> HIDE DEF S
          <5> QED
            BY <5>1
        <4> QED
          BY <4>1, <4>2, Zenon
      <3> QED
        BY <1>17, <2>1, <2>5, <3>1, <3>2
    <2> QED
      BY <1>13, <2>2, <2>3, <2>4, <2>5
  \* An arc open now was open before, or leads to the state that is closed.
  <1>19. ASSUME NEW l \in 1 .. L - 1, NEW k \in 1 .. Len(e.levels[l]), e.levels[l][k].label # 0
         PROVE  /\ k \in 1 .. Len(d.levels[l]) /\ d.levels[l][k].label # 0
                /\ e.levels[l][k].to = id \/ e.levels[l][k].to = d.levels[l][k].to
                /\ e.levels[l][k].to = d.levels[l][k].to \/ (l = L - 1 /\ k = Len(d.levels[l]))
                /\ d.levels[l][k].to \in 0 .. S
    <2>1. k \in 1 .. Len(d.levels[l]) /\ d.levels[l][k].label # 0
      BY <1>4, <1>5, <1>19
    <2>2. l \in 1 .. L
      BY <1>2
    <2>3. d.levels[l][k].to \in 0 .. S
      BY <2>1, <2>2 DEF DawgInv, ArcsDown, S, L
    <2> QED
      BY <1>5, <2>1, <2>3
  <1>20. MixedCross(e)
    <2> SUFFICES ASSUME NEW s \in 1 .. Len(e.states), NEW l \in 1 .. L - 1,
                        NEW m \in 1 .. Len(e.states[s]), NEW k \in 1 .. Len(e.levels[l]),
                        e.states[s][m].label # 0, e.levels[l][k].label # 0,
                        e.states[s][m].to = e.levels[l][k].to
                 PROVE  e.states[s][m].to \in e.crossed
      BY <1>4 DEF MixedCross
    <2>1. L \in 1 .. L /\ l \in 1 .. L
      BY <1>2 DEF L
    <2>2. e.states[s][m].to \in 1 .. S
      BY <1>8, <1>13, <1>14
    <2>3. CASE e.levels[l][k].to = id
      BY <1>12, <2>2, <2>3
    <2>4. CASE e.levels[l][k].to = d.levels[l][k].to
      <3>1. k \in 1 .. Len(d.levels[l]) /\ d.levels[l][k].label # 0
        BY <1>19
      <3>2. CASE s \in 1 .. S /\ e.states[s] = d.states[s]
        BY <1>16, <2>1, <2>4, <3>1, <3>2
      <3>3. CASE s = S + 1 /\ e.states[s] = d.levels[L]
        <4>1. L # l
          BY <1>2
        <4>2. /\ m \in 1 .. Len(d.levels[L]) /\ d.levels[L][m].label # 0
              /\ d.levels[L][m].to = d.levels[l][k].to
          BY <2>4, <3>3
        <4>3. d.levels[L][m].to # 0
          <5>1. d.levels[L][m].to \in 1 .. S
            BY <1>8, <4>2
          <5>2. \A x \in 1 .. S : x # 0
            OBVIOUS
          <5> QED
            BY <5>1, <5>2
        <4> QED
          BY <1>17, <2>1, <3>1, <3>3, <4>1, <4>2, <4>3
      <3> QED
        BY <1>13, <3>2, <3>3
    <2> QED
      BY <1>19, <2>3, <2>4
  <1>21. OpenCross(e)
    <2> SUFFICES ASSUME NEW l \in 1 .. L - 1, NEW h \in 1 .. L - 1,
                        NEW m \in 1 .. Len(e.levels[l]), NEW k \in 1 .. Len(e.levels[h]),
                        e.levels[l][m].label # 0, e.levels[h][k].label # 0,
                        e.levels[l][m].to = e.levels[h][k].to, e.levels[l][m].to # 0,
                        l # h \/ m # k
                 PROVE  e.levels[l][m].to \in e.crossed
      BY <1>4 DEF OpenCross
    <2>1. l \in 1 .. L /\ h \in 1 .. L
      BY <1>2
    <2>2. /\ m \in 1 .. Len(d.levels[l]) /\ d.levels[l][m].label # 0
          /\ k \in 1 .. Len(d.levels[h]) /\ d.levels[h][k].label # 0
          /\ d.levels[l][m].to \in 0 .. S /\ d.levels[h][k].to \in 0 .. S
      BY <1>19
    <2>3. CASE e.levels[l][m].to = d.levels[l][m].to /\ e.levels[h][k].to = d.levels[h][k].to
      <3>1. d.levels[l][m].to = d.levels[h][k].to /\ d.levels[l][m].to # 0
        BY <2>3
      <3>2. d.levels[l][m].to \in e.crossed
        BY <1>17, <2>1, <2>2, <3>1
      <3> QED
        BY <2>3, <3>2
    <2>4. CASE ~ (e.levels[l][m].to = d.levels[l][m].to /\ e.levels[h][k].to = d.levels[h][k].to)
      <3>1. \/ e.levels[l][m].to = d.levels[l][m].to /\ e.levels[h][k].to = id
            \/ e.levels[h][k].to = d.levels[h][k].to /\ e.levels[l][m].to = id
        BY <1>19, <2>4, SMTT(30)
      <3>2. e.levels[l][m].to = id /\ e.levels[l][m].to \in 0 .. S
        BY <2>2, <3>1
      <3> QED
        <4>1. id \in 1 .. S
          BY <1>2, <3>2
        <4> QED
          BY <1>12, <3>2, <4>1
    <2> QED
      BY <2>3, <2>4
  <1> QED
    BY <1>4, <1>9, <1>10, <1>11, <1>18, <1>20, <1>21 DEF DawgInv, e, L
-----------------------------------------------------------------------------
(* flush: closing from the last open state up. *)

\* There is the function that closes up to N states.
LEMMA ClosedExists ==
    ASSUME NEW d, NEW N \in Nat
    PROVE  \E f : f = [m \in 0 .. N |-> IF m = 0 THEN d ELSE Close(f[m - 1])]
  <1> DEFINE T == {M \in Nat : \E f : f = [m \in 0 .. M |-> IF m = 0 THEN d ELSE Close(f[m - 1])]}
  <1>1. 0 \in T
    <2> DEFINE f == [m \in 0 .. 0 |-> d]
    <2>1. f = [m \in 0 .. 0 |-> IF m = 0 THEN d ELSE Close(f[m - 1])]
      OBVIOUS
    <2> QED
      BY <2>1
  <1>2. ASSUME NEW M \in 0 .. N - 1, M \in T PROVE M + 1 \in T
    <2>1. PICK f : f = [m \in 0 .. M |-> IF m = 0 THEN d ELSE Close(f[m - 1])]
      BY <1>2
    <2> DEFINE g == [m \in 0 .. M + 1 |-> IF m = 0 THEN d ELSE Close(f[m - 1])]
    <2>2. \A m \in 0 .. M : f[m] = g[m]
      BY <2>1
    <2>3. \A m \in 0 .. M + 1 : m # 0 => m - 1 \in 0 .. M
      OBVIOUS
    <2>4. \A m \in 0 .. M + 1 : g[m] = IF m = 0 THEN d ELSE Close(g[m - 1])
      BY <2>2, <2>3
    <2>5. g = [m \in 0 .. M + 1 |-> IF m = 0 THEN d ELSE Close(g[m - 1])]
      <3>1. g = [m \in 0 .. M + 1 |-> g[m]]
        OBVIOUS
      <3> HIDE DEF g
      <3> QED
        BY <2>4, <3>1
    <2>6. M + 1 \in Nat
      OBVIOUS
    <2> HIDE DEF g
    <2> QED
      BY <2>5, <2>6
  <1> HIDE DEF T
  <1>3. N \in T
    BY <1>1, <1>2, UpTo
  <1> QED
    BY <1>3 DEF T

LEMMA FlushKeeps ==
    ASSUME NEW d, DawgInv(d), NEW l \in Nat, l >= 1
    PROVE  /\ DawgInv(Flush(d, l))
           /\ Len(Flush(d, l).levels) = IF l < Len(d.levels) THEN l ELSE Len(d.levels)
  <1> DEFINE N == Len(d.levels)
             closed == CHOOSE closed : closed = [m \in 0 .. N |-> IF m = 0 THEN d ELSE Close(closed[m - 1])]
             T == {m \in 0 .. N - 1 : DawgInv(closed[m]) /\ Len(closed[m].levels) = N - m}
             last == IF l < N THEN N - l ELSE 0
  <1>1. N \in Nat /\ N >= 1
    BY DEF DawgInv, Shaped, Automata
  <1>2. closed = [m \in 0 .. N |-> IF m = 0 THEN d ELSE Close(closed[m - 1])]
    BY <1>1, ClosedExists
  <1>3. Flush(d, l) = closed[last]
    BY DEF Flush
  <1> HIDE DEF closed
  <1>4. 0 \in T
    BY <1>1, <1>2
  <1>5. ASSUME NEW m \in 0 .. N - 1 - 1, m \in T PROVE m + 1 \in T
    <2>1. closed[m + 1] = Close(closed[m])
      BY <1>1, <1>2
    <2>2. DawgInv(closed[m]) /\ Len(closed[m].levels) = N - m /\ N - m >= 2
      BY <1>1, <1>5
    <2>3. DawgInv(closed[m + 1]) /\ Len(closed[m + 1].levels) = N - m - 1
      BY <2>1, <2>2, CloseKeeps
    <2> QED
      BY <1>1, <2>3
  <1> HIDE DEF T
  <1>6. \A m \in 0 .. N - 1 : m \in T
    <2>1. N - 1 \in Nat
      BY <1>1
    <2> HIDE DEF N
    <2> QED
      BY <1>4, <1>5, <2>1, UpTo
  <1>7. last \in 0 .. N - 1 /\ N - last = IF l < N THEN l ELSE N
    BY <1>1
  <1> QED
    BY <1>3, <1>6, <1>7 DEF T

-----------------------------------------------------------------------------
(* insert *)

LEMMA PartingType ==
    ASSUME NEW d, Shaped(d), NEW k \in Seq(1 .. MaxLabel), NEW tail
    PROVE  Parting(d, k, tail) \in 1 .. Len(k) + 2 /\ Parting(d, k, tail) <= Len(d.levels)
  <1> DEFINE Same(m) == /\ m <= Len(k) + 1 /\ m < Len(d.levels)
                        /\ Read(k, m, tail) = Last(d.levels[m + 1]).label
             T == {m \in 0 .. Len(k) + 2 : m # 0 /\ ~Same(m)}
  <1>1. Len(k) \in Nat /\ Len(d.levels) \in Nat /\ Len(d.levels) >= 1
    BY DEF Shaped, Automata
  <1>2. Len(k) + 2 \in T
    BY <1>1
  <1>3. PICK least \in T : \A m \in T : least <= m
    <2>1. Len(k) + 2 \in Nat /\ T \subseteq 0 .. Len(k) + 2 /\ T # {}
      BY <1>1, <1>2
    <2> HIDE DEF T
    <2> QED
      BY <2>1, FirstOf
  <1>4. /\ least \in 1 .. Len(k) + 2 /\ ~Same(least)
        /\ \A m \in 1 .. least - 1 : Same(m)
    BY <1>1, <1>3
  <1> DEFINE p == Parting(d, k, tail)
  <1>5. p \in 1 .. Len(k) + 2 /\ ~Same(p) /\ \A m \in 1 .. p - 1 : Same(m)
    BY <1>4 DEF Parting
  <1> HIDE DEF p
  <1>6. p # 1 => p - 1 \in 1 .. p - 1
    BY <1>1, <1>5
  <1>7. p # 1 => p - 1 < Len(d.levels)
    BY <1>5, <1>6
  <1> QED
    BY <1>1, <1>5, <1>7 DEF p
LEMMA InsertKeeps ==
    ASSUME NEW d, DawgInv(d), NEW k \in Seq(1 .. MaxLabel), NEW tail, NEW value \in Int
    PROVE  DawgInv(Insert(d, k, value, tail))
  <1> DEFINE p == Parting(d, k, tail)
             e == Flush(d, p + 1)
             K == Len(k)
             E == Len(e.levels)
             new == [l \in 1 .. K + 2 |->
                       IF l > Len(e.levels) THEN <<Transition(k, l - 1, value)>>
                       ELSE IF l = p + 1 THEN Append(e.levels[l], Transition(k, p, value))
                       ELSE e.levels[l]]
             c == [e EXCEPT !.levels = new]
  <1>1. K \in Nat /\ p \in 1 .. K + 2 /\ p <= Len(d.levels) /\ Len(d.levels) \in Nat
    <2>1. Shaped(d) /\ Len(d.levels) \in Nat
      BY DEF DawgInv, Shaped, Automata
    <2>2. p \in 1 .. Len(k) + 2 /\ p <= Len(d.levels)
      BY <2>1, PartingType
    <2>3. K \in Nat
      OBVIOUS
    <2> HIDE DEF p
    <2> QED
      BY <2>1, <2>2, <2>3
  <1>2. CASE p > K + 1
    BY <1>2 DEF Insert
  <1>3. CASE ~ (p > K + 1)
    <2>1. Insert(d, k, value, tail) = c
      BY <1>3 DEF Insert
    <2>2. DawgInv(e) /\ E = IF p + 1 < Len(d.levels) THEN p + 1 ELSE Len(d.levels)
      BY <1>1, FlushKeeps
    <2> HIDE DEF e, p
    <2>3. E \in {p, p + 1} /\ E \in Nat
      BY <1>1, <2>2 DEF DawgInv, Shaped, Automata
    <2>4. /\ e \in Automata /\ e.levels \in Seq(Seq(Arc)) /\ e.states \in Seq(Seq(Arc))
          /\ \A l \in 1 .. E : Len(e.levels[l]) >= 1
      BY <2>2 DEF DawgInv, Shaped, Automata
    <2>5. \A l \in 1 .. E : e.levels[l] \in Seq(Arc) /\ Len(e.levels[l]) \in Nat
      BY <2>4
    \* The arcs that are new lead nowhere yet, or to a value.
    <2>6. \A m \in 1 .. K + 2 :
            /\ Transition(k, m, value) \in Arc
            /\ Transition(k, m, value).label # 0 => Transition(k, m, value).to = 0 /\ m <= K
      <3>1. \A m \in 1 .. K : k[m] \in 1 .. MaxLabel
        BY ElementOfSeq
      <3> QED
        BY <1>1, <3>1, MaxLabelAssumption DEF Transition, LabelAt, Read, Arc
    <2>7. \A l \in 1 .. E : l # p + 1 => new[l] = e.levels[l]
      BY <1>1, <1>3, <2>3
    <2>8. ASSUME p + 1 \in 1 .. E
          PROVE  /\ new[p + 1] \in Seq(Arc)
                 /\ Len(new[p + 1]) = Len(e.levels[p + 1]) + 1
                 /\ \A m \in 1 .. Len(e.levels[p + 1]) : new[p + 1][m] = e.levels[p + 1][m]
                 /\ new[p + 1][Len(e.levels[p + 1]) + 1] = Transition(k, p, value)
      <3>1. new[p + 1] = Append(e.levels[p + 1], Transition(k, p, value))
        BY <1>1, <1>3, <2>3, <2>8
      <3>2. Transition(k, p, value) \in Arc /\ e.levels[p + 1] \in Seq(Arc)
        BY <1>1, <2>5, <2>6, <2>8
      <3> HIDE DEF new
      <3> QED
        BY <3>1, <3>2, AppendProperties
    <2>9. ASSUME NEW l \in E + 1 .. K + 2
          PROVE  /\ new[l] \in Seq(Arc) /\ Len(new[l]) = 1
                 /\ new[l][1] = Transition(k, l - 1, value)
      <3>1. new[l] = <<Transition(k, l - 1, value)>> /\ l - 1 \in 1 .. K + 2
        BY <1>1, <2>3
      <3>2. Transition(k, l - 1, value) \in Arc
        BY <2>6, <3>1
      <3> QED
        BY <3>1, <3>2
    <2>10. \A l \in 1 .. K + 2 : new[l] \in Seq(Arc) /\ Len(new[l]) >= 1 /\ Len(new[l]) \in Nat
      <3> SUFFICES ASSUME NEW l \in 1 .. K + 2
                   PROVE  new[l] \in Seq(Arc) /\ Len(new[l]) >= 1
        OBVIOUS
      <3>1. CASE l \in 1 .. E /\ l # p + 1
        BY <2>4, <2>5, <2>7, <3>1
      <3>2. CASE l \in 1 .. E /\ l = p + 1
        <4>1. p + 1 \in 1 .. E /\ Len(e.levels[p + 1]) \in Nat
          BY <2>5, <3>2
        <4>2. new[p + 1] \in Seq(Arc) /\ Len(new[p + 1]) = Len(e.levels[p + 1]) + 1
          BY <2>8, <4>1
        <4> HIDE DEF new
        <4> QED
          BY <3>2, <4>1, <4>2
      <3>3. CASE l \in E + 1 .. K + 2
        <4> HIDE DEF new
        <4> QED
          BY <2>9, <3>3
      <3> QED
        BY <1>1, <2>3, <3>1, <3>2, <3>3
    <2>11. new \in Seq(Seq(Arc)) /\ Len(new) = K + 2
      <3>1. new = [l \in 1 .. K + 2 |-> new[l]]
        OBVIOUS
      <3> HIDE DEF new
      <3> QED
        BY <1>1, <2>10, <3>1
    <2>12. /\ c.levels = new /\ c.states = e.states /\ c.crossed = e.crossed /\ c \in Automata
          /\ c.table = e.table
      BY <2>4, <2>11 DEF Automata
    <2>13. Shaped(c)
      <3>1. Hashed(e)
        BY <2>2 DEF DawgInv, Shaped
      <3>2. Hashed(c)
        BY <2>12, <3>1 DEF Hashed, HashedIn, Unlike
      <3> HIDE DEF c
      <3> QED
        BY <1>1, <2>10, <2>11, <2>12, <3>2 DEF Shaped
    \* Of an arc that leads somewhere nothing changed.
    <2>14. ASSUME NEW l \in 1 .. K + 2, NEW m \in 1 .. Len(new[l]), new[l][m].label # 0
           PROVE  \/ /\ l \in 1 .. E /\ m \in 1 .. Len(e.levels[l])
                     /\ new[l][m] = e.levels[l][m]
                     /\ l = p + 1 => Len(new[l]) # Len(e.levels[l])
                     /\ l # p + 1 => Len(new[l]) = Len(e.levels[l])
                  \/ new[l][m].to = 0 /\ m = Len(new[l]) /\ l < K + 2
      <3>1. CASE l \in 1 .. E /\ l # p + 1
        BY <2>7, <3>1
      <3>2. CASE l \in 1 .. E /\ l = p + 1
        <4>1. Len(e.levels[l]) \in Nat
          BY <2>5, <3>2
        <4>2. CASE m \in 1 .. Len(e.levels[l])
          BY <2>8, <3>2, <4>1, <4>2
        <4>3. CASE m = Len(e.levels[l]) + 1
          BY <1>1, <2>6, <2>8, <2>14, <3>2, <4>1, <4>3
        <4>4. Len(new[l]) = Len(e.levels[l]) + 1
          BY <2>8, <3>2
        <4>5. m \in 1 .. Len(e.levels[l]) \/ m = Len(e.levels[l]) + 1
          <5> HIDE DEF new
          <5> QED
            BY <4>1, <4>4
        <4> QED
          BY <4>2, <4>3, <4>5
      <3>3. CASE l \in E + 1 .. K + 2
        <4>1. m = 1 /\ Len(new[l]) = 1 /\ new[l][m] = Transition(k, l - 1, value)
          BY <2>9, <3>3
        <4>2. l - 1 \in 1 .. K + 2
          BY <1>1, <2>3, <3>3
        <4> QED
          BY <1>1, <2>6, <2>14, <4>1, <4>2
      <3> QED
        BY <1>1, <2>3, <3>1, <3>2, <3>3
    <2> HIDE DEF new, c
    <2>15. ArcsBack(c) /\ Unlike(c) /\ ClosedCross(c)
      BY <2>2, <2>12 DEF DawgInv, ArcsBack, Unlike, ClosedCross
    <2>16. ArcsDown(c)
      <3> SUFFICES ASSUME NEW l \in 1 .. K + 2, NEW m \in 1 .. Len(new[l]), new[l][m].label # 0
                   PROVE  /\ new[l][m].to \in 0 .. Len(e.states)
                          /\ new[l][m].to = 0 => m = Len(new[l]) /\ (l < K + 2 \/ l = 1)
        BY <2>11, <2>12 DEF ArcsDown
      <3>1. Len(e.states) \in Nat
        BY <2>4
      <3>2. CASE new[l][m].to = 0 /\ m = Len(new[l]) /\ l < K + 2
        BY <3>1, <3>2
      <3>3. CASE /\ l \in 1 .. E /\ m \in 1 .. Len(e.levels[l])
                 /\ new[l][m] = e.levels[l][m]
                 /\ l = p + 1 => Len(new[l]) # Len(e.levels[l])
                 /\ l # p + 1 => Len(new[l]) = Len(e.levels[l])
        <4>1. /\ e.levels[l][m].to \in 0 .. Len(e.states)
              /\ e.levels[l][m].to = 0 => m = Len(e.levels[l]) /\ (l < E \/ l = 1)
          BY <2>2, <3>3 DEF DawgInv, ArcsDown
        <4>2. l = p + 1 => ~ (l < E \/ l = 1)
          BY <1>1, <2>3
        <4>3. l < E => l < K + 2
          BY <1>1, <1>3, <2>3, <3>3
        <4> QED
          BY <3>3, <4>1, <4>2, <4>3
      <3> QED
        BY <2>14, <3>2, <3>3
    <2>17. MixedCross(c)
      <3>1. ASSUME NEW s \in 1 .. Len(e.states), NEW l \in 1 .. K + 2,
                   NEW m \in 1 .. Len(e.states[s]), NEW h \in 1 .. Len(new[l]),
                   e.states[s][m].label # 0, new[l][h].label # 0,
                   e.states[s][m].to = new[l][h].to
            PROVE  e.states[s][m].to \in e.crossed
        <4>1. e.states[s][m].to \in 1 .. s - 1
          BY <2>2, <3>1 DEF DawgInv, ArcsBack
        <4>2. new[l][h].to # 0
          BY <3>1, <4>1
        <4>3. l \in 1 .. E /\ h \in 1 .. Len(e.levels[l]) /\ new[l][h] = e.levels[l][h]
          BY <2>14, <3>1, <4>2
        <4> QED
          BY <2>2, <3>1, <4>3 DEF DawgInv, MixedCross
      <3>2. /\ 1 .. Len(c.levels) = 1 .. K + 2 /\ c.levels = new /\ c.states = e.states
            /\ c.crossed = e.crossed
        BY <2>11, <2>12
      <3> SUFFICES ASSUME NEW s \in 1 .. Len(c.states), NEW l \in 1 .. Len(c.levels),
                          NEW m \in 1 .. Len(c.states[s]), NEW h \in 1 .. Len(c.levels[l]),
                          c.states[s][m].label # 0, c.levels[l][h].label # 0,
                          c.states[s][m].to = c.levels[l][h].to
                   PROVE  c.states[s][m].to \in c.crossed
        BY DEF MixedCross
      <3>3. /\ s \in 1 .. Len(e.states) /\ l \in 1 .. K + 2
            /\ m \in 1 .. Len(e.states[s]) /\ h \in 1 .. Len(new[l])
            /\ e.states[s][m].label # 0 /\ new[l][h].label # 0
            /\ e.states[s][m].to = new[l][h].to
        BY <3>2
      <3> QED
        BY <3>1, <3>2, <3>3
    <2>18. OpenCross(c)
      <3>1. ASSUME NEW l \in 1 .. K + 2, NEW g \in 1 .. K + 2,
                   NEW m \in 1 .. Len(new[l]), NEW h \in 1 .. Len(new[g]),
                   new[l][m].label # 0, new[g][h].label # 0,
                   new[l][m].to = new[g][h].to, new[l][m].to # 0,
                   l # g \/ m # h
            PROVE  new[l][m].to \in e.crossed
        <4>1. l \in 1 .. E /\ m \in 1 .. Len(e.levels[l]) /\ new[l][m] = e.levels[l][m]
          BY <2>14, <3>1
        <4>2. g \in 1 .. E /\ h \in 1 .. Len(e.levels[g]) /\ new[g][h] = e.levels[g][h]
          BY <2>14, <3>1
        <4> QED
          BY <2>2, <3>1, <4>1, <4>2 DEF DawgInv, OpenCross
      <3>2. 1 .. Len(c.levels) = 1 .. K + 2 /\ c.levels = new /\ c.crossed = e.crossed
        BY <2>11, <2>12
      <3> SUFFICES ASSUME NEW l \in 1 .. Len(c.levels), NEW g \in 1 .. Len(c.levels),
                          NEW m \in 1 .. Len(c.levels[l]), NEW h \in 1 .. Len(c.levels[g]),
                          c.levels[l][m].label # 0, c.levels[g][h].label # 0,
                          c.levels[l][m].to = c.levels[g][h].to, c.levels[l][m].to # 0,
                          l # g \/ m # h
                   PROVE  c.levels[l][m].to \in c.crossed
        BY DEF OpenCross
      <3>3. /\ l \in 1 .. K + 2 /\ g \in 1 .. K + 2
            /\ m \in 1 .. Len(new[l]) /\ h \in 1 .. Len(new[g])
            /\ new[l][m].label # 0 /\ new[g][h].label # 0
            /\ new[l][m].to = new[g][h].to /\ new[l][m].to # 0
        BY <3>2
      <3> QED
        BY <3>1, <3>2, <3>3
    <2> QED
      BY <2>1, <2>13, <2>15, <2>16, <2>17, <2>18 DEF DawgInv
  <1> QED
    BY <1>2, <1>3

-----------------------------------------------------------------------------
(* The automaton at every step of build. *)

\* What a key and its value are, whatever was passed.
LEMMA InputTypes ==
    ASSUME input \in Inputs
    PROVE  /\ Len(input.keys) \in Nat
           /\ \A m \in 1 .. Len(input.keys) : input.keys[m] \in Seq(1 .. MaxLabel)
           /\ Len(input.values) > 0 => \A m \in 1 .. Len(input.keys) : input.values[m] \in Int
  <1>1. /\ input.keys \in Seq(Seq(1 .. MaxLabel))
        /\ input.values \in Seq(Int) /\ Len(input.values) \in {0, Len(input.keys)}
    BY InputsAssumption
  <1> QED
    BY <1>1

AutomatonInv ==
    /\ input \in Inputs
    /\ n \in 0 .. Len(input.keys)
    /\ stage = "insert" => Len(input.values) > 0
    /\ DawgInv(dawg)

LEMMA BuildInitAutomaton == BuildInit => AutomatonInv
  BY InitDawgInv, InputTypes DEF BuildInit, AutomatonInv

LEMMA AutomatonKept == AutomatonInv /\ [BuildNext]_buildVars => AutomatonInv'
  <1> SUFFICES ASSUME AutomatonInv, [BuildNext]_buildVars PROVE AutomatonInv'
    OBVIOUS
  <1> USE DEF AutomatonInv
  <1>1. CASE InsertKey
    <2>1. n + 1 \in 1 .. Len(input.keys) /\ n' = n + 1 /\ stage = "insert" /\ input' = input
      BY <1>1, InputTypes DEF InsertKey
    <2>2. /\ input.keys[n'] \in Seq(1 .. MaxLabel) /\ input.values[n'] \in Int
      BY <2>1, InputTypes
    <2>3. \/ dawg' = dawg
          \/ dawg' = Insert(dawg, input.keys[n'], input.values[n'], input.tail)
      BY <1>1 DEF InsertKey
    <2>4. DawgInv(dawg')
      BY <2>2, <2>3, InsertKeeps
    <2> QED
      BY <2>1, <2>4
  <1>2. CASE FinishDawg
    <2>1. DawgInv(dawg')
      BY <1>2, FlushKeeps DEF FinishDawg, Finish
    <2> QED
      BY <1>2, <2>1 DEF FinishDawg
  <1>3. CASE PlaceRoot
    BY <1>3 DEF PlaceRoot
  <1>4. CASE ReuseState
    BY <1>4 DEF ReuseState
  <1>5. CASE ArrangeState
    BY <1>5 DEF ArrangeState
  <1>6. CASE ArrangeKeys
    BY <1>6 DEF ArrangeKeys
  <1>7. CASE FixAll
    BY <1>7 DEF FixAll
  <1>8. CASE UNCHANGED buildVars
    BY <1>8 DEF buildVars
  <1> QED
    BY <1>1, <1>2, <1>3, <1>4, <1>5, <1>6, <1>7, <1>8 DEF BuildNext

\* "There must not be the same unit" (darts.h): at every step of every build the
\* automaton has no state twice and no cycle, and knows the states it reuses.
THEOREM AutomatonMinimal == BuildSpec => []DawgMinimal
  <1>1. BuildSpec => []AutomatonInv
    BY BuildInitAutomaton, AutomatonKept, PTL DEF BuildSpec
  <1>2. AutomatonInv => DawgMinimal
    BY DawgInvMinimal DEF AutomatonInv, DawgMinimal
  <1> QED
    BY <1>1, <1>2, PTL

-----------------------------------------------------------------------------
(* What the states of the automaton hold. *)

\* A value is a number and a closed state is not empty, nor is it the end of a
\* key that leads to the root.
Valued(d) ==
    /\ \A s \in 1 .. Len(d.states) :
          /\ Len(d.states[s]) >= 1
          /\ \A m \in 1 .. Len(d.states[s]) : d.states[s][m].label = 0 => d.states[s][m].to \in Nat
    /\ \A l \in 1 .. Len(d.levels) : \A m \in 1 .. Len(d.levels[l]) :
          d.levels[l][m].label = 0 => d.levels[l][m].to \in Nat
    /\ d.levels[1][1].label # 0

Rising(state) == \A i, j \in 1 .. Len(state) : i < j => state[i].label < state[j].label

Ascends(d) ==
    /\ \A s \in 1 .. Len(d.states) : Rising(d.states[s])
    /\ \A l \in 1 .. Len(d.levels) : Rising(d.levels[l])

\* The open states of e are those of d, but for where they lead.
SameLabels(d, e) ==
    /\ Len(e.levels) <= Len(d.levels)
    /\ \A l \in 1 .. Len(e.levels) :
          /\ Len(e.levels[l]) = Len(d.levels[l])
          /\ \A m \in 1 .. Len(d.levels[l]) : e.levels[l][m].label = d.levels[l][m].label

LEMMA CloseOrders ==
    ASSUME NEW d, Shaped(d), Len(d.levels) >= 2, NEW e, e = Close(d)
    PROVE  /\ SameLabels(d, e)
           /\ Valued(d) => Valued(e)
           /\ Ascends(d) => Ascends(e)
  <1> DEFINE L == Len(d.levels)
             S == Len(d.states)
  <1>1. L \in Nat /\ L >= 2 /\ S \in Nat /\ Shaped(e) /\ Len(e.levels) = L - 1
    <2>1. L \in Nat /\ L >= 2 /\ S \in Nat
      BY DEF Shaped, Automata
    <2>2. Shaped(Close(d)) /\ Len(Close(d).levels) = L - 1
      BY CloseEffect
    <2> QED
      BY <2>1, <2>2
  <1>2. \A l \in 1 .. L - 1 :
            /\ Len(e.levels[l]) = Len(d.levels[l])
            /\ \A m \in 1 .. Len(d.levels[l]) :
                 /\ e.levels[l][m].label = d.levels[l][m].label
                 /\ e.levels[l][m].to =
                       IF l = L - 1 /\ m = Len(d.levels[l]) THEN Id(d) ELSE d.levels[l][m].to
    <2> DEFINE c == Close(d)
    <2>1. \A l \in 1 .. L - 1 :
            /\ Len(c.levels[l]) = Len(d.levels[l])
            /\ \A m \in 1 .. Len(d.levels[l]) :
                 /\ c.levels[l][m].label = d.levels[l][m].label
                 /\ c.levels[l][m].to =
                       IF l = L - 1 /\ m = Len(d.levels[l]) THEN Id(d) ELSE d.levels[l][m].to
      BY CloseEffect
    <2>2. c = e
      OBVIOUS
    <2> HIDE DEF c
    <2> QED
      BY <2>1, <2>2
  <1>3. /\ Id(d) \in 1 .. Len(e.states) /\ Id(d) \in Nat
        /\ \A s \in 1 .. S : e.states[s] = d.states[s]
        /\ \/ Len(e.states) = S
           \/ Len(e.states) = S + 1 /\ e.states[S + 1] = d.levels[L]
    <2>1. Id(d) \in 1 .. Len(e.states)
      BY CloseStates
    <2>2. /\ \A s \in 1 .. S : e.states[s] = d.states[s]
          /\ \/ Len(e.states) = S
             \/ Len(e.states) = S + 1 /\ e.states[S + 1] = d.levels[L]
      BY CloseStates
    <2> QED
      BY <2>1, <2>2
  <1>4. SameLabels(d, e)
    <2>1. Len(e.levels) <= Len(d.levels) /\ \A l \in 1 .. Len(e.levels) : l \in 1 .. L - 1
      BY <1>1
    <2> QED
      BY <1>2, <2>1 DEF SameLabels
  <1>5. \A s \in 1 .. Len(e.states) : \/ s \in 1 .. S /\ e.states[s] = d.states[s]
                                      \/ e.states[s] = d.levels[L]
    BY <1>1, <1>3
  <1>6. L \in 1 .. L /\ 1 \in 1 .. L - 1 /\ \A l \in 1 .. L - 1 : l \in 1 .. L
    BY <1>1
  <1>7. Len(d.levels[L]) >= 1 /\ Len(d.levels[1]) >= 1 /\ Len(d.levels[1]) \in Nat
    BY <1>6 DEF Shaped, Automata
  <1>8. ASSUME Valued(d) PROVE Valued(e)
    <2>1. \A s \in 1 .. Len(e.states) :
             /\ Len(e.states[s]) >= 1
             /\ \A m \in 1 .. Len(e.states[s]) : e.states[s][m].label = 0 => e.states[s][m].to \in Nat
      <3> SUFFICES ASSUME NEW s \in 1 .. Len(e.states)
                   PROVE  /\ Len(e.states[s]) >= 1
                          /\ \A m \in 1 .. Len(e.states[s]) :
                                e.states[s][m].label = 0 => e.states[s][m].to \in Nat
        OBVIOUS
      <3>1. CASE s \in 1 .. S /\ e.states[s] = d.states[s]
        BY <1>8, <3>1 DEF Valued
      <3>2. CASE e.states[s] = d.levels[L]
        BY <1>6, <1>7, <1>8, <3>2 DEF Valued
      <3> QED
        BY <1>5, <3>1, <3>2
    <2>2. ASSUME NEW l \in 1 .. L - 1, NEW m \in 1 .. Len(e.levels[l]), e.levels[l][m].label = 0
          PROVE  e.levels[l][m].to \in Nat
      <3>1. m \in 1 .. Len(d.levels[l]) /\ d.levels[l][m].label = 0
        BY <1>2, <2>2
      <3>2. d.levels[l][m].to \in Nat
        BY <1>6, <1>8, <3>1 DEF Valued
      <3> QED
        BY <1>2, <1>3, <3>1, <3>2
    <2>3. e.levels[1][1].label # 0
      <3>1. 1 \in 1 .. Len(d.levels[1])
        BY <1>7
      <3> QED
        BY <1>2, <1>6, <1>8, <3>1 DEF Valued
    <2> QED
      BY <1>1, <2>1, <2>2, <2>3 DEF Valued
  <1>9. ASSUME Ascends(d) PROVE Ascends(e)
    <2>1. \A s \in 1 .. Len(e.states) : Rising(e.states[s])
      BY <1>5, <1>6, <1>9 DEF Ascends
    <2>2. \A l \in 1 .. L - 1 : Rising(e.levels[l])
      <3> SUFFICES ASSUME NEW l \in 1 .. L - 1, NEW i \in 1 .. Len(d.levels[l]),
                          NEW j \in 1 .. Len(d.levels[l]), i < j
                   PROVE  e.levels[l][i].label < e.levels[l][j].label
        BY <1>2 DEF Rising
      <3>1. d.levels[l][i].label < d.levels[l][j].label
        BY <1>6, <1>9 DEF Ascends, Rising
      <3> QED
        BY <1>2, <3>1
    <2> QED
      BY <1>1, <2>1, <2>2 DEF Ascends
  <1> QED
    BY <1>4, <1>8, <1>9

LEMMA FlushOrders ==
    ASSUME NEW d, DawgInv(d), NEW l \in Nat, l >= 1, NEW e, e = Flush(d, l)
    PROVE  /\ SameLabels(d, e)
           /\ Valued(d) => Valued(e)
           /\ Ascends(d) => Ascends(e)
  <1> DEFINE N == Len(d.levels)
             closed == CHOOSE closed : closed = [m \in 0 .. N |-> IF m = 0 THEN d ELSE Close(closed[m - 1])]
             Kept(x) == /\ SameLabels(d, x)
                        /\ Valued(d) => Valued(x)
                        /\ Ascends(d) => Ascends(x)
             T == {m \in 0 .. N - 1 :
                      DawgInv(closed[m]) /\ Len(closed[m].levels) = N - m /\ Kept(closed[m])}
             last == IF l < N THEN N - l ELSE 0
  <1>1. N \in Nat /\ N >= 1
    BY DEF DawgInv, Shaped, Automata
  <1>2. closed = [m \in 0 .. N |-> IF m = 0 THEN d ELSE Close(closed[m - 1])]
    BY <1>1, ClosedExists
  <1>3. e = closed[last]
    BY DEF Flush
  <1> HIDE DEF closed
  <1>4. 0 \in T
    <2>1. SameLabels(d, d)
      BY <1>1 DEF SameLabels
    <2>2. closed[0] = d
      BY <1>1, <1>2
    <2> QED
      BY <1>1, <2>1, <2>2
  <1>5. ASSUME NEW m \in 0 .. N - 1 - 1, m \in T PROVE m + 1 \in T
    <2> DEFINE x == closed[m]
               y == closed[m + 1]
    <2>1. y = Close(x)
      BY <1>1, <1>2
    <2>2. DawgInv(x) /\ Len(x.levels) = N - m /\ N - m >= 2 /\ Kept(x)
      BY <1>1, <1>5
    <2> HIDE DEF x, y
    <2>3. DawgInv(y) /\ Len(y.levels) = N - m - 1
      BY <2>1, <2>2, CloseKeeps
    <2>4. /\ SameLabels(x, y) /\ (Valued(x) => Valued(y)) /\ (Ascends(x) => Ascends(y))
      BY <2>1, <2>2, CloseOrders DEF DawgInv
    <2>5. SameLabels(d, y)
      <3>1. Len(y.levels) \in Nat /\ Len(x.levels) \in Nat /\ Len(y.levels) <= Len(x.levels)
        BY <1>1, <2>2, <2>3
      <3>2. \A h \in 1 .. Len(y.levels) : h \in 1 .. Len(x.levels)
        BY <3>1
      <3>3. Len(y.levels) <= Len(d.levels)
        BY <1>1, <2>2, <3>1 DEF SameLabels
      <3>4. ASSUME NEW h \in 1 .. Len(y.levels)
            PROVE  /\ Len(y.levels[h]) = Len(d.levels[h])
                   /\ \A i \in 1 .. Len(d.levels[h]) : y.levels[h][i].label = d.levels[h][i].label
        <4>1. h \in 1 .. Len(x.levels)
          BY <3>2
        <4> QED
          BY <2>2, <2>4, <4>1 DEF SameLabels
      <3> QED
        BY <3>3, <3>4 DEF SameLabels
    <2>6. Kept(y)
      BY <2>2, <2>4, <2>5
    <2>7. m + 1 \in 0 .. N - 1 /\ N - m - 1 = N - (m + 1)
      BY <1>1
    <2> QED
      BY <2>3, <2>6, <2>7 DEF y
  <1> HIDE DEF T
  <1>6. \A m \in 0 .. N - 1 : m \in T
    <2>1. N - 1 \in Nat
      BY <1>1
    <2> HIDE DEF N
    <2> QED
      BY <1>4, <1>5, <2>1, UpTo
  <1>7. last \in 0 .. N - 1
    BY <1>1
  <1> QED
    BY <1>3, <1>6, <1>7 DEF T

\* The position at which a key leaves the path of the key before.
LEMMA PartingIs ==
    ASSUME NEW d, Shaped(d), NEW k \in Seq(1 .. MaxLabel), NEW tail, NEW p, p = Parting(d, k, tail)
    PROVE  /\ p \in 1 .. Len(k) + 2 /\ p <= Len(d.levels)
           /\ p <= Len(k) + 1 /\ p < Len(d.levels) => Read(k, p, tail) # Last(d.levels[p + 1]).label
           /\ \A m \in 1 .. p - 1 : /\ m <= Len(k) + 1 /\ m < Len(d.levels)
                                    /\ Read(k, m, tail) = Last(d.levels[m + 1]).label
  <1> DEFINE Same(m) == /\ m <= Len(k) + 1 /\ m < Len(d.levels)
                        /\ Read(k, m, tail) = Last(d.levels[m + 1]).label
             T == {m \in 0 .. Len(k) + 2 : m # 0 /\ ~Same(m)}
  <1>1. Len(k) \in Nat /\ Len(d.levels) \in Nat /\ Len(d.levels) >= 1
    BY DEF Shaped, Automata
  <1>2. Len(k) + 2 \in T
    BY <1>1
  <1>3. PICK least \in T : \A m \in T : least <= m
    <2>1. Len(k) + 2 \in Nat /\ T \subseteq 0 .. Len(k) + 2 /\ T # {}
      BY <1>1, <1>2
    <2> HIDE DEF T
    <2> QED
      BY <2>1, FirstOf
  <1>4. /\ least \in 1 .. Len(k) + 2 /\ ~Same(least)
        /\ \A m \in 1 .. least - 1 : Same(m)
    BY <1>1, <1>3
  <1>5. p \in 1 .. Len(k) + 2 /\ ~Same(p) /\ \A m \in 1 .. p - 1 : Same(m)
    BY <1>4 DEF Parting
  <1>6. p # 1 => p - 1 \in 1 .. p - 1
    BY <1>1, <1>5
  <1>7. p # 1 => p - 1 < Len(d.levels)
    BY <1>5, <1>6
  <1> QED
    BY <1>1, <1>5, <1>7

\* Automaton c is e with the path of k below position p, where it leaves the
\* path of the key before.
Inserted(d, k, value, p, e, c) ==
    /\ p \in Nat /\ p >= 1
    /\ DawgInv(e) /\ Len(e.levels) \in {p, p + 1}
    /\ Len(e.levels) = IF p + 1 < Len(d.levels) THEN p + 1 ELSE Len(d.levels)
    /\ c.states = e.states /\ Len(c.levels) = Len(k) + 2
    /\ \A l \in 1 .. Len(e.levels) : l # p + 1 => c.levels[l] = e.levels[l]
    /\ p + 1 \in 1 .. Len(e.levels) =>
          c.levels[p + 1] = Append(e.levels[p + 1], Transition(k, p, value))
    /\ \A l \in Len(e.levels) + 1 .. Len(k) + 2 : c.levels[l] = <<Transition(k, l - 1, value)>>

LEMMA InsertParts ==
    ASSUME NEW d, DawgInv(d), NEW k \in Seq(1 .. MaxLabel), NEW tail, NEW value \in Int,
           NEW p, p = Parting(d, k, tail), p <= Len(k) + 1,
           NEW e, e = Flush(d, p + 1), NEW c, c = Insert(d, k, value, tail)
    PROVE  Inserted(d, k, value, p, e, c)
  <1> DEFINE new == [l \in 1 .. Len(k) + 2 |->
                       IF l > Len(e.levels) THEN <<Transition(k, l - 1, value)>>
                       ELSE IF l = p + 1 THEN Append(e.levels[l], Transition(k, p, value))
                       ELSE e.levels[l]]
             E == Len(e.levels)
  <1>1. /\ Len(k) \in Nat /\ Len(d.levels) \in Nat /\ p \in 1 .. Len(k) + 2 /\ p <= Len(d.levels)
    <2>1. Shaped(d) /\ Len(d.levels) \in Nat /\ Len(k) \in Nat
      BY DEF DawgInv, Shaped, Automata
    <2> QED
      BY <2>1, PartingIs
  <1>2. DawgInv(e) /\ E = IF p + 1 < Len(d.levels) THEN p + 1 ELSE Len(d.levels)
    <2>1. p + 1 \in Nat /\ p + 1 >= 1
      BY <1>1
    <2> QED
      BY <2>1, FlushKeeps
  <1>3. E \in {p, p + 1} /\ E \in Nat
    BY <1>1, <1>2
  <1>4. ~ (p > Len(k) + 1)
    BY <1>1
  <1>5. c = [e EXCEPT !.levels = new]
    BY <1>4 DEF Insert
  <1>6. c.levels = new /\ c.states = e.states
    BY <1>2, <1>5 DEF DawgInv, Shaped, Automata
  <1>7. DOMAIN new = 1 .. Len(k) + 2 /\ new \in Seq({new[l] : l \in 1 .. Len(k) + 2})
    <2>1. Len(k) + 2 \in Nat
      BY <1>1
    <2>2. \A l \in 1 .. Len(k) + 2 : new[l] \in {new[h] : h \in 1 .. Len(k) + 2}
      OBVIOUS
    <2> DEFINE T == {new[h] : h \in 1 .. Len(k) + 2}
               N == Len(k) + 2
    <2>3. new = [l \in 1 .. N |-> new[l]] /\ \A l \in 1 .. N : new[l] \in T
      BY <2>2
    <2> HIDE DEF new, T, N
    <2>4. DOMAIN new = 1 .. N
      BY <2>3
    <2>5. new \in Seq(T)
      BY <2>1, <2>3 DEF N
    <2> QED
      BY <2>4, <2>5 DEF T, N
  <1>8. Len(new) = Len(k) + 2
    <2> HIDE DEF new
    <2> QED
      BY <1>1, <1>7
  <1>9. \A l \in 1 .. Len(k) + 2 :
            new[l] = IF l > E THEN <<Transition(k, l - 1, value)>>
                     ELSE IF l = p + 1 THEN Append(e.levels[l], Transition(k, p, value))
                     ELSE e.levels[l]
    OBVIOUS
  <1> HIDE DEF new, E
  <1>10. \A l \in 1 .. E : l \in 1 .. Len(k) + 2 /\ ~ (l > E)
    BY <1>1, <1>3
  <1>11. \A l \in E + 1 .. Len(k) + 2 : l \in 1 .. Len(k) + 2 /\ l > E
    BY <1>1, <1>3
  <1>12. /\ \A l \in 1 .. E : l # p + 1 => c.levels[l] = e.levels[l]
         /\ p + 1 \in 1 .. E => c.levels[p + 1] = Append(e.levels[p + 1], Transition(k, p, value))
    BY <1>6, <1>9, <1>10
  <1>13. \A l \in E + 1 .. Len(k) + 2 : c.levels[l] = <<Transition(k, l - 1, value)>>
    BY <1>6, <1>9, <1>11
  <1>14. p \in Nat /\ p >= 1 /\ Len(c.levels) = Len(k) + 2 /\ c.states = e.states
    BY <1>1, <1>6, <1>8
  <1> QED
    BY <1>2, <1>3, <1>12, <1>13, <1>14 DEF E, Inserted

LEMMA TransitionType ==
    ASSUME NEW k \in Seq(1 .. MaxLabel), NEW m \in 1 .. Len(k) + 1, NEW value
    PROVE  /\ Transition(k, m, value).label = LabelAt(k, m) /\ LabelAt(k, m) \in 0 .. MaxLabel
           /\ LabelAt(k, m) = 0 <=> m = Len(k) + 1
           /\ LabelAt(k, m) = 0 => Transition(k, m, value).to = value
  <1>1. Len(k) \in Nat /\ MaxLabel \in Nat \ {0}
    BY MaxLabelAssumption
  <1>2. CASE m <= Len(k)
    <2>1. k[m] \in 1 .. MaxLabel
      BY <1>1, <1>2, ElementOfSeq
    <2> QED
      BY <1>1, <1>2, <2>1 DEF Transition, LabelAt, Read
  <1>3. CASE m = Len(k) + 1
    BY <1>1, <1>3 DEF Transition, LabelAt, Read
  <1> QED
    BY <1>1, <1>2, <1>3

LEMMA InsertValued ==
    ASSUME NEW d, DawgInv(d), Valued(d), NEW k \in Seq(1 .. MaxLabel), NEW tail, NEW value \in Nat
    PROVE  Valued(Insert(d, k, value, tail))
  <1> DEFINE p == Parting(d, k, tail)
             e == Flush(d, p + 1)
             c == Insert(d, k, value, tail)
             E == Len(e.levels)
  <1>1. CASE ~ (p <= Len(k) + 1)
    <2>1. p \in Nat /\ Len(k) \in Nat
      BY PartingIs DEF DawgInv
    <2>2. p > Len(k) + 1
      BY <1>1, <2>1
    <2> QED
      BY <2>2 DEF Insert
  <1>2. CASE p <= Len(k) + 1
    <2>0. /\ p = Parting(d, k, tail) /\ e = Flush(d, p + 1) /\ c = Insert(d, k, value, tail)
          /\ value \in Int
      OBVIOUS
    <2> HIDE DEF e, c, p
    <2>1. /\ p \in Nat /\ p >= 1 /\ DawgInv(e) /\ E \in {p, p + 1}
          /\ c.states = e.states /\ Len(c.levels) = Len(k) + 2
          /\ \A l \in 1 .. E : l # p + 1 => c.levels[l] = e.levels[l]
          /\ p + 1 \in 1 .. E => c.levels[p + 1] = Append(e.levels[p + 1], Transition(k, p, value))
          /\ \A l \in E + 1 .. Len(k) + 2 : c.levels[l] = <<Transition(k, l - 1, value)>>
      <3>1. Inserted(d, k, value, p, e, c)
        BY <1>2, <2>0, InsertParts
      <3> QED
        BY <3>1 DEF Inserted
    <2>2. Valued(e)
      <3>1. p + 1 \in Nat /\ p + 1 >= 1
        BY <2>1
      <3> QED
        BY <2>0, <3>1, FlushOrders
    <2>3. /\ \A l \in 1 .. E : e.levels[l] \in Seq(Arc) /\ Len(e.levels[l]) >= 1
          /\ Len(k) \in Nat /\ E \in Nat
      BY <2>1 DEF DawgInv, Shaped, Automata
    <2>4. ASSUME NEW l \in 1 .. Len(k) + 2, NEW m \in 1 .. Len(c.levels[l]),
                 c.levels[l][m].label = 0
          PROVE  c.levels[l][m].to \in Nat
      <3>1. CASE l \in 1 .. E /\ l # p + 1
        BY <2>1, <2>2, <2>4, <3>1 DEF Valued
      <3>2. CASE l \in 1 .. E /\ l = p + 1
        <4> DEFINE s == e.levels[p + 1]
                   t == Transition(k, p, value)
        <4>1. c.levels[l] = Append(s, t) /\ s \in Seq(Arc)
          BY <2>1, <2>3, <3>2
        <4>2. p \in 1 .. Len(k) + 1
          BY <1>2, <2>1, <2>3
        <4>3. t.label = 0 => t.to \in Nat
          BY <4>2, TransitionType
        <4>4. \A i \in 1 .. Len(s) : s[i].label = 0 => s[i].to \in Nat
          BY <2>2, <3>2 DEF Valued
        <4> HIDE DEF s, t
        <4>5. /\ Len(Append(s, t)) = Len(s) + 1 /\ Len(s) \in Nat
              /\ \A i \in 1 .. Len(s) : Append(s, t)[i] = s[i]
              /\ Append(s, t)[Len(s) + 1] = t
          BY <4>1
        <4>6. m \in 1 .. Len(s) \/ m = Len(s) + 1
          BY <4>1, <4>5
        <4> QED
          BY <2>4, <4>1, <4>3, <4>4, <4>5, <4>6
      <3>3. CASE l \in E + 1 .. Len(k) + 2
        <4>1. c.levels[l] = <<Transition(k, l - 1, value)>> /\ l - 1 \in 1 .. Len(k) + 1
          BY <2>1, <2>3, <3>3
        <4> DEFINE t == Transition(k, l - 1, value)
        <4>2. t.label = 0 => t.to \in Nat
          BY <4>1, TransitionType
        <4> HIDE DEF t
        <4>3. Len(<<t>>) = 1 /\ <<t>>[1] = t
          OBVIOUS
        <4>4. c.levels[l] = <<t>>
          BY <4>1 DEF t
        <4>5. m = 1
          BY <4>3, <4>4
        <4> QED
          BY <2>4, <4>2, <4>3, <4>4, <4>5
      <3> QED
        BY <2>3, <3>1, <3>2, <3>3
    <2>5. c.levels[1][1].label # 0
      <3>1. 1 \in 1 .. E /\ 1 # p + 1
        BY <2>1, <2>3
      <3> QED
        BY <2>1, <2>2, <3>1 DEF Valued
    <2>6. Valued(c)
      BY <2>1, <2>2, <2>4, <2>5 DEF Valued
    <2> QED
      BY <2>6 DEF c
  <1> QED
    BY <1>1, <1>2

-----------------------------------------------------------------------------
(* Keys in order. *)

LEMMA BeforeOneWay ==
    ASSUME NEW j \in Seq(1 .. MaxLabel), NEW k \in Seq(1 .. MaxLabel), Before(j, k)
    PROVE  ~Before(k, j)
  <1>1. Len(j) \in Nat /\ Len(k) \in Nat /\ MaxLabel \in Nat \ {0}
    BY MaxLabelAssumption
  <1>2. /\ \A m \in 1 .. Len(j) + 1 : LabelAt(j, m) \in Int
        /\ \A m \in 1 .. Len(k) + 1 : LabelAt(k, m) \in Int
    <2>1. \A x \in 0 .. MaxLabel : x \in Int
      BY <1>1
    <2> QED
      BY <2>1, TransitionType
  <1>3. PICK m \in 1 .. Len(j) + 1 :
            /\ \A l \in 1 .. m - 1 : LabelAt(j, l) = LabelAt(k, l)
            /\ LabelAt(j, m) < LabelAt(k, m)
    BY DEF Before
  <1>4. m <= Len(k)
    <2>1. CASE m > Len(k)
      <3>1. LabelAt(k, m) = 0 /\ LabelAt(j, m) \in 0 .. MaxLabel
        BY <1>1, <2>1, TransitionType DEF LabelAt, Read
      <3> QED
        BY <1>1, <1>3, <3>1
    <2> QED
      BY <1>1, <2>1
  <1>5. ASSUME NEW h \in 1 .. Len(k) + 1,
               \A l \in 1 .. h - 1 : LabelAt(k, l) = LabelAt(j, l),
               LabelAt(k, h) < LabelAt(j, h)
        PROVE  FALSE
    <2>1. CASE h < m
      <3>1. h \in 1 .. m - 1 /\ h \in 1 .. Len(j) + 1
        BY <1>1, <2>1
      <3> QED
        BY <1>2, <1>3, <1>5, <3>1
    <2>2. CASE h = m
      <3>1. m \in 1 .. Len(k) + 1
        BY <1>1, <1>4
      <3> QED
        BY <1>2, <1>3, <1>5, <2>2, <3>1
    <2>3. CASE h > m
      <3>1. m \in 1 .. h - 1 /\ m \in 1 .. Len(k) + 1
        BY <1>1, <2>3
      <3> QED
        BY <1>2, <1>3, <1>5, <3>1
    <2> QED
      BY <1>1, <2>1, <2>2, <2>3
  <1> QED
    BY <1>5 DEF Before

\* The open states are those on the path of key j.
Spells(d, j) ==
    /\ Len(d.levels) = Len(j) + 2
    /\ \A l \in 1 .. Len(j) + 1 : Last(d.levels[l + 1]).label = LabelAt(j, l)

\* What follows a key does not mislead insert where there is nothing, or where
\* the keys are in order.
LEMMA PartsRightly ==
    ASSUME NEW d, DawgInv(d), NEW j \in Seq(1 .. MaxLabel), Spells(d, j),
           NEW k \in Seq(1 .. MaxLabel), NEW tail, tail = 0 \/ Before(j, k),
           NEW p, p = Parting(d, k, tail)
    PROVE  /\ p \in 1 .. Len(k) + 2
           /\ \A m \in 1 .. p - 1 : /\ m <= Len(k) + 1 /\ m <= Len(j) + 1
                                    /\ LabelAt(k, m) = LabelAt(j, m)
           /\ p <= Len(k) + 1 => /\ p <= Len(j) + 1 /\ p < Len(d.levels)
                                 /\ Read(k, p, tail) = LabelAt(k, p)
                                 /\ LabelAt(k, p) # LabelAt(j, p)
                                 /\ Last(d.levels[p + 1]).label = LabelAt(j, p)
           /\ p > Len(k) + 1 => Len(j) = Len(k)
  <1>1. Len(j) \in Nat /\ Len(k) \in Nat /\ Len(d.levels) = Len(j) + 2 /\ MaxLabel \in Nat \ {0}
    BY MaxLabelAssumption DEF Spells
  <1>2. /\ p \in 1 .. Len(k) + 2 /\ p <= Len(d.levels)
        /\ p <= Len(k) + 1 /\ p < Len(d.levels) => Read(k, p, tail) # Last(d.levels[p + 1]).label
        /\ \A m \in 1 .. p - 1 : /\ m <= Len(k) + 1 /\ m < Len(d.levels)
                                 /\ Read(k, m, tail) = Last(d.levels[m + 1]).label
    <2>1. Shaped(d)
      BY DEF DawgInv
    <2> QED
      BY <2>1, PartingIs
  <1>3. \A m \in 1 .. Len(k) : Read(k, m, tail) = LabelAt(k, m)
    BY <1>1 DEF LabelAt, Read
  <1>4. \A m \in 1 .. Len(j) + 1 : Last(d.levels[m + 1]).label = LabelAt(j, m)
    BY DEF Spells
  <1>5. \A m \in 1 .. p : m <= Len(k) + 1 => Read(k, m, tail) = LabelAt(k, m)
    <2>1. CASE tail = 0
      BY <2>1 DEF LabelAt
    <2>2. CASE Before(j, k)
      <3>1. PICK b \in 1 .. Len(j) + 1 : LabelAt(j, b) < LabelAt(k, b)
        BY <2>2 DEF Before
      <3>2. b <= Len(k)
        <4>1. CASE b > Len(k)
          <5>1. LabelAt(k, b) = 0 /\ LabelAt(j, b) \in 0 .. MaxLabel
            BY <1>1, <4>1, TransitionType DEF LabelAt, Read
          <5> QED
            BY <1>1, <3>1, <5>1
        <4> QED
          BY <1>1, <4>1
      <3>3. p <= b
        <4>1. CASE b < p
          <5>1. b \in 1 .. p - 1 /\ b \in 1 .. Len(k)
            BY <1>1, <1>2, <3>2, <4>1
          <5>2. LabelAt(k, b) = LabelAt(j, b)
            BY <1>2, <1>3, <1>4, <5>1
          <5>3. LabelAt(j, b) \in 0 .. MaxLabel
            BY TransitionType
          <5> QED
            BY <1>1, <3>1, <5>2, <5>3
        <4> QED
          BY <1>1, <1>2, <4>1
      <3>4. \A m \in 1 .. p : m \in 1 .. Len(k)
        BY <1>1, <1>2, <3>2, <3>3
      <3> QED
        BY <1>3, <3>4
    <2> QED
      BY <2>1, <2>2
  <1>6. ASSUME NEW m \in 1 .. p - 1
        PROVE  /\ m <= Len(k) + 1 /\ m <= Len(j) + 1 /\ LabelAt(k, m) = LabelAt(j, m)
               /\ m \in 1 .. Len(k) + 1 /\ m \in 1 .. Len(j) + 1
    <2>1. m \in 1 .. p /\ m <= Len(k) + 1 /\ m < Len(j) + 2
      BY <1>1, <1>2
    <2>2. m \in 1 .. Len(j) + 1 /\ m \in 1 .. Len(k) + 1
      BY <1>1, <2>1
    <2>3. Read(k, m, tail) = Last(d.levels[m + 1]).label
      BY <1>2
    <2>4. Last(d.levels[m + 1]).label = LabelAt(j, m)
      BY <1>4, <2>2
    <2>5. Read(k, m, tail) = LabelAt(k, m)
      BY <1>5, <2>1
    <2>6. m <= Len(k) + 1 /\ m <= Len(j) + 1
      BY <1>1, <2>2
    <2> QED
      BY <2>2, <2>3, <2>4, <2>5, <2>6
  <1>7. ASSUME p <= Len(k) + 1
        PROVE  /\ p <= Len(j) + 1 /\ p < Len(d.levels)
               /\ Read(k, p, tail) = LabelAt(k, p) /\ LabelAt(k, p) # LabelAt(j, p)
               /\ Last(d.levels[p + 1]).label = LabelAt(j, p)
    <2>1. p <= Len(j) + 1
      <3>1. CASE p = Len(j) + 2
        <4>1. Len(j) + 1 \in 1 .. p - 1 /\ Len(j) + 1 \in 1 .. Len(j) + 1
          BY <1>1, <3>1
        <4>2. LabelAt(j, Len(j) + 1) = 0
          BY <4>1, TransitionType
        <4>3. LabelAt(k, Len(j) + 1) = 0 /\ Len(j) + 1 \in 1 .. Len(k) + 1
          BY <1>6, <4>1, <4>2
        <4>4. Len(j) + 1 = Len(k) + 1
          BY <4>3, TransitionType
        <4> QED
          BY <1>1, <1>7, <3>1, <4>4
      <3> QED
        BY <1>1, <1>2, <3>1
    <2>2. p < Len(d.levels) /\ p \in 1 .. p /\ p \in 1 .. Len(j) + 1
      BY <1>1, <1>2, <2>1
    <2> QED
      BY <1>2, <1>4, <1>5, <1>7, <2>1, <2>2
  <1>8. ASSUME p > Len(k) + 1 PROVE Len(j) = Len(k)
    <2>1. Len(k) + 1 \in 1 .. p - 1
      BY <1>1, <1>2, <1>8
    <2>2. LabelAt(k, Len(k) + 1) = 0
      <3>1. Len(k) + 1 \in 1 .. Len(k) + 1
        BY <1>1
      <3> QED
        BY <3>1, TransitionType
    <2>3. LabelAt(j, Len(k) + 1) = 0 /\ Len(k) + 1 \in 1 .. Len(j) + 1
      BY <1>6, <2>1, <2>2
    <2>4. Len(k) + 1 = Len(j) + 1
      BY <2>3, TransitionType
    <2> QED
      BY <1>1, <2>4
  <1> QED
    BY <1>2, <1>6, <1>7, <1>8

\* insert throws for a key out of order, and for nothing else in a key with
\* labels and a value.
LEMMA RefusedRightly ==
    ASSUME NEW d, DawgInv(d), NEW j \in Seq(1 .. MaxLabel), Spells(d, j),
           NEW k \in Seq(1 .. MaxLabel), NEW tail, tail = 0 \/ Before(j, k),
           NEW value \in Int
    PROVE  Refused(d, k, value, tail) <=> value < 0 \/ Len(k) = 0 \/ Before(k, j)
  <1> DEFINE p == Parting(d, k, tail)
  <1>1. /\ p \in 1 .. Len(k) + 2
        /\ \A m \in 1 .. p - 1 : /\ m <= Len(k) + 1 /\ m <= Len(j) + 1
                                 /\ LabelAt(k, m) = LabelAt(j, m)
        /\ p <= Len(k) + 1 => /\ p <= Len(j) + 1 /\ p < Len(d.levels)
                              /\ Read(k, p, tail) = LabelAt(k, p)
                              /\ LabelAt(k, p) # LabelAt(j, p)
                              /\ Last(d.levels[p + 1]).label = LabelAt(j, p)
        /\ p > Len(k) + 1 => Len(j) = Len(k)
    BY PartsRightly
  <1>2. Refused(d, k, value, tail) <=>
          \/ value < 0
          \/ Len(k) = 0
          \/ /\ p <= Len(k) + 1 /\ p < Len(d.levels)
             /\ Read(k, p, tail) < Last(d.levels[p + 1]).label
    BY DEF Refused
  <1> HIDE DEF p
  <1>3. Len(j) \in Nat /\ Len(k) \in Nat /\ MaxLabel \in Nat \ {0}
    BY MaxLabelAssumption
  <1>4. CASE p <= Len(k) + 1
    <2>1. p \in 1 .. Len(k) + 1 /\ p \in 1 .. Len(j) + 1
      BY <1>1, <1>3, <1>4
    <2>2. LabelAt(k, p) \in Int /\ LabelAt(j, p) \in Int
      <3>1. LabelAt(k, p) \in 0 .. MaxLabel /\ LabelAt(j, p) \in 0 .. MaxLabel
        BY <2>1, TransitionType
      <3> QED
        BY <1>3, <3>1
    <2>3. LabelAt(k, p) < LabelAt(j, p) => Before(k, j)
      BY <1>1, <2>1 DEF Before
    <2>4. LabelAt(j, p) < LabelAt(k, p) => Before(j, k)
      BY <1>1, <2>1 DEF Before
    <2>5. LabelAt(k, p) < LabelAt(j, p) <=> Before(k, j)
      BY <1>1, <1>4, <2>2, <2>3, <2>4, BeforeOneWay
    <2> QED
      BY <1>1, <1>2, <1>4, <2>5
  <1>5. CASE p > Len(k) + 1
    <2>1. ~Before(k, j)
      <3> SUFFICES ASSUME NEW m \in 1 .. Len(k) + 1, LabelAt(k, m) < LabelAt(j, m) PROVE FALSE
        BY DEF Before
      <3>1. m \in 1 .. p - 1
        BY <1>1, <1>3, <1>5
      <3>2. LabelAt(k, m) = LabelAt(j, m) /\ LabelAt(k, m) \in 0 .. MaxLabel
        BY <1>1, <3>1, TransitionType
      <3> QED
        BY <1>3, <3>2
    <2>2. ~ (p <= Len(k) + 1)
      BY <1>1, <1>3, <1>5
    <2> QED
      BY <1>2, <2>1, <2>2
  <1> QED
    BY <1>1, <1>3, <1>4, <1>5

\* The transitions of every state stay in the order of their labels.
LEMMA InsertOrders ==
    ASSUME NEW d, DawgInv(d), Ascends(d), NEW k \in Seq(1 .. MaxLabel), NEW tail, NEW value \in Int,
           NEW p, p = Parting(d, k, tail),
           NEW c, c = Insert(d, k, value, tail),
           p <= Len(k) + 1, p < Len(d.levels) => Last(d.levels[p + 1]).label < LabelAt(k, p),
           \A m \in 1 .. p - 1 : Last(d.levels[m + 1]).label = LabelAt(k, m)
    PROVE  Ascends(c) /\ Spells(c, k)
  <1> DEFINE e == Flush(d, p + 1)
             E == Len(e.levels)
  <1>1. Inserted(d, k, value, p, e, c)
    <2>1. e = Flush(d, p + 1)
      OBVIOUS
    <2> HIDE DEF e
    <2> QED
      BY <2>1, InsertParts
  <1>2. SameLabels(d, e) /\ Ascends(e)
    <2>1. p + 1 \in Nat /\ p + 1 >= 1
      BY <1>1 DEF Inserted
    <2>2. e = Flush(d, p + 1)
      OBVIOUS
    <2> HIDE DEF e
    <2> QED
      BY <2>1, <2>2, FlushOrders
  <1> HIDE DEF e
  <1>3. /\ p \in Nat /\ p >= 1 /\ E \in {p, p + 1} /\ DawgInv(e)
        /\ E = IF p + 1 < Len(d.levels) THEN p + 1 ELSE Len(d.levels)
        /\ c.states = e.states /\ Len(c.levels) = Len(k) + 2
        /\ \A l \in 1 .. E : l # p + 1 => c.levels[l] = e.levels[l]
        /\ p + 1 \in 1 .. E => c.levels[p + 1] = Append(e.levels[p + 1], Transition(k, p, value))
        /\ \A l \in E + 1 .. Len(k) + 2 : c.levels[l] = <<Transition(k, l - 1, value)>>
    BY <1>1 DEF Inserted
  <1>4. /\ \A l \in 1 .. E : /\ e.levels[l] \in Seq(Arc) /\ Len(e.levels[l]) >= 1
                             /\ Len(e.levels[l]) \in Nat
        /\ Len(k) \in Nat /\ E \in Nat /\ Len(d.levels) \in Nat
    <2>1. e.levels \in Seq(Seq(Arc)) /\ \A l \in 1 .. E : Len(e.levels[l]) >= 1
      BY <1>3 DEF DawgInv, Shaped, Automata
    <2>2. Len(d.levels) \in Nat
      BY DEF DawgInv, Shaped, Automata
    <2>3. \A l \in 1 .. E : e.levels[l] \in Seq(Arc)
      BY <2>1, ElementOfSeq
    <2>4. Len(k) \in Nat /\ E \in Nat
      BY <2>1
    <2> QED
      BY <2>1, <2>2, <2>3, <2>4
  \* The label of the last transition of an open state that is left.
  <1>5. \A l \in 1 .. E : Last(e.levels[l]).label = Last(d.levels[l]).label
    <2> SUFFICES ASSUME NEW l \in 1 .. E PROVE Last(e.levels[l]).label = Last(d.levels[l]).label
      OBVIOUS
    <2>1. Len(e.levels[l]) = Len(d.levels[l]) /\ Len(e.levels[l]) \in 1 .. Len(d.levels[l])
      BY <1>2, <1>4 DEF SameLabels
    <2> QED
      BY <1>2, <2>1 DEF SameLabels, Last
  <1>6. ASSUME p + 1 \in 1 .. E
        PROVE  Rising(c.levels[p + 1]) /\ Last(c.levels[p + 1]).label = LabelAt(k, p)
    <2> DEFINE s == e.levels[p + 1]
               t == Transition(k, p, value)
               N == Len(s)
    <2>1. /\ c.levels[p + 1] = Append(s, t) /\ s \in Seq(Arc) /\ N \in Nat /\ N >= 1
          /\ N \in 1 .. N
      BY <1>3, <1>4, <1>6
    <2>2. t.label = LabelAt(k, p) /\ LabelAt(k, p) \in 0 .. MaxLabel
      <3>1. p \in 1 .. Len(k) + 1
        BY <1>3, <1>4
      <3> QED
        BY <3>1, TransitionType
    <2>3. s[N].label < t.label
      <3>1. p < Len(d.levels)
        BY <1>3, <1>4, <1>6
      <3>2. Last(s).label < LabelAt(k, p)
        BY <1>5, <1>6, <3>1
      <3> QED
        BY <2>2, <3>2 DEF Last
    <2>4. Rising(s)
      BY <1>2, <1>6 DEF Ascends
    <2>5. \A i \in 1 .. N : s[i].label \in Int
      <3>1. MaxLabel \in Nat
        BY MaxLabelAssumption
      <3>2. \A i \in 1 .. N : s[i] \in Arc
        BY <2>1, ElementOfSeq
      <3> QED
        BY <3>1, <3>2 DEF Arc
    <2> HIDE DEF s, t
    <2>6. /\ Len(Append(s, t)) = N + 1
          /\ \A i \in 1 .. N : Append(s, t)[i] = s[i]
          /\ Append(s, t)[N + 1] = t
      BY <2>1
    <2>7. Last(c.levels[p + 1]).label = LabelAt(k, p)
      BY <2>1, <2>2, <2>6 DEF Last
    <2>8. ASSUME NEW i \in 1 .. N + 1, NEW h \in 1 .. N + 1, i < h
          PROVE  Append(s, t)[i].label < Append(s, t)[h].label
      <3>1. i \in 1 .. N
        BY <2>1, <2>8
      <3>2. CASE h \in 1 .. N
        BY <2>4, <2>6, <2>8, <3>1, <3>2 DEF Rising
      <3>3. CASE h = N + 1
        <4>1. MaxLabel \in Nat
          BY MaxLabelAssumption
        <4>2. CASE i = N
          BY <2>3, <2>6, <3>1, <3>3, <4>2
        <4>3. CASE i # N
          <5>1. s[i].label < s[N].label
            BY <2>1, <2>4, <3>1, <4>3 DEF Rising
          <5>2. s[i].label \in Int /\ s[N].label \in Int /\ t.label \in Int
            BY <2>1, <2>2, <2>5, <3>1, <4>1
          <5> QED
            BY <2>3, <2>6, <3>1, <3>3, <5>1, <5>2
        <4> QED
          BY <4>2, <4>3
      <3> QED
        BY <2>1, <3>2, <3>3
    <2> QED
      BY <2>1, <2>6, <2>7, <2>8 DEF Rising
  <1>7. ASSUME NEW l \in E + 1 .. Len(k) + 2
        PROVE  Rising(c.levels[l]) /\ Last(c.levels[l]).label = LabelAt(k, l - 1)
    <2> DEFINE t == Transition(k, l - 1, value)
    <2>1. c.levels[l] = <<t>> /\ l - 1 \in 1 .. Len(k) + 1
      BY <1>3, <1>4, <1>7, SMTT(30)
    <2>2. t.label = LabelAt(k, l - 1)
      BY <2>1, TransitionType
    <2> HIDE DEF t
    <2>3. Len(<<t>>) = 1 /\ <<t>>[1] = t
      OBVIOUS
    <2>4. Last(<<t>>) = t
      BY <2>3 DEF Last
    <2>5. Rising(<<t>>)
      BY <2>3 DEF Rising
    <2> QED
      BY <2>1, <2>2, <2>4, <2>5
  <1>8. Ascends(c)
    <2>1. ASSUME NEW l \in 1 .. Len(k) + 2 PROVE Rising(c.levels[l])
      <3>1. CASE l \in 1 .. E /\ l # p + 1
        BY <1>2, <1>3, <3>1 DEF Ascends
      <3>2. CASE l \in 1 .. E /\ l = p + 1
        BY <1>6, <3>2
      <3>3. CASE l \in E + 1 .. Len(k) + 2
        BY <1>7, <3>3
      <3> QED
        BY <1>4, <3>1, <3>2, <3>3
    <2> QED
      BY <1>2, <1>3, <2>1 DEF Ascends
  <1>9. Spells(c, k)
    <2> SUFFICES ASSUME NEW m \in 1 .. Len(k) + 1
                 PROVE  Last(c.levels[m + 1]).label = LabelAt(k, m)
      BY <1>3 DEF Spells
    <2>1. CASE m + 1 \in 1 .. E /\ m # p
      <3>1. m \in 1 .. p - 1 /\ m + 1 # p + 1
        BY <1>3, <1>4, <2>1
      <3> QED
        BY <1>3, <1>5, <2>1, <3>1
    <2>2. CASE m + 1 \in 1 .. E /\ m = p
      BY <1>6, <2>2
    <2>3. CASE m + 1 \in E + 1 .. Len(k) + 2
      <3>1. (m + 1) - 1 = m
        BY <1>4
      <3> QED
        BY <1>7, <2>3, <3>1
    <2> QED
      BY <1>4, <2>1, <2>2, <2>3
  <1> QED
    BY <1>8, <1>9

-----------------------------------------------------------------------------
(* Inserting the keys. *)

LEMMA InitOrders == Valued(InitDawg) /\ Ascends(InitDawg)
  <1> DEFINE d == InitDawg
  <1>1. /\ d.levels = << <<[label |-> MaxLabel, to |-> 0]>> >> /\ d.states = <<>>
    BY DEF InitDawg
  <1>2. /\ Len(d.levels) = 1 /\ Len(d.levels[1]) = 1 /\ Len(d.states) = 0
        /\ d.levels[1][1].label = MaxLabel /\ MaxLabel # 0
    BY <1>1, MaxLabelAssumption
  <1> HIDE DEF d
  <1>3. \A l \in 1 .. Len(d.levels) : l = 1
    BY <1>2
  <1>4. \A m \in 1 .. Len(d.levels[1]) : m = 1
    BY <1>2
  <1>5. Valued(d)
    BY <1>2, <1>3, <1>4 DEF Valued
  <1>6. Rising(d.levels[1])
    BY <1>4 DEF Rising
  <1>7. Ascends(d)
    BY <1>2, <1>3, <1>6 DEF Ascends
  <1> QED
    BY <1>5, <1>7 DEF d

\* The first key.
LEMMA InsertFirst ==
    ASSUME NEW k \in Seq(1 .. MaxLabel), NEW tail, NEW value \in Int
    PROVE  /\ Refused(InitDawg, k, value, tail) <=> value < 0 \/ Len(k) = 0
           /\ Ascends(Insert(InitDawg, k, value, tail)) /\ Spells(Insert(InitDawg, k, value, tail), k)
  <1> DEFINE d == InitDawg
             p == Parting(d, k, tail)
             c == Insert(d, k, value, tail)
  <1>1. Len(d.levels) = 1 /\ DawgInv(d) /\ Shaped(d) /\ Ascends(d) /\ Len(k) \in Nat
    <2>1. d.levels = << <<[label |-> MaxLabel, to |-> 0]>> >>
      BY DEF InitDawg
    <2> QED
      BY <2>1, InitDawgInv, InitOrders DEF DawgInv
  <1>2. p = 1
    <2>1. p \in 1 .. Len(k) + 2 /\ p <= Len(d.levels)
      BY <1>1, PartingIs
    <2> QED
      BY <1>1, <2>1
  <1>3. p = Parting(d, k, tail) /\ c = Insert(d, k, value, tail)
    OBVIOUS
  <1>4. Refused(d, k, value, tail) <=>
          \/ value < 0
          \/ Len(k) = 0
          \/ /\ p <= Len(k) + 1 /\ p < Len(d.levels)
             /\ Read(k, p, tail) < Last(d.levels[p + 1]).label
    BY DEF Refused
  <1> HIDE DEF p, c, d
  <1>5. p <= Len(k) + 1 /\ ~ (p < Len(d.levels)) /\ \A m \in 1 .. p - 1 : FALSE
    BY <1>1, <1>2
  <1>6. Ascends(c) /\ Spells(c, k)
    BY <1>1, <1>3, <1>5, InsertOrders
  <1> QED
    BY <1>4, <1>5, <1>6 DEF c, d

\* A key that is not out of order.
LEMMA InsertNext ==
    ASSUME NEW d, DawgInv(d), Ascends(d), NEW j \in Seq(1 .. MaxLabel), Spells(d, j),
           NEW k \in Seq(1 .. MaxLabel), NEW tail, tail = 0 \/ Before(j, k),
           NEW value \in Int, ~Refused(d, k, value, tail), NEW c, c = Insert(d, k, value, tail)
    PROVE  Ascends(c) /\ Spells(c, k)
  <1> DEFINE p == Parting(d, k, tail)
  <1>0. p = Parting(d, k, tail)
    OBVIOUS
  <1>1. /\ p \in 1 .. Len(k) + 2
        /\ \A m \in 1 .. p - 1 : /\ m <= Len(k) + 1 /\ m <= Len(j) + 1
                                 /\ LabelAt(k, m) = LabelAt(j, m)
        /\ p <= Len(k) + 1 => /\ p <= Len(j) + 1 /\ p < Len(d.levels)
                              /\ Read(k, p, tail) = LabelAt(k, p)
                              /\ LabelAt(k, p) # LabelAt(j, p)
                              /\ Last(d.levels[p + 1]).label = LabelAt(j, p)
        /\ p > Len(k) + 1 => Len(j) = Len(k)
    BY PartsRightly
  <1>2. p > Len(k) + 1 => c = d
    BY DEF Insert
  <1>3. ~ /\ p <= Len(k) + 1 /\ p < Len(d.levels)
          /\ Read(k, p, tail) < Last(d.levels[p + 1]).label
    BY DEF Refused
  <1> HIDE DEF p
  <1>4. Len(j) \in Nat /\ Len(k) \in Nat /\ MaxLabel \in Nat \ {0}
    BY MaxLabelAssumption
  <1>5. \A m \in 1 .. Len(j) + 1 : Last(d.levels[m + 1]).label = LabelAt(j, m)
    BY DEF Spells
  <1>6. CASE p <= Len(k) + 1
    <2>1. p \in 1 .. Len(k) + 1 /\ p \in 1 .. Len(j) + 1
      BY <1>1, <1>4, <1>6
    <2>2. LabelAt(k, p) \in Int /\ LabelAt(j, p) \in Int
      <3>1. LabelAt(k, p) \in 0 .. MaxLabel /\ LabelAt(j, p) \in 0 .. MaxLabel
        BY <2>1, TransitionType
      <3> QED
        BY <1>4, <3>1
    <2>3. Last(d.levels[p + 1]).label < LabelAt(k, p)
      BY <1>1, <1>3, <1>6, <2>2
    <2>4. \A m \in 1 .. p - 1 : Last(d.levels[m + 1]).label = LabelAt(k, m)
      <3>1. \A m \in 1 .. p - 1 : m \in 1 .. Len(j) + 1
        BY <1>1, <1>4
      <3> QED
        BY <1>1, <1>5, <3>1
    <2> QED
      BY <1>0, <1>6, <2>3, <2>4, InsertOrders
  <1>7. CASE p > Len(k) + 1
    <2>1. \A m \in 1 .. Len(k) + 1 : m \in 1 .. p - 1
      BY <1>1, <1>4, <1>7
    <2>2. Spells(d, k)
      BY <1>1, <1>5, <1>7, <2>1 DEF Spells
    <2> QED
      BY <1>2, <1>7, <2>2
  <1> QED
    BY <1>1, <1>4, <1>6, <1>7

\* A key and its value that build takes, after the keys before.
Fine(m) ==
    /\ input.values[m] >= 0 /\ Len(input.keys[m]) # 0
    /\ m >= 2 => ~Before(input.keys[m], input.keys[m - 1])

\* What the automaton says of the keys inserted; and where insert is not misled,
\* the last of them is the path of open states, all were in order, and insert
\* threw only for a key that was not.
KeysInv ==
    /\ AutomatonInv
    /\ Valued(dawg)
    /\ stage = "insert" /\ n = 0 => dawg = InitDawg
    /\ ~Misled /\ Len(input.values) > 0 =>
          /\ Ascends(dawg)
          /\ stage = "insert" /\ n > 0 => Spells(dawg, input.keys[n])
          /\ stage = "insert" => \A m \in 1 .. n : Fine(m)
          /\ stage \in {"start", "arrange", "done"} => \A m \in 1 .. Len(input.keys) : Fine(m)

LEMMA BuildInitKeys == BuildInit => KeysInv
  <1> SUFFICES ASSUME BuildInit PROVE KeysInv
    OBVIOUS
  <1>1. AutomatonInv
    BY BuildInitAutomaton
  <1>2. n = 0 /\ dawg = InitDawg /\ \A m \in 1 .. 0 : FALSE
    BY DEF BuildInit
  <1>3. Len(input.values) > 0 => stage = "insert"
    BY DEF BuildInit
  <1> QED
    BY <1>1, <1>2, <1>3, InitOrders DEF KeysInv

\* insert, where it is not misled.
LEMMA InsertsRightly ==
    ASSUME KeysInv, InsertKey, ~Misled, stage = "insert"
    PROVE  /\ stage' = "insert" => /\ Ascends(dawg') /\ Spells(dawg', input.keys[n + 1])
                                   /\ \A m \in 1 .. n + 1 : Fine(m)
           /\ stage' = "error" => UNCHANGED dawg /\ ~Fine(n + 1)
  <1> DEFINE k == input.keys[n + 1]
             v == input.values[n + 1]
             j == input.keys[n]
             c == Insert(dawg, k, v, input.tail)
  <1>1. /\ n \in Nat /\ n + 1 \in 1 .. Len(input.keys) /\ n' = n + 1 /\ Len(input.values) > 0
        /\ k \in Seq(1 .. MaxLabel) /\ v \in Int /\ DawgInv(dawg) /\ input \in Inputs
    <2>1. n \in Nat /\ n + 1 \in 1 .. Len(input.keys) /\ n' = n + 1
      BY InputTypes DEF KeysInv, AutomatonInv, InsertKey
    <2>2. DawgInv(dawg) /\ input \in Inputs /\ Len(input.values) > 0
      BY DEF KeysInv, AutomatonInv
    <2>3. k \in Seq(1 .. MaxLabel) /\ v \in Int
      BY <2>1, <2>2, InputTypes
    <2> QED
      BY <2>1, <2>2, <2>3
  <1>2. IF Refused(dawg, k, v, input.tail) THEN stage' = "error" /\ UNCHANGED dawg
        ELSE dawg' = c /\ UNCHANGED stage
    BY <1>1 DEF InsertKey
  <1>3. Ascends(dawg) /\ (n > 0 => Spells(dawg, j)) /\ \A m \in 1 .. n : Fine(m)
    BY <1>1 DEF KeysInv
  <1>4. /\ Refused(dawg, k, v, input.tail) <=> ~Fine(n + 1)
        /\ ~Refused(dawg, k, v, input.tail) => Ascends(c) /\ Spells(c, k)
    <2>1. CASE n = 0
      <3>1. dawg = InitDawg
        BY <2>1 DEF KeysInv
      <3>2. Fine(n + 1) <=> v >= 0 /\ Len(k) # 0
        BY <2>1 DEF Fine
      <3>3. /\ Refused(InitDawg, k, v, input.tail) <=> v < 0 \/ Len(k) = 0
            /\ Ascends(Insert(InitDawg, k, v, input.tail))
            /\ Spells(Insert(InitDawg, k, v, input.tail), k)
        BY <1>1, InsertFirst
      <3>4. v < 0 <=> ~ (v >= 0)
        BY <1>1
      <3> QED
        BY <3>1, <3>2, <3>3, <3>4
    <2>2. CASE n # 0
      <3>1. n \in 1 .. Len(input.keys) /\ n + 1 \in 2 .. Len(input.keys) /\ (n + 1) - 1 = n
        BY <1>1, <2>2, InputTypes
      <3>2. j \in Seq(1 .. MaxLabel) /\ Spells(dawg, j)
        BY <1>1, <1>3, <3>1, InputTypes
      <3>3. input.tail = 0 \/ Before(j, k)
        <4>1. Len(input.values) > 0
          BY <1>1
        <4>2. input.tail # 0 => \A m \in 2 .. Len(input.keys) : Before(input.keys[m - 1], input.keys[m])
          BY <4>1 DEF Misled
        <4> QED
          BY <3>1, <4>2
      <3>4. Fine(n + 1) <=> v >= 0 /\ Len(k) # 0 /\ ~Before(k, j)
        BY <3>1 DEF Fine
      <3>5. Refused(dawg, k, v, input.tail) <=> v < 0 \/ Len(k) = 0 \/ Before(k, j)
        BY <1>1, <3>2, <3>3, RefusedRightly
      <3>6. v < 0 <=> ~ (v >= 0)
        BY <1>1
      <3>7. ~Refused(dawg, k, v, input.tail) => Ascends(c) /\ Spells(c, k)
        <4>1. c = Insert(dawg, k, v, input.tail)
          OBVIOUS
        <4> HIDE DEF c, k, v, j
        <4> QED
          BY <1>1, <1>3, <3>2, <3>3, <4>1, InsertNext
      <3> QED
        BY <3>4, <3>5, <3>6, <3>7
    <2> QED
      BY <2>1, <2>2
  <1>5. \A m \in 1 .. n + 1 : m \in 1 .. n \/ m = n + 1
    BY <1>1
  <1> HIDE DEF c, k, v, j
  <1>6. CASE Refused(dawg, k, v, input.tail)
    BY <1>2, <1>4, <1>6
  <1>7. CASE ~Refused(dawg, k, v, input.tail)
    <2>1. dawg' = c /\ Ascends(c) /\ Spells(c, k) /\ Fine(n + 1) /\ stage' = "insert"
      BY <1>2, <1>4, <1>7
    <2> QED
      BY <1>3, <1>5, <2>1 DEF k
  <1> QED
    BY <1>6, <1>7

LEMMA KeysKept == KeysInv /\ [BuildNext]_buildVars => KeysInv'
  <1> SUFFICES ASSUME KeysInv, [BuildNext]_buildVars PROVE KeysInv'
    OBVIOUS
  <1>0. AutomatonInv'
    BY AutomatonKept DEF KeysInv
  <1>1. CASE InsertKey
    <2>1. /\ input' = input /\ n' = n + 1 /\ n + 1 \in 1 .. Len(input.keys) /\ stage = "insert"
          /\ n \in Nat /\ stage' \in {"insert", "error"} /\ n + 1 # 0
      BY <1>1, InputTypes DEF InsertKey, KeysInv, AutomatonInv
    <2>2. input.keys[n + 1] \in Seq(1 .. MaxLabel) /\ input.values[n + 1] \in Int
      BY <2>1, InputTypes DEF KeysInv, AutomatonInv
    <2>3. Valued(dawg')
      <3> DEFINE k == input.keys[n + 1]
                 v == input.values[n + 1]
      <3>1. \/ dawg' = dawg
            \/ dawg' = Insert(dawg, k, v, input.tail) /\ ~Refused(dawg, k, v, input.tail)
        BY <1>1, <2>1 DEF InsertKey
      <3>2. ~Refused(dawg, k, v, input.tail) => v >= 0
        BY <2>2 DEF Refused
      <3> HIDE DEF k, v
      <3>3. k \in Seq(1 .. MaxLabel) /\ v \in Int
        BY <2>2 DEF k, v
      <3>4. v >= 0 => v \in Nat
        BY <3>3
      <3>5. Valued(dawg) /\ DawgInv(dawg)
        BY DEF KeysInv, AutomatonInv
      <3> QED
        BY <3>1, <3>2, <3>3, <3>4, <3>5, InsertValued
    <2>4. ASSUME ~Misled
          PROVE  /\ Ascends(dawg')
                 /\ stage' = "insert" => Spells(dawg', input.keys[n + 1])
                 /\ stage' = "insert" => \A m \in 1 .. n + 1 : Fine(m)
      <3>1. Ascends(dawg)
        BY <2>1, <2>4 DEF KeysInv, AutomatonInv
      <3> QED
        BY <1>1, <2>1, <2>4, <3>1, InsertsRightly
    <2>5. Misled' <=> Misled
      BY <2>1 DEF Misled
    <2>6. \A m : Fine(m)' <=> Fine(m)
      BY <2>1 DEF Fine
    <2> QED
      BY <1>0, <2>1, <2>3, <2>4, <2>5, <2>6 DEF KeysInv
  <1>2. CASE FinishDawg
    <2>1. /\ UNCHANGED <<input, n>> /\ stage = "insert" /\ stage' = "start"
          /\ n = Len(input.keys) /\ dawg' = Flush(dawg, 1)
      BY <1>2 DEF FinishDawg, Finish
    <2>2. DawgInv(dawg) /\ Valued(dawg)
      BY DEF KeysInv, AutomatonInv
    <2>3. Valued(dawg') /\ (Ascends(dawg) => Ascends(dawg'))
      BY <2>1, <2>2, FlushOrders
    <2>4. Misled' <=> Misled
      BY <2>1 DEF Misled
    <2>5. \A m : Fine(m)' <=> Fine(m)
      BY <2>1 DEF Fine
    <2> QED
      BY <1>0, <2>1, <2>3, <2>4, <2>5 DEF KeysInv
  <1>3. ASSUME PlaceRoot \/ ReuseState \/ ArrangeState \/ ArrangeKeys \/ FixAll PROVE KeysInv'
    <2>1. /\ UNCHANGED <<input, n, dawg>> /\ stage \in {"start", "arrange"}
          /\ stage' \in {"arrange", "error", "done"}
      BY <1>3 DEF PlaceRoot, ReuseState, ArrangeState, ArrangeKeys, FixAll
    <2>2. Misled' <=> Misled
      BY <2>1 DEF Misled
    <2>3. \A m : Fine(m)' <=> Fine(m)
      BY <2>1 DEF Fine
    <2> QED
      BY <1>0, <2>1, <2>2, <2>3 DEF KeysInv
  <1>4. CASE UNCHANGED buildVars
    <2>1. Misled' <=> Misled
      BY <1>4 DEF Misled, buildVars
    <2>2. \A m : Fine(m)' <=> Fine(m)
      BY <1>4 DEF Fine, buildVars
    <2> QED
      BY <1>0, <1>4, <2>1, <2>2 DEF KeysInv, buildVars
  <1> QED
    BY <1>1, <1>2, <1>3, <1>4 DEF BuildNext

-----------------------------------------------------------------------------
(* Words: the labels of a key, the 0 that ends it and then its value, for    *)
(* ever.  What a place of the dictionary stands for is a set of words, those *)
(* of the keys that pass it without the labels before it.                    *)

Words == [Nat -> Nat]
Drop(x, d) == [i \in Nat |-> x[i + d]]
Const(v) == [i \in Nat |-> v]
Led(l, x) == [i \in Nat |-> IF i = 0 THEN l ELSE x[i - 1]]
KeyWord(k, v) == [i \in Nat |-> IF i < Len(k) THEN k[i + 1] ELSE IF i = Len(k) THEN 0 ELSE v]

LEMMA DropIs ==
    ASSUME NEW x \in Words, NEW d \in Nat
    PROVE  /\ Drop(x, d) \in Words /\ \A i \in Nat : Drop(x, d)[i] = x[i + d]
           /\ Drop(x, 0) = x
           /\ \A e \in Nat : Drop(Drop(x, d), e) = Drop(x, d + e)
  <1>1. Drop(x, d) \in Words /\ \A i \in Nat : Drop(x, d)[i] = x[i + d]
    BY DEF Drop, Words
  <1>2. Drop(x, 0) = x
    <2>1. \A i \in Nat : x[i + 0] = x[i]
      OBVIOUS
    <2>2. x = [i \in Nat |-> x[i]]
      BY DEF Words
    <2> QED
      BY <2>1, <2>2 DEF Drop
  <1>3. ASSUME NEW e \in Nat PROVE Drop(Drop(x, d), e) = Drop(x, d + e)
    <2>1. \A i \in Nat : Drop(x, d)[i + e] = x[i + (d + e)]
      <3>1. \A i \in Nat : i + e \in Nat /\ i + e + d = i + (d + e)
        OBVIOUS
      <3> QED
        BY <1>1, <3>1
    <2> QED
      BY <2>1 DEF Drop
  <1> QED
    BY <1>1, <1>2, <1>3

\* A word is its first label and the rest.
LEMMA WordSplit ==
    ASSUME NEW x \in Words, NEW y \in Words, x[0] = y[0], Drop(x, 1) = Drop(y, 1)
    PROVE  x = y
  <1>1. \A i \in Nat : x[i] = y[i]
    <2> TAKE i \in Nat
    <2>1. CASE i = 0
      BY <2>1
    <2>2. CASE i # 0
      <3>1. i - 1 \in Nat /\ (i - 1) + 1 = i
        BY <2>2
      <3>2. \A z \in Words : Drop(z, 1)[i - 1] = z[(i - 1) + 1]
        BY <3>1, DropIs
      <3> QED
        BY <3>1, <3>2
    <2> QED
      BY <2>1, <2>2
  <1> QED
    BY <1>1 DEF Words

LEMMA LedIs ==
    ASSUME NEW l \in Nat, NEW x \in Words
    PROVE  Led(l, x) \in Words /\ Led(l, x)[0] = l /\ Drop(Led(l, x), 1) = x
  <1>1. Led(l, x) \in Words /\ Led(l, x)[0] = l
    BY DEF Led, Words
  <1>2. \A i \in Nat : Drop(Led(l, x), 1)[i] = x[i]
    <2> TAKE i \in Nat
    <2>1. i + 1 \in Nat /\ i + 1 # 0 /\ (i + 1) - 1 = i
      OBVIOUS
    <2>2. Led(l, x)[i + 1] = x[i]
      BY <2>1 DEF Led
    <2> QED
      BY <1>1, <2>2, DropIs
  <1>3. Drop(Led(l, x), 1) \in Words
    BY <1>1, DropIs
  <1> QED
    BY <1>1, <1>2, <1>3 DEF Words

LEMMA ConstIs ==
    ASSUME NEW v \in Nat
    PROVE  Const(v) \in Words /\ \A i \in Nat : Const(v)[i] = v
  BY DEF Const, Words

LEMMA KeyWordIs ==
    ASSUME NEW k \in Seq(1 .. MaxLabel), NEW v \in Nat, NEW w, w = KeyWord(k, v)
    PROVE  /\ w \in Words
           /\ \A i \in 0 .. Len(k) : w[i] = LabelAt(k, i + 1) /\ (w[i] = 0 <=> i = Len(k))
           /\ Drop(w, Len(k) + 1) = Const(v) /\ w[Len(k) + 1] = v
  <1>1. Len(k) \in Nat /\ MaxLabel \in Nat /\ \A i \in 1 .. Len(k) : k[i] \in 1 .. MaxLabel
    BY MaxLabelAssumption
  <1>2. \A i \in Nat : i < Len(k) => i + 1 \in 1 .. Len(k)
    BY <1>1
  <1>3. w \in Words
    BY <1>1, <1>2 DEF KeyWord, Words
  <1>4. ASSUME NEW i \in 0 .. Len(k)
        PROVE  w[i] = LabelAt(k, i + 1) /\ (w[i] = 0 <=> i = Len(k))
    <2>1. i \in Nat /\ (i < Len(k) => i + 1 \in 1 .. Len(k) /\ i + 1 <= Len(k) /\ k[i + 1] # 0)
      BY <1>1
    <2>2. w[i] = IF i < Len(k) THEN k[i + 1] ELSE 0
      BY <1>1, <2>1 DEF KeyWord
    <2> QED
      BY <1>1, <2>1, <2>2 DEF LabelAt, Read
  <1>5. Drop(w, Len(k) + 1) = Const(v) /\ w[Len(k) + 1] = v
    <2>1. \A i \in Nat : w[i + (Len(k) + 1)] = v
      <3> TAKE i \in Nat
      <3>1. i + (Len(k) + 1) \in Nat /\ ~ (i + (Len(k) + 1) < Len(k)) /\ i + (Len(k) + 1) # Len(k)
        BY <1>1
      <3> QED
        BY <3>1 DEF KeyWord
    <2>2. 0 + (Len(k) + 1) = Len(k) + 1 /\ 0 \in Nat
      BY <1>1
    <2> QED
      BY <2>1, <2>2 DEF Drop, Const
  <1> QED
    BY <1>3, <1>4, <1>5

\* The same word comes of the same key only.
LEMMA KeyWordOnly ==
    ASSUME NEW j \in Seq(1 .. MaxLabel), NEW k \in Seq(1 .. MaxLabel), NEW v \in Nat, NEW w \in Nat,
           KeyWord(j, v) = KeyWord(k, w)
    PROVE  j = k /\ v = w
  <1>1. Len(j) \in Nat /\ Len(k) \in Nat
    OBVIOUS
  <1>2. Len(j) = Len(k)
    <2>1. ASSUME NEW a \in Seq(1 .. MaxLabel), NEW b \in Seq(1 .. MaxLabel), NEW x \in Nat, NEW y \in Nat,
                 KeyWord(a, x) = KeyWord(b, y)
          PROVE  ~ (Len(a) < Len(b))
      <3> SUFFICES ASSUME Len(a) < Len(b) PROVE FALSE
        OBVIOUS
      <3>1. Len(a) \in Nat /\ Len(b) \in Nat /\ Len(a) \in 0 .. Len(a) /\ Len(a) \in 0 .. Len(b)
        OBVIOUS
      <3>2. KeyWord(a, x)[Len(a)] = 0
        BY <3>1, KeyWordIs
      <3>3. KeyWord(b, y)[Len(a)] # 0
        BY <3>1, KeyWordIs
      <3> QED
        BY <2>1, <3>2, <3>3
    <2> QED
      BY <1>1, <2>1
  <1>3. \A i \in 1 .. Len(j) : j[i] = k[i]
    <2> TAKE i \in 1 .. Len(j)
    <2>1. i - 1 \in 0 .. Len(j) /\ i - 1 \in 0 .. Len(k) /\ (i - 1) + 1 = i /\ i \in 1 .. Len(k)
      BY <1>1, <1>2
    <2>2. KeyWord(j, v)[i - 1] = LabelAt(j, i) /\ KeyWord(k, w)[i - 1] = LabelAt(k, i)
      BY <2>1, KeyWordIs
    <2> QED
      BY <1>1, <2>1, <2>2 DEF LabelAt, Read
  <1>4. v = w
    <2>1. KeyWord(j, v)[Len(j) + 1] = v /\ KeyWord(k, w)[Len(k) + 1] = w
      BY KeyWordIs
    <2> QED
      BY <1>2, <2>1
  <1> QED
    BY <1>2, <1>3, <1>4

\* What follows an arc: after the end of a key its value, after an arc to a state
\* the words of that state, after one still open those of the next level.
Beyond(arc, F, X) ==
    IF arc.label = 0 THEN {Const(arc.to)} ELSE IF arc.to = 0 THEN X ELSE F[arc.to]

StateWords(arcs, F, X) ==
    {y \in Words : \E m \in 1 .. Len(arcs) :
        y[0] = arcs[m].label /\ Drop(y, 1) \in Beyond(arcs[m], F, X)}

\* F gives the words of each closed state, G those of each open one.
Denotes(d, F, G) ==
    /\ F \in [1 .. Len(d.states) -> SUBSET Words]
    /\ \A s \in 1 .. Len(d.states) : F[s] # {} /\ F[s] = StateWords(d.states[s], F, {})
    /\ G \in [2 .. Len(d.levels) + 1 -> SUBSET Words]
    /\ G[Len(d.levels) + 1] = {}
    /\ \A l \in 2 .. Len(d.levels) : G[l] = StateWords(d.levels[l], F, G[l + 1])

\* The open states are a path, on which each leads to the next.
OnPath(d) ==
    /\ Len(d.levels[1]) = 1
    /\ \A l \in 1 .. Len(d.levels) - 1 :
          Last(d.levels[l]).label # 0 /\ Last(d.levels[l]).to = 0

Knows(d, F, G, R) ==
    /\ Len(d.levels) >= 2 => G[2] = R
    /\ Len(d.levels) = 1 => IF Root(d) = 0 THEN R = {} ELSE Root(d) \in 1 .. Len(d.states) /\ F[Root(d)] = R

\* All the automaton holds are the words of R.
Said(d, R) == \E F, G : Denotes(d, F, G) /\ Knows(d, F, G, R) /\ OnPath(d)

LEMMA StateWordsLike ==
    ASSUME NEW a, NEW b, NEW F, NEW E, NEW X, NEW Y, Len(a) = Len(b),
           \A m \in 1 .. Len(a) : /\ a[m].label = b[m].label
                                  /\ Beyond(a[m], F, X) = Beyond(b[m], E, Y)
    PROVE  StateWords(a, F, X) = StateWords(b, E, Y)
  BY DEF StateWords

\* Each arc of a state has words.
LEMMA StateWordsFrom ==
    ASSUME NEW arcs \in Seq(Arc), NEW F, NEW X, NEW m \in 1 .. Len(arcs), NEW x \in Words,
           x \in Beyond(arcs[m], F, X)
    PROVE  Led(arcs[m].label, x) \in StateWords(arcs, F, X)
  <1>1. arcs[m].label \in Nat
    <2>1. arcs[m] \in Arc
      BY ElementOfSeq
    <2> QED
      BY <2>1, MaxLabelAssumption DEF Arc
  <1>2. /\ Led(arcs[m].label, x) \in Words /\ Led(arcs[m].label, x)[0] = arcs[m].label
        /\ Drop(Led(arcs[m].label, x), 1) = x
    BY <1>1, LedIs
  <1> QED
    BY <1>2 DEF StateWords

\* The words of a state that is closed are what they were while it was open.
LEMMA ClosedWords ==
    ASSUME NEW d, DawgInv(d), Valued(d), Len(d.levels) >= 2, NEW F, NEW G, Denotes(d, F, G),
           NEW L, L = Len(d.levels)
    PROVE  /\ d.levels[L] \in Seq(Arc)
           /\ \A m \in 1 .. Len(d.levels[L]) :
                 d.levels[L][m].label # 0 => d.levels[L][m].to \in 1 .. Len(d.states)
           /\ G[L] # {} /\ G[L] \subseteq Words /\ G[L] = StateWords(d.levels[L], F, {})
           /\ Equal(d) # {} => F[Id(d)] = G[L]
  <1>1. L \in Nat /\ L \in 2 .. L /\ L \in 1 .. L /\ L \in 2 .. L + 1 /\ Len(d.states) \in Nat
    BY DEF DawgInv, Shaped, Automata
  <1>2. d.levels[L] \in Seq(Arc) /\ Len(d.levels[L]) >= 1 /\ Len(d.levels[L]) \in Nat
    BY <1>1 DEF DawgInv, Shaped, Automata
  <1>3. G[L] = StateWords(d.levels[L], F, {}) /\ G[L] \subseteq Words
    BY <1>1 DEF Denotes
  <1>4. ASSUME NEW m \in 1 .. Len(d.levels[L]), d.levels[L][m].label # 0
        PROVE  d.levels[L][m].to \in 1 .. Len(d.states)
    <2>1. /\ d.levels[L][m].to \in 0 .. Len(d.states)
          /\ d.levels[L][m].to = 0 => L < Len(d.levels) \/ L = 1
      BY <1>1, <1>4 DEF DawgInv, ArcsDown
    <2> QED
      BY <1>1, <2>1
  <1>5. G[L] # {}
    <2>1. 1 \in 1 .. Len(d.levels[L])
      BY <1>2
    <2>2. \E x \in Words : x \in Beyond(d.levels[L][1], F, {})
      <3>1. CASE d.levels[L][1].label = 0
        <4>1. d.levels[L][1].to \in Nat
          BY <1>1, <2>1, <3>1 DEF Valued
        <4> QED
          BY <3>1, <4>1, ConstIs DEF Beyond
      <3>2. CASE d.levels[L][1].label # 0
        <4>1. d.levels[L][1].to \in 1 .. Len(d.states)
          BY <1>4, <2>1, <3>2
        <4>2. F[d.levels[L][1].to] # {} /\ F[d.levels[L][1].to] \subseteq Words
          BY <4>1 DEF Denotes
        <4> QED
          BY <1>1, <3>2, <4>1, <4>2 DEF Beyond
      <3> QED
        BY <3>1, <3>2
    <2> QED
      BY <1>2, <1>3, <2>1, <2>2, StateWordsFrom
  <1>6. ASSUME Equal(d) # {} PROVE F[Id(d)] = G[L]
    <2>1. Id(d) \in 1 .. Len(d.states) /\ d.states[Id(d)] = d.levels[L]
      BY <1>6 DEF Id, Equal, Last
    <2> QED
      BY <1>3, <2>1 DEF Denotes
  <1> QED
    BY <1>2, <1>3, <1>4, <1>5, <1>6

LEMMA CloseDenotes ==
    ASSUME NEW d, DawgInv(d), Valued(d), Len(d.levels) >= 2, NEW R, Said(d, R), NEW e, e = Close(d)
    PROVE  Said(e, R)
  <1> SUFFICES ASSUME NEW F, NEW G, Denotes(d, F, G), Knows(d, F, G, R), OnPath(d)
               PROVE  Said(e, R)
    BY DEF Said
  <1> DEFINE L == Len(d.levels)
             S == Len(d.states)
             E == [s \in 1 .. Len(e.states) |-> IF s <= S THEN F[s] ELSE G[L]]
             H == [i \in 2 .. Len(e.levels) + 1 |-> IF i = L THEN {} ELSE G[i]]
             x == Id(d)
  <1>1. L \in Nat /\ S \in Nat /\ L >= 2
    BY DEF DawgInv, Shaped, Automata
  <1>2. Shaped(d)
    BY DEF DawgInv
  <1>3. /\ Len(e.levels) = L - 1
        /\ \A l \in 1 .. L - 1 :
              /\ Len(e.levels[l]) = Len(d.levels[l])
              /\ \A m \in 1 .. Len(d.levels[l]) :
                   /\ e.levels[l][m].label = d.levels[l][m].label
                   /\ e.levels[l][m].to =
                         IF l = L - 1 /\ m = Len(d.levels[l]) THEN x ELSE d.levels[l][m].to
    <2>1. Len(d.levels) >= 2
      OBVIOUS
    <2> HIDE DEF L, x
    <2>2. LET LL == Len(d.levels)
              ee == Close(d)
          IN  /\ Len(ee.levels) = LL - 1
              /\ \A l \in 1 .. LL - 1 :
                    /\ Len(ee.levels[l]) = Len(d.levels[l])
                    /\ \A m \in 1 .. Len(d.levels[l]) :
                         /\ ee.levels[l][m].label = d.levels[l][m].label
                         /\ ee.levels[l][m].to =
                               IF l = LL - 1 /\ m = Len(d.levels[l]) THEN Id(d) ELSE d.levels[l][m].to
      BY <1>2, <2>1, CloseEffect
    <2> QED
      BY <2>2 DEF L, x
  <1>4. /\ x \in 1 .. Len(e.states)
        /\ \A s \in 1 .. S : e.states[s] = d.states[s]
        /\ \/ Len(e.states) = S /\ x <= S
           \/ Len(e.states) = S + 1 /\ x = S + 1 /\ e.states[S + 1] = d.levels[L]
    BY <1>2, CloseStates
  <1>5. /\ d.levels[L] \in Seq(Arc)
        /\ \A m \in 1 .. Len(d.levels[L]) :
              d.levels[L][m].label # 0 => d.levels[L][m].to \in 1 .. S
        /\ G[L] # {} /\ G[L] \subseteq Words /\ G[L] = StateWords(d.levels[L], F, {})
        /\ Equal(d) # {} => F[x] = G[L]
    <2> HIDE DEF L, S, x
    <2> QED
      BY ClosedWords DEF L, S, x
  <1>6. Len(e.states) \in Nat /\ \A s \in 1 .. S : s \in 1 .. Len(e.states)
    BY <1>1, <1>4
  <1>7. \A s \in 1 .. S : E[s] = F[s] /\ F[s] # {} /\ F[s] \subseteq Words
                          /\ F[s] = StateWords(d.states[s], F, {})
    <2> TAKE s \in 1 .. S
    <2>1. s \in 1 .. Len(e.states) /\ s <= S
      BY <1>1, <1>6
    <2>2. F[s] \in SUBSET Words /\ F[s] # {} /\ F[s] = StateWords(d.states[s], F, {})
      BY DEF Denotes
    <2>3. E[s] = F[s]
      BY <2>1
    <2> QED
      BY <2>2, <2>3
  <1>8. E[x] = G[L]
    <2>1. CASE x <= S
      <3>1. Equal(d) # {}
        BY <1>1, <2>1 DEF Id
      <3> QED
        BY <1>4, <1>5, <2>1, <3>1
    <2>2. CASE ~ (x <= S)
      BY <1>4, <2>2
    <2> QED
      BY <2>1, <2>2
  <1>9. E \in [1 .. Len(e.states) -> SUBSET Words]
    <2>1. \A s \in 1 .. Len(e.states) : E[s] \in SUBSET Words
      <3> TAKE s \in 1 .. Len(e.states)
      <3>1. CASE s <= S
        <4>1. s \in 1 .. S
          BY <1>1, <1>6, <3>1
        <4> QED
          BY <1>7, <4>1
      <3>2. CASE ~ (s <= S)
        BY <1>5, <3>2
      <3> QED
        BY <3>1, <3>2
    <2> QED
      BY <2>1
  <1>10. \A i \in 2 .. L - 1 : H[i] = G[i] /\ G[i] \subseteq Words
    <2> TAKE i \in 2 .. L - 1
    <2>1. i \in 2 .. Len(e.levels) + 1 /\ i # L /\ i \in 2 .. L + 1
      BY <1>1, <1>3
    <2> QED
      BY <2>1 DEF Denotes
  <1>11. H[L] = {} /\ H \in [2 .. Len(e.levels) + 1 -> SUBSET Words] /\ Len(e.levels) + 1 = L
    <2>1. Len(e.levels) + 1 = L
      BY <1>1, <1>3
    <2>2. \A i \in 2 .. L : H[i] \in SUBSET Words
      <3> TAKE i \in 2 .. L
      <3>1. CASE i = L
        BY <2>1, <3>1
      <3>2. CASE i # L
        <4>1. i \in 2 .. L - 1
          BY <1>1, <3>2
        <4> QED
          BY <1>10, <4>1
      <3> QED
        BY <3>1, <3>2
    <2>3. L \in 2 .. L
      BY <1>1
    <2> QED
      BY <2>1, <2>2, <2>3
  <1> HIDE DEF E, H, x
  \* Where an arc leads to a closed state, it leads to the same words.
  <1>12. \A arc, b, X, Y :
            /\ arc.label = b.label /\ arc.to = b.to
            /\ b.label # 0 => b.to \in 1 .. S
            => Beyond(arc, E, X) = Beyond(b, F, Y)
    BY <1>1, <1>7 DEF Beyond
  <1>13. ASSUME NEW s \in 1 .. Len(e.states)
         PROVE  E[s] # {} /\ E[s] = StateWords(e.states[s], E, {})
    <2>1. CASE s \in 1 .. S
      <3>1. \A m \in 1 .. Len(d.states[s]) : d.states[s][m].label # 0 => d.states[s][m].to \in 1 .. S
        BY <1>1, <2>1 DEF DawgInv, ArcsBack
      <3>2. StateWords(d.states[s], E, {}) = StateWords(d.states[s], F, {})
        BY <1>12, <3>1, StateWordsLike
      <3> QED
        BY <1>4, <1>7, <2>1, <3>2
    <2>2. CASE s \notin 1 .. S
      <3>1. s = x /\ e.states[s] = d.levels[L]
        BY <1>1, <1>4, <2>2
      <3>2. StateWords(d.levels[L], E, {}) = StateWords(d.levels[L], F, {})
        BY <1>12, <1>5, StateWordsLike
      <3> QED
        BY <1>5, <1>8, <3>1, <3>2
    <2> QED
      BY <2>1, <2>2
  <1>14. ASSUME NEW l \in 2 .. Len(e.levels)
         PROVE  H[l] = StateWords(e.levels[l], E, H[l + 1])
    <2>1. l \in 2 .. L - 1 /\ l \in 1 .. L - 1 /\ l \in 2 .. L /\ l \in 1 .. L /\ l + 1 \in 2 .. L
      BY <1>1, <1>3
    <2>2. G[l] = StateWords(d.levels[l], F, G[l + 1])
      BY <2>1 DEF Denotes
    <2>3. ASSUME NEW m \in 1 .. Len(d.levels[l])
          PROVE  /\ e.levels[l][m].label = d.levels[l][m].label
                 /\ Beyond(e.levels[l][m], E, H[l + 1]) = Beyond(d.levels[l][m], F, G[l + 1])
      <3> DEFINE a == e.levels[l][m]
                 b == d.levels[l][m]
      <3>1. a.label = b.label /\ a.to = IF l = L - 1 /\ m = Len(d.levels[l]) THEN x ELSE b.to
        BY <1>3, <2>1
      <3>2. b.label # 0 => /\ b.to \in 0 .. S
                           /\ b.to = 0 => m = Len(d.levels[l])
        BY <2>1 DEF DawgInv, ArcsDown
      <3>3. CASE l = L - 1 /\ m = Len(d.levels[l])
        <4>1. b.label # 0 /\ b.to = 0
          BY <2>1, <3>3 DEF OnPath, Last
        <4>2. Beyond(b, F, G[l + 1]) = G[L]
          BY <1>1, <3>3, <4>1 DEF Beyond
        <4>3. x # 0 /\ a.to = x
          BY <1>4, <3>1, <3>3
        <4>4. Beyond(a, E, H[l + 1]) = E[x]
          BY <3>1, <4>1, <4>3 DEF Beyond
        <4> QED
          BY <1>8, <3>1, <4>2, <4>4
      <3>4. CASE ~ (l = L - 1 /\ m = Len(d.levels[l]))
        <4>1. a.to = b.to
          BY <3>1, <3>4
        <4>2. CASE b.label # 0 /\ b.to = 0
          <5>1. l + 1 \in 2 .. L - 1
            BY <1>1, <2>1, <3>2, <3>4, <4>2
          <5> QED
            BY <1>10, <3>1, <4>1, <4>2, <5>1 DEF Beyond
        <4>3. CASE ~ (b.label # 0 /\ b.to = 0)
          <5>1. b.label # 0 => b.to \in 1 .. S
            BY <1>1, <3>2, <4>3
          <5>2. a.label = b.label
            BY <3>1
          <5> HIDE DEF a, b
          <5>3. Beyond(a, E, H[l + 1]) = Beyond(b, F, G[l + 1])
            BY <1>12, <4>1, <5>1, <5>2
          <5> QED
            BY <5>2, <5>3 DEF a, b
        <4> QED
          BY <4>2, <4>3
      <3> QED
        BY <3>3, <3>4, Zenon
    <2>4. StateWords(d.levels[l], F, G[l + 1]) = StateWords(e.levels[l], E, H[l + 1])
      <3>1. Len(d.levels[l]) = Len(e.levels[l])
        BY <1>3, <2>1
      <3>2. \A m \in 1 .. Len(d.levels[l]) :
               /\ d.levels[l][m].label = e.levels[l][m].label
               /\ Beyond(d.levels[l][m], F, G[l + 1]) = Beyond(e.levels[l][m], E, H[l + 1])
        BY <2>3
      <3> DEFINE a == d.levels[l]
                 b == e.levels[l]
                 X == G[l + 1]
                 Y == H[l + 1]
      <3>3. Len(a) = Len(b) /\ \A m \in 1 .. Len(a) : /\ a[m].label = b[m].label
                                                       /\ Beyond(a[m], F, X) = Beyond(b[m], E, Y)
        BY <3>1, <3>2
      <3> HIDE DEF a, b, X, Y
      <3>4. StateWords(a, F, X) = StateWords(b, E, Y)
        BY <3>3, StateWordsLike
      <3> QED
        BY <3>4 DEF a, b, X, Y
    <2> QED
      BY <1>10, <2>1, <2>2, <2>4
  <1>15. Denotes(e, E, H)
    BY <1>9, <1>11, <1>13, <1>14 DEF Denotes
  <1>16. OnPath(e)
    <2>1. Len(e.levels[1]) = 1
      BY <1>1, <1>3 DEF OnPath
    <2>2. ASSUME NEW l \in 1 .. Len(e.levels) - 1
          PROVE  Last(e.levels[l]).label # 0 /\ Last(e.levels[l]).to = 0
      <3>1. l \in 1 .. L - 1 /\ l # L - 1 /\ l \in 1 .. L
        BY <1>1, <1>3
      <3>2. Len(d.levels[l]) \in 1 .. Len(d.levels[l])
        BY <3>1 DEF DawgInv, Shaped, Automata
      <3> QED
        <4> DEFINE M == Len(d.levels[l])
        <4>1. Len(e.levels[l]) = M /\ e.levels[l][M].label = d.levels[l][M].label
              /\ e.levels[l][M].to = d.levels[l][M].to
          BY <1>3, <3>1, <3>2
        <4>2. d.levels[l][M].label # 0 /\ d.levels[l][M].to = 0
          BY <3>1 DEF OnPath, Last
        <4> QED
          BY <4>1, <4>2 DEF Last
    <2> QED
      BY <2>1, <2>2 DEF OnPath
  <1>17. Knows(e, E, H, R)
    <2>1. G[2] = R
      BY <1>1 DEF Knows
    <2>4. Len(e.levels) = L - 1
      BY <1>3
    <2>2. CASE L - 1 >= 2
      <3> HIDE DEF L
      <3>1. 2 \in 2 .. L - 1 /\ L - 1 # 1
        BY <1>1, <2>2
      <3>2. H[2] = R
        BY <1>10, <2>1, <3>1
      <3> QED
        BY <2>2, <2>4, <3>1, <3>2 DEF Knows
    <2>3. CASE L - 1 = 1
      <3>1. Root(e) = x
        <4>1. 1 \in 1 .. L - 1 /\ Len(d.levels[1]) = 1
          BY <2>3 DEF OnPath
        <4> QED
          BY <1>3, <2>3, <4>1 DEF Root
      <3>2. L = 2 /\ x # 0
        BY <1>1, <1>4, <2>3
      <3> QED
        BY <1>4, <1>8, <2>1, <2>3, <2>4, <3>1, <3>2 DEF Knows
    <2>5. L - 1 >= 2 \/ L - 1 = 1
      <3> HIDE DEF L
      <3> QED
        BY <1>1
    <2> QED
      BY <2>2, <2>3, <2>5
  <1> QED
    BY <1>15, <1>16, <1>17 DEF Said

LEMMA FlushDenotes ==
    ASSUME NEW d, DawgInv(d), Valued(d), NEW R, Said(d, R), NEW l \in Nat, l >= 1, NEW e, e = Flush(d, l)
    PROVE  Said(e, R)
  <1> DEFINE N == Len(d.levels)
             closed == CHOOSE closed : closed = [m \in 0 .. N |-> IF m = 0 THEN d ELSE Close(closed[m - 1])]
             Says(x) == DawgInv(x) /\ Valued(x) /\ Said(x, R)
             T == {m \in 0 .. N - 1 : Says(closed[m]) /\ Len(closed[m].levels) = N - m}
             last == IF l < N THEN N - l ELSE 0
  <1>1. N \in Nat /\ N >= 1
    BY DEF DawgInv, Shaped, Automata
  <1>2. closed = [m \in 0 .. N |-> IF m = 0 THEN d ELSE Close(closed[m - 1])]
    BY <1>1, ClosedExists
  <1>3. e = closed[last]
    BY DEF Flush
  <1> HIDE DEF closed
  <1>4. 0 \in T
    <2>1. closed[0] = d
      BY <1>1, <1>2
    <2> QED
      BY <1>1, <2>1
  <1>5. ASSUME NEW m \in 0 .. N - 1 - 1, m \in T PROVE m + 1 \in T
    <2> DEFINE x == closed[m]
               y == closed[m + 1]
    <2>1. y = Close(x)
      BY <1>1, <1>2
    <2>2. Says(x) /\ Len(x.levels) = N - m /\ N - m >= 2
      BY <1>1, <1>5
    <2> HIDE DEF x, y
    <2>3. DawgInv(y) /\ Len(y.levels) = N - m - 1 /\ Valued(y)
      BY <2>1, <2>2, CloseKeeps, CloseOrders DEF DawgInv
    <2>5. Said(y, R)
      <3>1. Len(x.levels) >= 2
        BY <2>2
      <3> QED
        BY <2>1, <2>2, <3>1, CloseDenotes
    <2>6. m + 1 \in 0 .. N - 1 /\ N - m - 1 = N - (m + 1)
      BY <1>1
    <2> QED
      BY <2>3, <2>5, <2>6 DEF y
  <1> HIDE DEF T
  <1>6. \A m \in 0 .. N - 1 : m \in T
    <2>1. N - 1 \in Nat
      BY <1>1
    <2> HIDE DEF N
    <2> QED
      BY <1>4, <1>5, <2>1, UpTo
  <1>7. last \in 0 .. N - 1
    BY <1>1
  <1> QED
    BY <1>3, <1>6, <1>7 DEF T

\* One word more after the arc that is still open.
LEMMA StateWordsMore ==
    ASSUME NEW arcs \in Seq(Arc), Len(arcs) >= 1, NEW F, NEW X, NEW x \in Words,
           Last(arcs).label # 0, Last(arcs).to = 0, x[0] = Last(arcs).label,
           \A m \in 1 .. Len(arcs) : arcs[m].label # 0 /\ arcs[m].to = 0 => m = Len(arcs)
    PROVE  StateWords(arcs, F, X \cup {Drop(x, 1)}) = StateWords(arcs, F, X) \cup {x}
  <1> DEFINE L == Len(arcs)
             Y == X \cup {Drop(x, 1)}
  <1>1. L \in 1 .. L /\ arcs[L].label # 0 /\ arcs[L].to = 0 /\ x[0] = arcs[L].label
    BY DEF Last
  <1>2. Beyond(arcs[L], F, X) = X /\ Beyond(arcs[L], F, Y) = Y
    BY <1>1 DEF Beyond
  <1>3. \A m \in 1 .. L : m # L => Beyond(arcs[m], F, Y) = Beyond(arcs[m], F, X)
    BY DEF Beyond
  <1> HIDE DEF L, Y
  <1>4. ASSUME NEW y \in StateWords(arcs, F, Y) PROVE y \in StateWords(arcs, F, X) \cup {x}
    <2>1. PICK m \in 1 .. L : y \in Words /\ y[0] = arcs[m].label /\ Drop(y, 1) \in Beyond(arcs[m], F, Y)
      BY DEF StateWords, L
    <2>2. CASE m = L /\ Drop(y, 1) = Drop(x, 1)
      BY <1>1, <2>1, <2>2, WordSplit
    <2>3. CASE m # L \/ Drop(y, 1) # Drop(x, 1)
      <3>1. Drop(y, 1) \in Beyond(arcs[m], F, X)
        BY <1>2, <1>3, <2>1, <2>3 DEF Y
      <3> QED
        BY <2>1, <3>1 DEF StateWords, L
    <2> QED
      BY <2>2, <2>3
  <1>5. ASSUME NEW y \in StateWords(arcs, F, X) \cup {x} PROVE y \in StateWords(arcs, F, Y)
    <2>1. CASE y = x
      BY <1>1, <1>2, <2>1 DEF StateWords, L, Y
    <2>2. CASE y \in StateWords(arcs, F, X)
      <3>1. PICK m \in 1 .. L : y \in Words /\ y[0] = arcs[m].label /\ Drop(y, 1) \in Beyond(arcs[m], F, X)
        BY <2>2 DEF StateWords, L
      <3>2. Drop(y, 1) \in Beyond(arcs[m], F, Y)
        BY <1>2, <1>3, <3>1 DEF Y
      <3> QED
        BY <3>1, <3>2 DEF StateWords, L
    <2> QED
      BY <2>1, <2>2
  <1> QED
    BY <1>4, <1>5 DEF Y

\* The words after one transition of a key: what is left of the key's word.
ArcWords(arc, F, X) == {y \in Words : y[0] = arc.label /\ Drop(y, 1) \in Beyond(arc, F, X)}

LEMMA TransitionWords ==
    ASSUME NEW k \in Seq(1 .. MaxLabel), NEW v \in Nat, NEW w, w = KeyWord(k, v),
           NEW m \in 1 .. Len(k) + 1, NEW F, NEW X, m <= Len(k) => X = {Drop(w, m)}
    PROVE  ArcWords(Transition(k, m, v), F, X) = {Drop(w, m - 1)}
  <1> DEFINE t == Transition(k, m, v)
             x == Drop(w, m - 1)
  <1>1. Len(k) \in Nat /\ m - 1 \in Nat /\ m - 1 \in 0 .. Len(k) /\ m \in Nat /\ (m - 1) + 1 = m /\ 0 + (m - 1) = m - 1
    OBVIOUS
  <1>2. /\ w \in Words /\ w[m - 1] = LabelAt(k, m) /\ (LabelAt(k, m) = 0 <=> m = Len(k) + 1)
        /\ Drop(w, Len(k) + 1) = Const(v)
    <2>1. w \in Words /\ Drop(w, Len(k) + 1) = Const(v) /\ w[m - 1] = LabelAt(k, (m - 1) + 1)
          /\ (w[m - 1] = 0 <=> m - 1 = Len(k))
      BY <1>1, KeyWordIs
    <2> QED
      BY <1>1, <2>1
  <1>3. x \in Words /\ x[0] = LabelAt(k, m) /\ Drop(x, 1) = Drop(w, m)
    <2>1. x \in Words /\ x[0] = w[0 + (m - 1)] /\ Drop(x, 1) = Drop(w, (m - 1) + 1)
      <3>1. /\ x \in Words /\ \A i \in Nat : x[i] = w[i + (m - 1)]
            /\ \A e \in Nat : Drop(x, e) = Drop(w, (m - 1) + e)
        BY <1>1, <1>2, DropIs
      <3> HIDE DEF x
      <3> QED
        BY <3>1
    <2> QED
      BY <1>1, <1>2, <2>1
  <1>4. t.label = LabelAt(k, m) /\ t.to = IF m > Len(k) THEN v ELSE 0
    BY DEF Transition
  <1>5. Beyond(t, F, X) = {Drop(w, m)}
    <2>1. CASE m <= Len(k)
      BY <1>1, <1>2, <1>4, <2>1 DEF Beyond
    <2>2. CASE ~ (m <= Len(k))
      <3>1. m = Len(k) + 1 /\ t.label = 0 /\ t.to = v
        BY <1>1, <1>2, <1>4, <2>2
      <3> HIDE DEF t
      <3> QED
        BY <1>2, <3>1 DEF Beyond
    <2> QED
      BY <2>1, <2>2
  <1> HIDE DEF t, x
  <1>6. \A y \in Words : y[0] = t.label /\ Drop(y, 1) \in {Drop(w, m)} <=> y = x
    BY <1>3, <1>4, WordSplit
  <1>7. ArcWords(t, F, X) = {x}
    BY <1>3, <1>5, <1>6 DEF ArcWords
  <1> QED
    BY <1>7 DEF t, x

LEMMA OneArc ==
    ASSUME NEW arc, NEW F, NEW X
    PROVE  StateWords(<<arc>>, F, X) = ArcWords(arc, F, X)
  <1>1. Len(<<arc>>) = 1 /\ <<arc>>[1] = arc
    OBVIOUS
  <1>2. 1 .. 1 = {1}
    OBVIOUS
  <1> QED
    BY <1>1, <1>2 DEF StateWords, ArcWords

\* One arc more, after arcs none of which is open.
OneMore(all, arcs, arc) ==
    /\ Len(all) = Len(arcs) + 1 /\ all[Len(arcs) + 1] = arc
    /\ \A m \in 1 .. Len(arcs) : all[m] = arcs[m] /\ (arcs[m].label # 0 => arcs[m].to # 0)

LEMMA ArcMore ==
    ASSUME NEW arcs \in Seq(Arc), NEW arc, NEW all, OneMore(all, arcs, arc), NEW F, NEW X, NEW Y
    PROVE  StateWords(all, F, X) = StateWords(arcs, F, Y) \cup ArcWords(arc, F, X)
  <1> DEFINE L == Len(arcs)
  <1>1. L \in Nat /\ Len(all) = L + 1 /\ all[L + 1] = arc /\ \A m \in 1 .. L : all[m] = arcs[m]
    BY DEF OneMore
  <1>2. \A m \in 1 .. L : Beyond(arcs[m], F, X) = Beyond(arcs[m], F, Y)
    BY DEF Beyond, OneMore
  <1>3. \A m : m \in 1 .. Len(all) <=> m \in 1 .. L \/ m = L + 1
    BY <1>1
  <1>4. \A y : y \in StateWords(all, F, X) <=>
                 y \in Words /\ \E m \in 1 .. Len(all) : y[0] = all[m].label /\ Drop(y, 1) \in Beyond(all[m], F, X)
    BY DEF StateWords
  <1>5. \A y : y \in StateWords(arcs, F, Y) <=>
                 y \in Words /\ \E m \in 1 .. L : y[0] = arcs[m].label /\ Drop(y, 1) \in Beyond(arcs[m], F, Y)
    BY DEF StateWords
  <1>6. \A y : y \in ArcWords(arc, F, X) <=> y \in Words /\ y[0] = arc.label /\ Drop(y, 1) \in Beyond(arc, F, X)
    BY DEF ArcWords
  <1> HIDE DEF L
  <1>7. ASSUME NEW y PROVE y \in StateWords(all, F, X) <=> y \in StateWords(arcs, F, Y) \cup ArcWords(arc, F, X)
    <2>1. ASSUME y \in StateWords(all, F, X) PROVE y \in StateWords(arcs, F, Y) \cup ArcWords(arc, F, X)
      <3>1. PICK m \in 1 .. Len(all) : y \in Words /\ y[0] = all[m].label /\ Drop(y, 1) \in Beyond(all[m], F, X)
        BY <1>4, <2>1
      <3> QED
        BY <1>1, <1>2, <1>3, <1>5, <1>6, <3>1
    <2>2. ASSUME y \in StateWords(arcs, F, Y) PROVE y \in StateWords(all, F, X)
      <3>1. PICK m \in 1 .. L : y \in Words /\ y[0] = arcs[m].label /\ Drop(y, 1) \in Beyond(arcs[m], F, Y)
        BY <1>5, <2>2
      <3> QED
        BY <1>1, <1>2, <1>3, <1>4, <3>1
    <2>3. ASSUME y \in ArcWords(arc, F, X) PROVE y \in StateWords(all, F, X)
      <3>1. L + 1 \in 1 .. Len(all)
        BY <1>3
      <3> QED
        BY <1>1, <1>4, <1>6, <2>3, <3>1
    <2> QED
      BY <2>1, <2>2, <2>3
  <1> QED
    BY <1>7

\* The open states of e are those the path of k shares with it.
Joins(e, k, p) ==
    /\ \/ Len(e.levels) = p + 1
       \/ p = 1 /\ Len(e.levels) = 1 /\ Root(e) = 0
    /\ \A m \in 1 .. p - 1 : Last(e.levels[m + 1]).label = LabelAt(k, m)

LEMMA InsertDenotes ==
    ASSUME NEW d, NEW e, NEW c, NEW k \in Seq(1 .. MaxLabel), NEW v \in Nat, NEW p, Inserted(d, k, v, p, e, c),
           p <= Len(k) + 1, Valued(e), NEW R, Said(e, R), Joins(e, k, p)
    PROVE  Said(c, R \cup {KeyWord(k, v)})
  <1> SUFFICES ASSUME NEW F, NEW H, Denotes(e, F, H), Knows(e, F, H, R), OnPath(e)
               PROVE  Said(c, R \cup {KeyWord(k, v)})
    BY DEF Said
  <1> DEFINE w == KeyWord(k, v)
             K == Len(k)
             E == Len(e.levels)
             G == [l \in 2 .. K + 3 |->
                     IF l <= p + 1 THEN H[l] \cup {Drop(w, l - 2)} ELSE IF l <= K + 2 THEN {Drop(w, l - 2)} ELSE {}]
  <1>1. K \in Nat /\ p \in Nat /\ p >= 1 /\ E \in Nat /\ p <= K + 1 /\ E <= p + 1 /\ E >= p
    BY DEF Inserted, DawgInv, Shaped, Automata
  <1>2. /\ c.states = e.states /\ Len(c.levels) = K + 2
        /\ \A l \in 1 .. E : l # p + 1 => c.levels[l] = e.levels[l]
        /\ p + 1 \in 1 .. E => c.levels[p + 1] = Append(e.levels[p + 1], Transition(k, p, v))
        /\ \A l \in E + 1 .. K + 2 : c.levels[l] = <<Transition(k, l - 1, v)>>
    BY DEF Inserted
  <1>3. /\ w \in Words /\ Drop(w, 0) = w
        /\ \A i \in 0 .. K : w[i] = LabelAt(k, i + 1) /\ (w[i] = 0 <=> i = K)
    <2>1. w \in Words /\ \A i \in 0 .. K : w[i] = LabelAt(k, i + 1) /\ (w[i] = 0 <=> i = K)
      BY KeyWordIs
    <2> HIDE DEF w
    <2> QED
      BY <2>1, DropIs
  <1>4. ASSUME NEW l \in 1 .. E
        PROVE  /\ e.levels[l] \in Seq(Arc) /\ Len(e.levels[l]) >= 1 /\ Len(e.levels[l]) \in Nat
               /\ \A m \in 1 .. Len(e.levels[l]) :
                     e.levels[l][m].label # 0 /\ e.levels[l][m].to = 0 => m = Len(e.levels[l])
               /\ l = E /\ l # 1 =>
                     \A m \in 1 .. Len(e.levels[l]) : e.levels[l][m].label # 0 => e.levels[l][m].to # 0
    <2>1. Shaped(e) /\ ArcsDown(e)
      BY DEF Inserted, DawgInv
    <2>2. e.levels[l] \in Seq(Arc) /\ Len(e.levels[l]) >= 1 /\ Len(e.levels[l]) \in Nat
      BY <2>1 DEF Shaped, Automata
    <2> QED
      BY <2>1, <2>2 DEF ArcsDown
  <1>5. \A l \in 2 .. E + 1 : H[l] \subseteq Words
    BY DEF Denotes
  <1>6. H[E + 1] = {} /\ \A l \in 2 .. E : H[l] = StateWords(e.levels[l], F, H[l + 1])
    BY DEF Denotes
  <1>7. ASSUME NEW l \in 2 .. K + 3 PROVE l <= K + 2 => Drop(w, l - 2) \in Words
    <2>1. l - 2 \in Nat
      BY <1>1
    <2> HIDE DEF w
    <2> QED
      BY <1>3, <2>1, DropIs
  <1>16. E = p + 1 \/ (p = 1 /\ E = 1 /\ Root(e) = 0)
    BY DEF Joins
  <1> HIDE DEF w, E, K
  <1>8. G \in [2 .. Len(c.levels) + 1 -> SUBSET Words] /\ Len(c.levels) + 1 = K + 3
    <2>1. Len(c.levels) + 1 = K + 3
      BY <1>1, <1>2
    <2>2. \A l \in 2 .. K + 3 : G[l] \in SUBSET Words
      <3> TAKE l \in 2 .. K + 3
      <3>1. CASE l <= p + 1
        <4>1. l \in 2 .. E + 1 /\ l <= K + 2
          BY <1>1, <3>1
        <4> QED
          BY <1>5, <1>7, <3>1, <4>1
      <3>2. CASE ~ (l <= p + 1)
        BY <1>7, <3>2
      <3> QED
        BY <3>1, <3>2
    <2> QED
      BY <2>1, <2>2
  <1>9. G[K + 3] = {}
    <2>1. K + 3 \in 2 .. K + 3 /\ ~ (K + 3 <= p + 1) /\ ~ (K + 3 <= K + 2)
      BY <1>1
    <2> QED
      BY <2>1
  <1>10. \A l \in 2 .. K + 3 :
            /\ l <= p + 1 => G[l] = H[l] \cup {Drop(w, l - 2)}
            /\ ~ (l <= p + 1) => G[l] = IF l <= K + 2 THEN {Drop(w, l - 2)} ELSE {}
    OBVIOUS
  <1> HIDE DEF G
  \* The transitions that are new.
  <1>11. ASSUME NEW l \in 2 .. K + 2, ~ (l + 1 <= p + 1)
         PROVE  ArcWords(Transition(k, l - 1, v), F, G[l + 1]) = {Drop(w, l - 2)}
    <2>1. l - 1 \in 1 .. Len(k) + 1 /\ (l - 1) - 1 = l - 2
      BY <1>1 DEF K
    <2>2. l - 1 <= Len(k) => G[l + 1] = {Drop(w, l - 1)}
      <3>1. l + 1 \in 2 .. K + 3 /\ (l + 1) - 2 = l - 1 /\ (l - 1 <= K => l + 1 <= K + 2)
        BY <1>1
      <3>2. G[l + 1] = IF l + 1 <= K + 2 THEN {Drop(w, (l + 1) - 2)} ELSE {}
        BY <1>10, <1>11, <3>1
      <3> QED
        BY <3>1, <3>2 DEF K
    <2> QED
      BY <2>1, <2>2, TransitionWords DEF w
  <1>12. ASSUME NEW l \in 2 .. Len(c.levels)
         PROVE  G[l] = StateWords(c.levels[l], F, G[l + 1])
    <2>1. l \in 2 .. K + 2 /\ l \in 2 .. K + 3 /\ l + 1 \in 2 .. K + 3 /\ (l + 1) - 2 = (l - 2) + 1 /\ l - 2 \in Nat
      <3>1. l \in 2 .. K + 2
        BY <1>2
      <3> QED
        BY <1>1, <3>1
    <2>2. CASE l <= p
      <3>1. l \in 1 .. E /\ l \in 1 .. E - 1 /\ l \in 2 .. E /\ l # p + 1 /\ l <= p + 1 /\ l + 1 <= p + 1
            /\ l - 1 \in 1 .. p - 1 /\ (l - 1) + 1 = l /\ l - 2 \in 0 .. K /\ (l - 2) + 1 = l - 1
        <4>1. E = p + 1
          BY <1>16, <2>1, <2>2
        <4> QED
          BY <1>1, <2>1, <2>2, <4>1
      <3> DEFINE arcs == e.levels[l]
                 x == Drop(w, l - 2)
      <3>2. c.levels[l] = arcs
        BY <1>2, <3>1
      <3>3. arcs \in Seq(Arc) /\ Len(arcs) >= 1 /\ Last(arcs).label # 0 /\ Last(arcs).to = 0
        BY <1>4, <3>1 DEF OnPath, E
      <3>4. x \in Words /\ x[0] = w[l - 2] /\ Drop(x, 1) = Drop(w, (l + 1) - 2)
        <4>1. /\ x \in Words /\ \A i \in Nat : x[i] = w[i + (l - 2)]
              /\ \A i \in Nat : Drop(x, i) = Drop(w, (l - 2) + i)
          BY <1>3, <2>1, DropIs
        <4>2. 0 + (l - 2) = l - 2 /\ 0 \in Nat /\ 1 \in Nat
          BY <2>1
        <4>3. x[0] = w[l - 2]
          BY <4>1, <4>2
        <4>4. Drop(x, 1) = Drop(w, (l - 2) + 1)
          BY <4>1, <4>2
        <4> QED
          BY <2>1, <4>1, <4>3, <4>4
      <3>5. x[0] = Last(arcs).label
        <4>1. Last(e.levels[(l - 1) + 1]).label = LabelAt(k, l - 1)
          BY <3>1 DEF Joins
        <4>2. w[l - 2] = LabelAt(k, l - 1)
          BY <1>3, <3>1
        <4> QED
          BY <3>1, <3>4, <4>1, <4>2
      <3>6. \A m \in 1 .. Len(arcs) : arcs[m].label # 0 /\ arcs[m].to = 0 => m = Len(arcs)
        BY <1>4, <3>1
      <3>7. H[l] = StateWords(arcs, F, H[l + 1])
        BY <1>6, <3>1
      <3>8. G[l] = H[l] \cup {x} /\ G[l + 1] = H[l + 1] \cup {Drop(x, 1)}
        BY <1>10, <2>1, <3>1, <3>4
      <3> HIDE DEF arcs, x
      <3> QED
        BY <3>2, <3>3, <3>4, <3>5, <3>6, <3>7, <3>8, StateWordsMore
    <2>3. CASE l = p + 1 /\ E = p + 1
      <3>1. l \in 1 .. E /\ l = E /\ l # 1 /\ l \in 2 .. E /\ l - 1 = p /\ ~ (l + 1 <= p + 1) /\ l <= p + 1
        BY <1>1, <2>1, <2>3
      <3>2. c.levels[l] = Append(e.levels[l], Transition(k, l - 1, v))
        BY <1>2, <2>3, <3>1
      <3>3. H[l] = StateWords(e.levels[l], F, H[l + 1])
        BY <1>6, <3>1
      <3>4. ArcWords(Transition(k, l - 1, v), F, G[l + 1]) = {Drop(w, l - 2)}
        BY <1>11, <2>1, <3>1
      <3>5. StateWords(c.levels[l], F, G[l + 1])
              = StateWords(e.levels[l], F, H[l + 1]) \cup ArcWords(Transition(k, l - 1, v), F, G[l + 1])
        <4> DEFINE arcs == e.levels[l]
                   all == c.levels[l]
                   t == Transition(k, l - 1, v)
                   X == G[l + 1]
                   Y == H[l + 1]
        <4>1. arcs \in Seq(Arc) /\ \A m \in 1 .. Len(arcs) : arcs[m].label # 0 => arcs[m].to # 0
          BY <1>4, <3>1
        <4>2. Len(all) = Len(arcs) + 1 /\ all[Len(arcs) + 1] = t /\ \A m \in 1 .. Len(arcs) : all[m] = arcs[m]
          BY <3>2, <4>1, AppendProperties
        <4> HIDE DEF arcs, t, X, Y, all
        <4>3. StateWords(all, F, X) = StateWords(arcs, F, Y) \cup ArcWords(t, F, X)
          <5>1. OneMore(all, arcs, t)
            BY <4>1, <4>2 DEF OneMore
          <5>2. arcs \in Seq(Arc)
            BY <4>1
          <5> QED
            BY <5>1, <5>2, ArcMore
        <4> QED
          BY <4>3 DEF arcs, t, X, Y, all
      <3>6. G[l] = H[l] \cup {Drop(w, l - 2)}
        BY <1>10, <2>1, <3>1
      <3> QED
        BY <3>3, <3>4, <3>5, <3>6
    <2>4. CASE l > E /\ l > p
      <3>1. l \in E + 1 .. K + 2 /\ ~ (l + 1 <= p + 1) /\ l <= K + 2
        BY <1>1, <2>1, <2>4
      <3>2. c.levels[l] = <<Transition(k, l - 1, v)>>
        BY <1>2, <3>1
      <3>3. ArcWords(Transition(k, l - 1, v), F, G[l + 1]) = {Drop(w, l - 2)}
        BY <1>11, <2>1, <3>1
      <3>4. G[l] = {Drop(w, l - 2)}
        <4>1. CASE l <= p + 1
          <5>1. l = E + 1
            BY <1>1, <2>1, <2>4, <4>1
          <5>2. G[l] = H[l] \cup {Drop(w, l - 2)}
            BY <1>10, <2>1, <4>1
          <5> QED
            BY <1>6, <5>1, <5>2
        <4>2. CASE ~ (l <= p + 1)
          BY <1>10, <2>1, <3>1, <4>2
        <4> QED
          BY <4>1, <4>2
      <3> QED
        BY <3>2, <3>3, <3>4, OneArc
    <2>5. l <= p \/ (l = p + 1 /\ E = p + 1) \/ (l > E /\ l > p)
      BY <1>1, <1>16, <2>1
    <2> QED
      BY <2>2, <2>3, <2>4, <2>5
  <1>13. Denotes(c, F, G)
    BY <1>2, <1>8, <1>9, <1>12 DEF Denotes
  <1>14. OnPath(c)
    <2>1. Len(c.levels[1]) = 1 /\ c.levels[1] = e.levels[1]
      <3>1. 1 \in 1 .. E /\ 1 # p + 1
        BY <1>1
      <3> QED
        BY <1>2, <3>1 DEF OnPath
    <2>2. ASSUME NEW l \in 1 .. Len(c.levels) - 1
          PROVE  Last(c.levels[l]).label # 0 /\ Last(c.levels[l]).to = 0
      <3>1. l \in 1 .. K + 1
        BY <1>1, <1>2
      <3>2. CASE l <= p /\ E = p + 1
        <4>1. l \in 1 .. E /\ l # p + 1 /\ l \in 1 .. E - 1
          BY <1>1, <3>1, <3>2
        <4> QED
          BY <1>2, <4>1 DEF OnPath, E
      <3>3. CASE l = 1 /\ E = 1 /\ Root(e) = 0
        BY <2>1, <3>3 DEF Last, Root, Valued
      <3>4. CASE l > p
        <4>1. l \in 2 .. K + 1 /\ l - 1 \in 1 .. Len(k) + 1 /\ l - 1 \in 1 .. Len(k) /\ l \in 1 .. K + 2
          BY <1>1, <3>1, <3>4 DEF K
        <4> DEFINE t == Transition(k, l - 1, v)
        <4>2. t.label # 0 /\ t.to = 0
          <5>1. t.label = LabelAt(k, l - 1) /\ LabelAt(k, l - 1) # 0
            BY <4>1, TransitionType
          <5> QED
            BY <4>1, <5>1 DEF Transition
        <4>3. Last(c.levels[l]) = t
          <5>1. CASE l \in E + 1 .. K + 2
            <6>1. c.levels[l] = <<t>>
              BY <1>2, <5>1
            <6> QED
              BY <6>1 DEF Last
          <5>2. CASE l \notin E + 1 .. K + 2
            <6>1. l = p + 1 /\ p + 1 \in 1 .. E /\ l - 1 = p /\ l \in 1 .. E
              BY <1>1, <3>4, <4>1, <5>2
            <6>2. c.levels[l] = Append(e.levels[l], t)
              BY <1>2, <6>1
            <6>3. e.levels[l] \in Seq(Arc)
              BY <1>4, <6>1
            <6> HIDE DEF t
            <6> QED
              BY <6>2, <6>3 DEF Last
          <5> QED
            BY <5>1, <5>2
        <4> QED
          BY <4>2, <4>3
      <3> QED
        BY <1>1, <1>16, <3>1, <3>2, <3>3, <3>4
    <2> QED
      BY <2>1, <2>2 DEF OnPath
  <1>15. Knows(c, F, G, R \cup {w})
    <2>1. H[2] = R
      <3>1. CASE E = 1
        <4>1. Root(e) = 0 /\ H[2] = {}
          BY <1>1, <1>6, <1>16, <3>1
        <4> QED
          BY <3>1, <4>1 DEF Knows, E
      <3>2. CASE E # 1
        <4>1. E >= 2
          BY <1>1, <3>2
        <4> QED
          BY <4>1 DEF Knows, E
      <3> QED
        BY <3>1, <3>2
    <2>2. 2 \in 2 .. K + 3 /\ 2 <= p + 1 /\ 2 - 2 = 0 /\ K + 2 >= 2 /\ K + 2 # 1
      BY <1>1
    <2>3. G[2] = R \cup {w}
      BY <1>3, <1>10, <2>1, <2>2
    <2> QED
      BY <1>2, <2>2, <2>3 DEF Knows
  <1> QED
    BY <1>13, <1>14, <1>15 DEF w, Said

LEMMA LabelIs ==
    ASSUME NEW k \in Seq(1 .. MaxLabel), NEW m \in Nat \ {0}
    PROVE  /\ LabelAt(k, m) \in 0 .. MaxLabel /\ LabelAt(k, m) \in Nat /\ Len(k) \in Nat
           /\ LabelAt(k, m) = 0 <=> m > Len(k)
           /\ m <= Len(k) => LabelAt(k, m) = k[m]
  <1>1. Len(k) \in Nat /\ MaxLabel \in Nat /\ \A i \in 1 .. Len(k) : k[i] \in 1 .. MaxLabel
    BY MaxLabelAssumption
  <1> QED
    BY <1>1 DEF LabelAt, Read

\* Of two keys that are not the same one is before the other.
LEMMA SameOrBefore ==
    ASSUME NEW j \in Seq(1 .. MaxLabel), NEW k \in Seq(1 .. MaxLabel)
    PROVE  j = k \/ Before(j, k) \/ Before(k, j)
  <1> DEFINE N == Len(j) + Len(k)
             T == {m \in 0 .. N : m # 0 /\ LabelAt(j, m) # LabelAt(k, m)}
  <1>1. Len(j) \in Nat /\ Len(k) \in Nat /\ N \in Nat
    OBVIOUS
  <1>2. CASE T = {}
    <2>1. \A m \in 1 .. N : LabelAt(j, m) = LabelAt(k, m)
      BY <1>2
    <2>2. Len(j) = Len(k)
      <3>1. CASE Len(j) < Len(k)
        <4>1. Len(j) + 1 \in 1 .. N /\ Len(j) + 1 \in Nat \ {0} /\ ~ (Len(j) + 1 > Len(k)) /\ Len(j) + 1 > Len(j)
          BY <1>1, <3>1
        <4>2. LabelAt(j, Len(j) + 1) = 0 /\ LabelAt(k, Len(j) + 1) # 0
          BY <4>1, LabelIs
        <4> QED
          BY <2>1, <4>1, <4>2
      <3>2. CASE Len(k) < Len(j)
        <4>1. Len(k) + 1 \in 1 .. N /\ Len(k) + 1 \in Nat \ {0} /\ ~ (Len(k) + 1 > Len(j)) /\ Len(k) + 1 > Len(k)
          BY <1>1, <3>2
        <4>2. LabelAt(k, Len(k) + 1) = 0 /\ LabelAt(j, Len(k) + 1) # 0
          BY <4>1, LabelIs
        <4> QED
          BY <2>1, <4>1, <4>2
      <3> QED
        BY <1>1, <3>1, <3>2
    <2>3. \A m \in 1 .. Len(j) : j[m] = k[m]
      <3> TAKE m \in 1 .. Len(j)
      <3>1. m \in 1 .. N /\ m \in Nat \ {0} /\ m <= Len(j) /\ m <= Len(k)
        BY <1>1, <2>2
      <3>2. LabelAt(j, m) = j[m] /\ LabelAt(k, m) = k[m]
        BY <3>1, LabelIs
      <3> QED
        BY <2>1, <3>1, <3>2
    <2> QED
      BY <2>2, <2>3
  <1>3. CASE T # {}
    <2>1. PICK m \in T : \A l \in T : m <= l
      BY <1>1, <1>3, FirstOf
    <2>2. m \in 1 .. N /\ m \in Nat \ {0} /\ LabelAt(j, m) # LabelAt(k, m)
      BY <1>1
    <2>3. \A l \in 1 .. m - 1 : LabelAt(j, l) = LabelAt(k, l)
      <3> TAKE l \in 1 .. m - 1
      <3>1. l \in 0 .. N /\ l # 0 /\ ~ (m <= l)
        BY <1>1, <2>2
      <3> QED
        BY <2>1, <3>1
    <2>4. m <= Len(j) + 1 /\ m <= Len(k) + 1
      <3>1. CASE m > Len(j) + 1
        <4>1. Len(j) + 1 \in 1 .. m - 1 /\ Len(j) + 1 \in Nat \ {0} /\ Len(j) + 1 > Len(j) /\ m > Len(j)
          BY <1>1, <2>2, <3>1
        <4>2. LabelAt(k, Len(j) + 1) = 0 /\ LabelAt(j, m) = 0
          BY <2>2, <2>3, <4>1, LabelIs
        <4>3. Len(j) + 1 > Len(k)
          BY <4>1, <4>2, LabelIs
        <4>4. m > Len(k)
          BY <1>1, <2>2, <3>1, <4>3
        <4>5. LabelAt(k, m) = 0
          BY <2>2, <4>4, LabelIs
        <4> QED
          BY <2>2, <4>2, <4>5
      <3>2. CASE m > Len(k) + 1
        <4>1. Len(k) + 1 \in 1 .. m - 1 /\ Len(k) + 1 \in Nat \ {0} /\ Len(k) + 1 > Len(k) /\ m > Len(k)
          BY <1>1, <2>2, <3>2
        <4>2. LabelAt(j, Len(k) + 1) = 0 /\ LabelAt(k, m) = 0
          BY <2>2, <2>3, <4>1, LabelIs
        <4>3. Len(k) + 1 > Len(j)
          BY <4>1, <4>2, LabelIs
        <4>4. m > Len(j)
          BY <1>1, <2>2, <3>2, <4>3
        <4>5. LabelAt(j, m) = 0
          BY <2>2, <4>4, LabelIs
        <4> QED
          BY <2>2, <4>2, <4>5
      <3> QED
        BY <1>1, <2>2, <3>1, <3>2
    <2>5. LabelAt(j, m) < LabelAt(k, m) \/ LabelAt(k, m) < LabelAt(j, m)
      <3>1. LabelAt(j, m) \in Nat /\ LabelAt(k, m) \in Nat
        BY <2>2, LabelIs
      <3> QED
        BY <2>2, <3>1
    <2>6. m \in 1 .. Len(j) + 1 /\ m \in 1 .. Len(k) + 1
      BY <1>1, <2>2, <2>4
    <2>7. \A l \in 1 .. m - 1 : LabelAt(k, l) = LabelAt(j, l)
      BY <2>3
    <2> QED
      BY <2>3, <2>5, <2>6, <2>7 DEF Before
  <1> QED
    BY <1>2, <1>3

LEMMA BeforeTwice ==
    ASSUME NEW i \in Seq(1 .. MaxLabel), NEW j \in Seq(1 .. MaxLabel), NEW k \in Seq(1 .. MaxLabel),
           Before(i, j), Before(j, k)
    PROVE  Before(i, k)
  <1>1. PICK m \in 1 .. Len(i) + 1 : /\ \A l \in 1 .. m - 1 : LabelAt(i, l) = LabelAt(j, l)
                                     /\ LabelAt(i, m) < LabelAt(j, m)
    BY DEF Before
  <1>2. PICK h \in 1 .. Len(j) + 1 : /\ \A l \in 1 .. h - 1 : LabelAt(j, l) = LabelAt(k, l)
                                     /\ LabelAt(j, h) < LabelAt(k, h)
    BY DEF Before
  <1>3. /\ m \in Nat \ {0} /\ h \in Nat \ {0} /\ Len(i) \in Nat /\ Len(j) \in Nat
        /\ \A l \in Nat \ {0} : LabelAt(i, l) \in Nat /\ LabelAt(j, l) \in Nat /\ LabelAt(k, l) \in Nat
    BY LabelIs
  <1>4. CASE m <= h
    <2>1. \A l \in 1 .. m - 1 : LabelAt(i, l) = LabelAt(k, l)
      <3>1. \A l \in 1 .. m - 1 : l \in 1 .. h - 1
        BY <1>3, <1>4
      <3> QED
        BY <1>1, <1>2, <3>1
    <2>2. LabelAt(j, m) <= LabelAt(k, m)
      <3>1. LabelAt(j, m) \in Nat /\ LabelAt(k, m) \in Nat
        BY <1>3
      <3>2. CASE m \in 1 .. h - 1
        <4>1. LabelAt(j, m) = LabelAt(k, m)
          BY <1>2, <3>2
        <4> QED
          BY <3>1, <4>1
      <3>3. CASE m = h
        <4>1. LabelAt(j, m) < LabelAt(k, m)
          BY <1>2, <3>3
        <4> QED
          BY <3>1, <4>1
      <3> QED
        BY <1>3, <1>4, <3>2, <3>3
    <2>3. LabelAt(i, m) < LabelAt(k, m)
      BY <1>1, <1>3, <2>2
    <2> QED
      BY <2>1, <2>3 DEF Before
  <1>5. CASE h < m
    <2>1. \A l \in 1 .. h - 1 : LabelAt(i, l) = LabelAt(k, l)
      <3>1. \A l \in 1 .. h - 1 : l \in 1 .. m - 1
        BY <1>3, <1>5
      <3> QED
        BY <1>1, <1>2, <3>1
    <2>2. h \in 1 .. m - 1 /\ h \in 1 .. Len(i) + 1
      BY <1>3, <1>5
    <2>3. LabelAt(i, h) < LabelAt(k, h)
      BY <1>1, <1>2, <2>2
    <2> QED
      BY <2>1, <2>2, <2>3 DEF Before
  <1> QED
    BY <1>3, <1>4, <1>5

\* Keys of which none is before its neighbour are in order.
LEMMA KeysAscend ==
    ASSUME input \in Inputs, NEW N \in 0 .. Len(input.keys),
           \A m \in 2 .. N : ~Before(input.keys[m], input.keys[m - 1])
    PROVE  \A m \in 1 .. N : \A i \in 1 .. m : input.keys[i] = input.keys[m] \/ Before(input.keys[i], input.keys[m])
  <1> DEFINE keys == input.keys
             T == {m \in 0 .. N : \A i \in 1 .. m : keys[i] = keys[m] \/ Before(keys[i], keys[m])}
  <1>1. Len(keys) \in Nat /\ \A m \in 1 .. Len(keys) : keys[m] \in Seq(1 .. MaxLabel)
    BY InputTypes
  <1>2. 0 \in T /\ N \in Nat
    BY <1>1
  <1>3. ASSUME NEW m \in 0 .. N - 1, m \in T PROVE m + 1 \in T
    <2>1. m + 1 \in 0 .. N /\ m + 1 \in 1 .. Len(keys) /\ (m + 1) - 1 = m /\ m \in Nat
      BY <1>1
    <2>2. ASSUME NEW i \in 1 .. m + 1 PROVE keys[i] = keys[m + 1] \/ Before(keys[i], keys[m + 1])
      <3>1. i = m + 1 \/ i \in 1 .. m
        BY <2>1
      <3>2. CASE i \in 1 .. m
        <4>1. m + 1 \in 2 .. N /\ m \in 1 .. Len(keys) /\ i \in 1 .. Len(keys)
          BY <1>1, <2>1, <3>2
        <4>2. ~Before(keys[m + 1], keys[m])
          BY <2>1, <4>1
        <4>3. keys[m] = keys[m + 1] \/ Before(keys[m], keys[m + 1])
          BY <1>1, <2>1, <4>1, <4>2, SameOrBefore
        <4>4. keys[i] = keys[m] \/ Before(keys[i], keys[m])
          BY <1>3, <3>2
        <4> QED
          BY <1>1, <2>1, <4>1, <4>3, <4>4, BeforeTwice
      <3> QED
        BY <3>1, <3>2
    <2> QED
      BY <2>1, <2>2
  <1> HIDE DEF T
  <1>4. \A m \in 0 .. N : m \in T
    BY <1>2, <1>3, UpTo
  <1>5. \A m \in 1 .. N : m \in 0 .. N
    OBVIOUS
  <1> QED
    BY <1>4, <1>5 DEF T

\* insert adds the word of the key, or finds the key there.
LEMMA InsertAdds ==
    ASSUME NEW d, DawgInv(d), Valued(d), Ascends(d), NEW R, Said(d, R), NEW j \in Seq(1 .. MaxLabel), Spells(d, j),
           NEW k \in Seq(1 .. MaxLabel), NEW tail, tail = 0 \/ Before(j, k),
           NEW v \in Nat, ~Refused(d, k, v, tail), NEW c, c = Insert(d, k, v, tail)
    PROVE  \/ j = k /\ c = d
           \/ Before(j, k) /\ Said(c, R \cup {KeyWord(k, v)})
  <1> DEFINE p == Parting(d, k, tail)
             e == Flush(d, p + 1)
  <1>0. p = Parting(d, k, tail) /\ e = Flush(d, p + 1)
    OBVIOUS
  <1>1. /\ p \in 1 .. Len(k) + 2
        /\ \A m \in 1 .. p - 1 : /\ m <= Len(k) + 1 /\ m <= Len(j) + 1
                                 /\ LabelAt(k, m) = LabelAt(j, m)
        /\ p <= Len(k) + 1 => /\ p <= Len(j) + 1 /\ p < Len(d.levels)
                              /\ Read(k, p, tail) = LabelAt(k, p)
                              /\ LabelAt(k, p) # LabelAt(j, p)
                              /\ Last(d.levels[p + 1]).label = LabelAt(j, p)
        /\ p > Len(k) + 1 => Len(j) = Len(k)
    BY PartsRightly
  <1>2. p > Len(k) + 1 => c = d
    BY DEF Insert
  <1>3. ~Before(k, j)
    <2>1. v \in Int
      OBVIOUS
    <2> QED
      BY <2>1, RefusedRightly
  <1> HIDE DEF p, e
  <1>4. Len(j) \in Nat /\ Len(k) \in Nat /\ p \in Nat /\ p >= 1 /\ p + 1 \in Nat /\ p + 1 >= 1
    BY <1>1
  <1>5. CASE p > Len(k) + 1
    <2>1. \A m \in 1 .. Len(k) : j[m] = k[m]
      <3> TAKE m \in 1 .. Len(k)
      <3>1. m \in 1 .. p - 1 /\ m \in Nat \ {0} /\ m <= Len(k) /\ m <= Len(j)
        BY <1>1, <1>4, <1>5
      <3>2. LabelAt(j, m) = j[m] /\ LabelAt(k, m) = k[m]
        BY <3>1, LabelIs
      <3> QED
        BY <1>1, <3>1, <3>2
    <2>2. j = k
      BY <1>1, <1>5, <2>1
    <2> QED
      BY <1>2, <1>5, <2>2
  <1>6. CASE p <= Len(k) + 1
    <2>1. j # k
      BY <1>1, <1>6
    <2>2. Before(j, k)
      BY <1>3, <2>1, SameOrBefore
    <2>3. Valued(e) /\ SameLabels(d, e)
      BY <1>0, <1>4, FlushOrders
    <2>4. Said(e, R)
      BY <1>0, <1>4, FlushDenotes
    <2>5. Inserted(d, k, v, p, e, c)
      <3>1. v \in Int
        OBVIOUS
      <3> QED
        BY <1>0, <1>6, <3>1, InsertParts
    <2>6. Len(e.levels) = p + 1
      <3>1. p < Len(d.levels) /\ Len(d.levels) \in Nat
        BY <1>1, <1>6 DEF DawgInv, Shaped, Automata
      <3> QED
        BY <1>4, <2>5, <3>1 DEF Inserted
    <2>7. ASSUME NEW m \in 1 .. p - 1 PROVE Last(e.levels[m + 1]).label = LabelAt(k, m)
      <3>1. m + 1 \in 1 .. Len(e.levels) /\ m \in 1 .. Len(j) + 1
        BY <1>1, <1>4, <2>6
      <3>2. Last(d.levels[m + 1]).label = LabelAt(j, m) /\ Len(d.levels) \in Nat
        BY <3>1 DEF Spells, DawgInv, Shaped, Automata
      <3>3. Len(d.levels[m + 1]) \in 1 .. Len(d.levels[m + 1])
        <4>1. m + 1 \in 1 .. Len(d.levels)
          BY <2>3, <2>6, <1>4, <3>1, <3>2 DEF SameLabels
        <4> QED
          BY <4>1 DEF DawgInv, Shaped, Automata
      <3>4. Last(e.levels[m + 1]).label = Last(d.levels[m + 1]).label
        BY <2>3, <3>1, <3>3 DEF SameLabels, Last
      <3> QED
        BY <1>1, <3>2, <3>4
    <2>8. Joins(e, k, p)
      BY <2>6, <2>7 DEF Joins
    <2>9. Said(c, R \cup {KeyWord(k, v)})
      BY <1>6, <2>3, <2>4, <2>5, <2>8, InsertDenotes
    <2> QED
      BY <2>2, <2>9
  <1> QED
    BY <1>1, <1>4, <1>5, <1>6

-----------------------------------------------------------------------------
(* The words of the keys. *)

Value(m) == IF Len(input.values) > 0 THEN input.values[m] ELSE m - 1
WordOf(m) == KeyWord(input.keys[m], Value(m))

\* Of equal keys from number b on the first counts.
FirstFrom(b, m) == \A j \in b .. m - 1 : input.keys[j] # input.keys[m]

Known(N) == {WordOf(m) : m \in {i \in 1 .. N : FirstFrom(1, i)}}

LEMMA KnownMore ==
    ASSUME NEW N \in Nat
    PROVE  /\ Known(0) = {}
           /\ FirstFrom(1, N + 1) => Known(N + 1) = Known(N) \cup {WordOf(N + 1)}
           /\ ~FirstFrom(1, N + 1) => Known(N + 1) = Known(N)
  <1>1. 1 .. 0 = {} /\ \A m : m \in 1 .. N + 1 <=> m \in 1 .. N \/ m = N + 1
    OBVIOUS
  <1>2. Known(0) = {}
    BY <1>1 DEF Known
  <1> DEFINE S(M) == {i \in 1 .. M : FirstFrom(1, i)}
  <1>3. \A M : Known(M) = {WordOf(m) : m \in S(M)}
    BY DEF Known
  <1>4. FirstFrom(1, N + 1) => S(N + 1) = S(N) \cup {N + 1}
    BY <1>1
  <1>5. ~FirstFrom(1, N + 1) => S(N + 1) = S(N)
    BY <1>1
  <1> HIDE DEF S
  <1>6. \A A, m : {WordOf(i) : i \in A \cup {m}} = {WordOf(i) : i \in A} \cup {WordOf(m)}
    OBVIOUS
  <1> QED
    BY <1>2, <1>3, <1>4, <1>5, <1>6

LEMMA InitSaid == Said(InitDawg, {})
  <1> DEFINE F == [s \in 1 .. 0 |-> {}]
             G == [l \in 2 .. 2 |-> {}]
  <1>1. /\ Len(InitDawg.levels) = 1 /\ Len(InitDawg.states) = 0 /\ Root(InitDawg) = 0
        /\ Len(InitDawg.levels[1]) = 1
    BY DEF InitDawg, Root
  <1>2. Denotes(InitDawg, F, G)
    <2>1. F \in [1 .. 0 -> SUBSET Words] /\ G \in [2 .. 1 + 1 -> SUBSET Words] /\ G[1 + 1] = {}
      OBVIOUS
    <2>2. \A s \in 1 .. 0 : FALSE
      OBVIOUS
    <2>3. \A l \in 2 .. 1 : FALSE
      OBVIOUS
    <2> HIDE DEF F, G
    <2> QED
      BY <1>1, <2>1, <2>2, <2>3 DEF Denotes
  <1> HIDE DEF F, G
  <1>3. Knows(InitDawg, F, G, {})
    BY <1>1 DEF Knows
  <1>4. OnPath(InitDawg)
    <2>1. \A l \in 1 .. 1 - 1 : FALSE
      OBVIOUS
    <2> QED
      BY <1>1, <2>1 DEF OnPath
  <1> QED
    BY <1>2, <1>3, <1>4 DEF Said

\* The first key.
LEMMA InsertFirstSaid ==
    ASSUME NEW k \in Seq(1 .. MaxLabel), Len(k) # 0, NEW tail, NEW v \in Nat,
           NEW c, c = Insert(InitDawg, k, v, tail)
    PROVE  Said(c, {KeyWord(k, v)})
  <1> DEFINE p == Parting(InitDawg, k, tail)
             e == Flush(InitDawg, p + 1)
  <1>0. p = Parting(InitDawg, k, tail) /\ e = Flush(InitDawg, p + 1)
    OBVIOUS
  <1> HIDE DEF p, e
  <1>1. Len(InitDawg.levels) = 1
    BY DEF InitDawg
  <1>2. DawgInv(InitDawg) /\ Shaped(InitDawg) /\ Valued(InitDawg)
    BY InitDawgInv, InitOrders DEF DawgInv
  <1>3. p = 1 /\ p <= Len(k) + 1
    <2>1. p \in 1 .. Len(k) + 2 /\ p <= Len(InitDawg.levels)
      BY <1>0, <1>2, PartingIs
    <2> QED
      BY <1>1, <2>1
  <1>4. Inserted(InitDawg, k, v, p, e, c)
    <2>1. v \in Int
      OBVIOUS
    <2> QED
      BY <1>0, <1>2, <1>3, <2>1, InsertParts
  <1>5. Len(e.levels) = 1
    BY <1>1, <1>3, <1>4 DEF Inserted
  <1>6. p + 1 \in Nat /\ p + 1 >= 1
    BY <1>3
  <1>7. Valued(e) /\ Said(e, {})
    BY <1>0, <1>2, <1>6, InitSaid, FlushOrders, FlushDenotes
  <1>8. Joins(e, k, p)
    <2>1. PICK F, G : Denotes(e, F, G) /\ Knows(e, F, G, {})
      BY <1>7 DEF Said
    <2>2. Root(e) = 0
      BY <1>5, <2>1 DEF Knows, Denotes
    <2>3. \A m \in 1 .. p - 1 : FALSE
      BY <1>3
    <2> QED
      BY <1>3, <1>5, <2>2, <2>3 DEF Joins
  <1>9. Said(c, {} \cup {KeyWord(k, v)})
    BY <1>3, <1>4, <1>7, <1>8, InsertDenotes
  <1>10. {} \cup {KeyWord(k, v)} = {KeyWord(k, v)}
    OBVIOUS
  <1> QED
    BY <1>9, <1>10

\* The automaton holds the words of the keys inserted.
WordsInv ==
    /\ KeysInv
    /\ ~Misled /\ Len(input.values) > 0 =>
          /\ stage = "insert" => Said(dawg, Known(n))
          /\ stage \in {"start", "arrange", "done"} =>
                Len(dawg.levels) = 1 /\ Said(dawg, Known(Len(input.keys)))

LEMMA BuildInitWords == BuildInit => WordsInv
  <1> SUFFICES ASSUME BuildInit PROVE WordsInv
    OBVIOUS
  <1>1. n = 0 /\ dawg = InitDawg /\ (Len(input.values) > 0 => stage = "insert")
    BY DEF BuildInit
  <1>2. Known(0) = {} /\ Said(InitDawg, {})
    BY KnownMore, InitSaid
  <1> QED
    BY <1>1, <1>2, BuildInitKeys DEF WordsInv

\* A key after another that is not the same was not there before.
LEMMA NewKey ==
    ASSUME input \in Inputs, n \in Nat \ {0}, n + 1 \in 1 .. Len(input.keys), \A m \in 1 .. n : Fine(m)
    PROVE  /\ input.keys[n] = input.keys[n + 1] => ~FirstFrom(1, n + 1)
           /\ Before(input.keys[n], input.keys[n + 1]) => FirstFrom(1, n + 1)
  <1> DEFINE keys == input.keys
  <1>1. /\ Len(keys) \in Nat /\ n \in 0 .. Len(keys) /\ n \in 1 .. (n + 1) - 1 /\ n \in 1 .. n
        /\ \A m \in 1 .. Len(keys) : keys[m] \in Seq(1 .. MaxLabel)
    BY InputTypes
  <1>2. keys[n] = keys[n + 1] => ~FirstFrom(1, n + 1)
    BY <1>1 DEF FirstFrom
  <1>3. ASSUME Before(keys[n], keys[n + 1]), NEW i \in 1 .. (n + 1) - 1
        PROVE  keys[i] # keys[n + 1]
    <2>1. i \in 1 .. n /\ i \in 1 .. Len(keys) /\ n \in 1 .. Len(keys) /\ n + 1 \in 1 .. Len(keys)
      BY <1>1
    <2>2. \A m \in 2 .. n : ~Before(keys[m], keys[m - 1])
      <3>1. \A m \in 2 .. n : m \in 1 .. n /\ m >= 2
        OBVIOUS
      <3> QED
        BY <3>1 DEF Fine
    <2>3. keys[i] = keys[n] \/ Before(keys[i], keys[n])
      BY <1>1, <2>1, <2>2, KeysAscend
    <2>4. Before(keys[i], keys[n + 1])
      BY <1>1, <1>3, <2>1, <2>3, BeforeTwice
    <2>5. ~Before(keys[n + 1], keys[i])
      BY <1>1, <2>1, <2>4, BeforeOneWay
    <2> QED
      BY <2>4, <2>5
  <1> QED
    BY <1>2, <1>3 DEF FirstFrom

LEMMA InsertKeyWords ==
    ASSUME WordsInv, InsertKey, ~Misled, stage' = "insert"
    PROVE  Said(dawg', Known(n + 1))
  <1> DEFINE k == input.keys[n + 1]
             v == input.values[n + 1]
             j == input.keys[n]
             c == Insert(dawg, k, v, input.tail)
  <1>1. /\ n \in Nat /\ n + 1 \in 1 .. Len(input.keys) /\ n' = n + 1 /\ Len(input.values) > 0
        /\ k \in Seq(1 .. MaxLabel) /\ v \in Int /\ DawgInv(dawg) /\ input \in Inputs /\ stage = "insert"
    <2>1. n \in Nat /\ n + 1 \in 1 .. Len(input.keys) /\ n' = n + 1 /\ stage = "insert"
      BY InputTypes DEF WordsInv, KeysInv, AutomatonInv, InsertKey
    <2>2. DawgInv(dawg) /\ input \in Inputs /\ Len(input.values) > 0
      BY <2>1 DEF WordsInv, KeysInv, AutomatonInv
    <2>3. k \in Seq(1 .. MaxLabel) /\ v \in Int
      BY <2>1, <2>2, InputTypes
    <2> QED
      BY <2>1, <2>2, <2>3
  <1>2. ~Refused(dawg, k, v, input.tail) /\ dawg' = c
    BY <1>1 DEF InsertKey
  <1>3. /\ Ascends(dawg) /\ (n > 0 => Spells(dawg, j)) /\ Valued(dawg)
        /\ \A m \in 1 .. n : Fine(m)
        /\ n = 0 => dawg = InitDawg
    BY <1>1 DEF WordsInv, KeysInv
  <1>4. Said(dawg, Known(n))
    BY <1>1 DEF WordsInv
  <1>5. v \in Nat /\ Len(k) # 0
    BY <1>1, <1>2 DEF Refused
  <1>6. WordOf(n + 1) = KeyWord(k, v)
    BY <1>1 DEF WordOf, Value
  <1>0. c = Insert(dawg, k, v, input.tail)
    OBVIOUS
  <1>7. CASE n = 0
    <2>1. FirstFrom(1, n + 1)
      <3>1. \A i \in 1 .. (n + 1) - 1 : FALSE
        BY <1>7
      <3> QED
        BY <3>1 DEF FirstFrom
    <2>2. Known(n + 1) = Known(0) \cup {WordOf(n + 1)}
      BY <1>7, <2>1, KnownMore
    <2>3. Known(n + 1) = {KeyWord(k, v)}
      BY <1>6, <2>2, KnownMore
    <2>4. c = Insert(InitDawg, k, v, input.tail)
      BY <1>3, <1>7
    <2> HIDE DEF c, k, v, j
    <2>5. Said(c, {KeyWord(k, v)})
      BY <1>1, <1>5, <2>4, InsertFirstSaid
    <2> QED
      BY <1>2, <2>3, <2>5
  <1>8. CASE n # 0
    <2>1. n \in 1 .. Len(input.keys) /\ n + 1 \in 2 .. Len(input.keys) /\ (n + 1) - 1 = n /\ n \in Nat \ {0}
      BY <1>1, <1>8, InputTypes
    <2>2. j \in Seq(1 .. MaxLabel) /\ Spells(dawg, j)
      BY <1>1, <1>3, <2>1, InputTypes
    <2>3. input.tail = 0 \/ Before(j, k)
      <3>1. Len(input.values) > 0
        BY <1>1
      <3>2. input.tail # 0 => \A m \in 2 .. Len(input.keys) : Before(input.keys[m - 1], input.keys[m])
        BY <3>1 DEF Misled
      <3> QED
        BY <2>1, <3>2
    <2>4. (j = k => ~FirstFrom(1, n + 1)) /\ (Before(j, k) => FirstFrom(1, n + 1))
      BY <1>1, <1>3, <2>1, NewKey
    <2> HIDE DEF c, k, v, j
    <2>5. \/ j = k /\ c = dawg
          \/ Before(j, k) /\ Said(c, Known(n) \cup {KeyWord(k, v)})
      <3>1. DawgInv(dawg) /\ Valued(dawg) /\ Ascends(dawg) /\ Said(dawg, Known(n)) /\ Spells(dawg, j)
        BY <1>1, <1>3, <1>4, <2>2
      <3>2. k \in Seq(1 .. MaxLabel) /\ v \in Nat /\ j \in Seq(1 .. MaxLabel)
        BY <1>1, <1>5, <2>2
      <3> DEFINE tail == input.tail
                 d == dawg
                 R == Known(n)
      <3>3. ~Refused(d, k, v, tail) /\ c = Insert(d, k, v, tail) /\ (tail = 0 \/ Before(j, k))
        BY <1>0, <1>2, <2>3
      <3>4. DawgInv(d) /\ Valued(d) /\ Ascends(d) /\ Said(d, R) /\ Spells(d, j)
        BY <3>1
      <3> HIDE DEF tail, d, R
      <3>5. \/ j = k /\ c = d
            \/ Before(j, k) /\ Said(c, R \cup {KeyWord(k, v)})
        BY <3>2, <3>3, <3>4, InsertAdds
      <3> QED
        BY <3>5 DEF d, R
    <2>6. CASE j = k /\ c = dawg
      <3>1. Known(n + 1) = Known(n)
        BY <1>1, <2>4, <2>6, KnownMore
      <3> QED
        BY <1>2, <1>4, <2>6, <3>1
    <2>7. CASE Before(j, k) /\ Said(c, Known(n) \cup {KeyWord(k, v)})
      <3>1. Known(n + 1) = Known(n) \cup {KeyWord(k, v)}
        BY <1>1, <1>6, <2>4, <2>7, KnownMore
      <3> QED
        BY <1>2, <2>7, <3>1
    <2> QED
      BY <2>5, <2>6, <2>7
  <1> QED
    BY <1>7, <1>8

LEMMA FlushAll ==
    ASSUME NEW d, DawgInv(d), NEW e, e = Flush(d, 1)
    PROVE  Len(e.levels) = 1
  <1> DEFINE L == Len(d.levels)
  <1>1. 1 \in Nat /\ 1 >= 1 /\ L >= 1 /\ L \in Nat
    BY DEF DawgInv, Shaped, Automata
  <1>2. Len(e.levels) = IF 1 < L THEN 1 ELSE L
    BY <1>1, FlushKeeps
  <1> HIDE DEF L
  <1>3. 1 < L \/ L = 1
    BY <1>1
  <1> QED
    BY <1>2, <1>3

LEMMA WordsKept == WordsInv /\ [BuildNext]_buildVars => WordsInv'
  <1> SUFFICES ASSUME WordsInv, [BuildNext]_buildVars PROVE WordsInv'
    OBVIOUS
  <1>0. KeysInv'
    BY KeysKept DEF WordsInv
  <1>a. ASSUME input' = input
        PROVE  (Misled' <=> Misled) /\ Known(Len(input.keys))' = Known(Len(input.keys))
    BY <1>a DEF Misled, Known, WordOf, Value, FirstFrom
  <1>1. CASE InsertKey
    <2>1. input' = input /\ n' = n + 1 /\ stage' \in {"insert", "error"}
      BY <1>1 DEF InsertKey
    <2>2. ASSUME ~Misled, stage' = "insert" PROVE Said(dawg', Known(n + 1))
      BY <1>1, <2>2, InsertKeyWords
    <2>3. Known(n)' = Known(n + 1) /\ (Misled' <=> Misled)
      BY <2>1 DEF Misled, Known, WordOf, Value, FirstFrom
    <2>4. ~Misled' /\ Len(input'.values) > 0 =>
            /\ stage' = "insert" => Said(dawg', Known(n)')
            /\ stage' \notin {"start", "arrange", "done"}
      BY <2>1, <2>2, <2>3
    <2> QED
      BY <1>0, <2>4 DEF WordsInv
  <1>2. CASE FinishDawg
    <2>1. /\ UNCHANGED <<input, n>> /\ stage = "insert" /\ stage' = "start"
          /\ n = Len(input.keys) /\ dawg' = Flush(dawg, 1)
      BY <1>2 DEF FinishDawg, Finish
    <2>2. DawgInv(dawg) /\ Valued(dawg)
      BY DEF WordsInv, KeysInv, AutomatonInv
    <2>3. Len(dawg'.levels) = 1
      BY <2>1, <2>2, FlushAll
    <2>4. ASSUME ~Misled, Len(input.values) > 0 PROVE Said(dawg', Known(Len(input.keys)))
      <3>1. Said(dawg, Known(Len(input.keys)))
        BY <2>1, <2>4 DEF WordsInv
      <3> QED
        BY <2>1, <2>2, <3>1, FlushDenotes
    <2>5. (Misled' <=> Misled) /\ Known(Len(input.keys))' = Known(Len(input.keys))
      BY <1>a, <2>1
    <2> QED
      BY <1>0, <2>1, <2>3, <2>4, <2>5 DEF WordsInv
  <1>3. ASSUME PlaceRoot \/ ReuseState \/ ArrangeState \/ ArrangeKeys \/ FixAll PROVE WordsInv'
    <2>1. /\ UNCHANGED <<input, n, dawg>> /\ stage \in {"start", "arrange"}
          /\ stage' \in {"arrange", "error", "done"}
      BY <1>3 DEF PlaceRoot, ReuseState, ArrangeState, ArrangeKeys, FixAll
    <2>2. (Misled' <=> Misled) /\ Known(Len(input.keys))' = Known(Len(input.keys))
      BY <1>a, <2>1
    <2> QED
      BY <1>0, <2>1, <2>2 DEF WordsInv
  <1>4. CASE UNCHANGED buildVars
    <2>1. /\ (Misled' <=> Misled) /\ Known(Len(input.keys))' = Known(Len(input.keys))
          /\ Known(n)' = Known(n)
      BY <1>4 DEF buildVars, Misled, Known, WordOf, Value, FirstFrom
    <2>2. UNCHANGED <<input, n, dawg, stage>>
      BY <1>4 DEF buildVars
    <2> QED
      BY <1>0, <2>1, <2>2 DEF WordsInv
  <1> QED
    BY <1>1, <1>2, <1>3, <1>4 DEF BuildNext

LEMMA WordsAlways == BuildSpec => []WordsInv
  BY BuildInitWords, WordsKept, PTL DEF BuildSpec

\* Once build starts on the array the automaton holds the words of the keys and no
\* other, each with the value of its first occurrence: insert and flush lose none
\* and, where a state is reused, add none.
THEOREM AutomatonHolds ==
    BuildSpec => [](stage = "start" /\ Len(input.values) > 0 /\ ~Misled =>
                      Said(dawg, Known(Len(input.keys))))
  <1>1. WordsInv => (stage = "start" /\ Len(input.values) > 0 /\ ~Misled =>
                       Said(dawg, Known(Len(input.keys))))
    BY DEF WordsInv
  <1> QED
    BY <1>1, WordsAlways, PTL

-----------------------------------------------------------------------------
(* Blocks, slots and offsets. *)

LEMMA Sizes ==
    /\ BlockSize \in Nat \ {0, 1} /\ Extras \in Nat \ {0} /\ Extras >= BlockSize
    /\ MaxOffset \in Nat \ {0} /\ MaxOffset % BlockSize = 0 /\ MaxOffset >= BlockSize + BlockSize
    /\ MaxLabel = BlockSize - 1
    /\ Extras = BlockSize * ExtraBlocks /\ ExtraBlocks \in Nat \ {0}
  <1>1. /\ BlockSize = MaxLabel + 1 /\ ExtraBlocks \in Nat \ {0} /\ 2 ^ OffsetBits \in Nat \ {0, 1}
    BY DoubleArrayAssumption
  <1>3. BlockSize \in Nat \ {0, 1}
    BY <1>1, MaxLabelAssumption
  <1>4. \A b, e \in Nat \ {0} : b * e \in Nat \ {0} /\ b * e >= b /\ (b * e) % b = 0
    OBVIOUS
  <1>5. \A b \in Nat, e \in Nat \ {0, 1} : b * e >= b + b
    <2> SUFFICES ASSUME NEW b \in Nat, NEW e \in Nat \ {0, 1} PROVE b * e >= b + b
      OBVIOUS
    <2>1. b * (e - 2) >= 0 /\ b * e = b * (e - 2) + b + b
      OBVIOUS
    <2> QED
      BY <2>1
  <1> DEFINE p == 2 ^ OffsetBits
  <1>6. MaxOffset = BlockSize * p
    BY DEF MaxOffset
  <1>7. p \in Nat \ {0, 1}
    BY <1>1
  <1> HIDE DEF p
  <1>8. MaxOffset \in Nat \ {0} /\ MaxOffset % BlockSize = 0 /\ MaxOffset >= BlockSize + BlockSize
    BY <1>3, <1>4, <1>5, <1>6, <1>7
  <1>9. Extras \in Nat \ {0} /\ Extras >= BlockSize
    BY <1>1, <1>3, <1>4 DEF Extras
  <1> QED
    BY <1>1, <1>3, <1>8, <1>9, MaxLabelAssumption DEF Extras

LEMMA LowBlock ==
    ASSUME NEW x \in Nat
    PROVE  /\ Low(x) \in 0 .. BlockSize - 1 /\ Block(x) \in Nat /\ Block(x) <= x
           /\ x = BlockSize * Block(x) + Low(x)
           /\ Slot(x) \in 0 .. Extras - 1
  BY Sizes DEF Low, Block, Slot

\* Numbers of one block.
LEMMA SameBlock ==
    ASSUME NEW x \in Nat, NEW y \in Nat, NEW size \in Nat, size % BlockSize = 0, Block(x) = Block(y)
    PROVE  x < size <=> y < size
  <1>1. \A b \in Nat \ {0} : \A v, q \in Nat : \A r \in 0 .. b - 1 :
            v % b = 0 /\ b * q < v => b * q + r < v
    <2> SUFFICES ASSUME NEW b \in Nat \ {0}, NEW v \in Nat, NEW q \in Nat, NEW r \in 0 .. b - 1,
                        v % b = 0, b * q < v
                 PROVE  b * q + r < v
      OBVIOUS
    <2>1. v = b * (v \div b) /\ v \div b \in Nat
      OBVIOUS
    <2>2. q < v \div b
      BY <2>1
    <2>3. b * (q + 1) <= b * (v \div b)
      BY <2>1, <2>2
    <2> QED
      BY <2>1, <2>3
  <1> DEFINE q == Block(x)
  <1>2. q \in Nat /\ Low(x) \in 0 .. BlockSize - 1 /\ Low(y) \in 0 .. BlockSize - 1
        /\ x = BlockSize * q + Low(x) /\ y = BlockSize * q + Low(y)
    BY LowBlock
  <1>3. BlockSize \in Nat \ {0}
    BY Sizes
  <1> HIDE DEF q
  <1>4. BlockSize * q \in Nat
    BY <1>2, <1>3
  <1>5. BlockSize * q < size => BlockSize * q + Low(x) < size
    BY <1>1, <1>2, <1>3
  <1>6. BlockSize * q < size => BlockSize * q + Low(y) < size
    BY <1>1, <1>2, <1>3
  <1> QED
    BY <1>2, <1>3, <1>4, <1>5, <1>6

\* Another block fits where it begins below the limit.
LEMMA RoomForBlock ==
    ASSUME NEW x \in Nat, NEW y \in Nat, x % BlockSize = 0, y % BlockSize = 0, x < y
    PROVE  x + BlockSize <= y /\ (x + BlockSize) % BlockSize = 0
  <1>1. \A b \in Nat \ {0} : \A v, w \in Nat :
            v % b = 0 /\ w % b = 0 /\ v < w => v + b <= w /\ (v + b) % b = 0
    <2> SUFFICES ASSUME NEW b \in Nat \ {0}, NEW v \in Nat, NEW w \in Nat,
                        v % b = 0, w % b = 0, v < w
                 PROVE  v + b <= w /\ (v + b) % b = 0
      OBVIOUS
    <2>1. v = b * (v \div b) /\ v \div b \in Nat /\ w = b * (w \div b) /\ w \div b \in Nat
      OBVIOUS
    <2>2. v \div b < w \div b
      BY <2>1
    <2>3. b * (v \div b + 1) <= b * (w \div b) /\ b * (v \div b + 1) = v + b
      BY <2>1, <2>2
    <2>4. (b * (v \div b + 1)) % b = 0
      BY <2>1
    <2> QED
      BY <2>1, <2>3, <2>4
  <1> QED
    BY <1>1, Sizes

LEMMA BlockMore == ASSUME NEW x \in Nat, x % BlockSize = 0 PROVE (x + BlockSize) % BlockSize = 0
  <1>1. \A b \in Nat \ {0} : \A v \in Nat : v % b = 0 => (v + b) % b = 0
    <2> SUFFICES ASSUME NEW b \in Nat \ {0}, NEW v \in Nat, v % b = 0 PROVE (v + b) % b = 0
      OBVIOUS
    <2>1. v = b * (v \div b) /\ v \div b \in Nat
      OBVIOUS
    <2>2. b * (v \div b + 1) = v + b /\ (b * (v \div b + 1)) % b = 0
      BY <2>1
    <2> QED
      BY <2>2
  <1> QED
    BY <1>1, Sizes

\* Ids no further apart than there are slots have slots of their own.
LEMMA OwnSlot ==
    ASSUME NEW x \in Nat, NEW y \in Nat, x < y, y < x + Extras
    PROVE  Slot(x) # Slot(y)
  <1>1. \A m \in Nat \ {0} : \A a, b \in Nat : a < b /\ b < a + m => a % m # b % m
    <2> SUFFICES ASSUME NEW m \in Nat \ {0}, NEW a \in Nat, NEW b \in Nat, a < b, b < a + m,
                        a % m = b % m
                 PROVE  FALSE
      OBVIOUS
    <2>1. a = m * (a \div m) + (a % m) /\ b = m * (b \div m) + (b % m)
          /\ a \div m \in Nat /\ b \div m \in Nat
      OBVIOUS
    <2> DEFINE q == b \div m - a \div m
    <2>2. m * q = b - a
      BY <2>1
    <2>3. CASE q >= 1
      <3>1. m * q >= m
        BY <2>1, <2>3
      <3> QED
        BY <2>2, <3>1
    <2>4. CASE q <= 0
      <3>1. m * q <= 0
        BY <2>1, <2>4
      <3> QED
        BY <2>2, <3>1
    <2> QED
      BY <2>1, <2>3, <2>4
  <1> QED
    BY <1>1, Sizes DEF Slot

-----------------------------------------------------------------------------
(* Exclusive or. *)

LEMMA XorLaws ==
    ASSUME NEW x \in Numbers, NEW y \in Numbers
    PROVE  /\ XorOf(x, y) \in Numbers
           /\ XorOf(x, y) = XorOf(y, x) /\ XorOf(x, 0) = x /\ XorOf(x, x) = 0
           /\ x < MaxOffset /\ y < MaxOffset => XorOf(x, y) < MaxOffset
           /\ Low(XorOf(x, y)) = 0 <=> Low(x) = Low(y)
           /\ Block(XorOf(x, y)) = 0 <=> Block(x) = Block(y)
           /\ \A z \in Numbers : XorOf(XorOf(x, y), z) = XorOf(x, XorOf(y, z))
  BY XorAssumption

LEMMA XorBack ==
    ASSUME NEW x \in Numbers, NEW y \in Numbers
    PROVE  XorOf(x, XorOf(x, y)) = y
  <1>1. XorOf(XorOf(x, x), y) = XorOf(x, XorOf(x, y))
    BY XorLaws
  <1>2. 0 \in Numbers
    BY Sizes DEF Numbers
  <1>3. XorOf(x, x) = 0 /\ XorOf(0, y) = XorOf(y, 0) /\ XorOf(y, 0) = y
    BY <1>2, XorLaws
  <1> QED
    BY <1>1, <1>3

\* A child is in the block of its offset.
LEMMA ChildBlock ==
    ASSUME NEW offset \in Numbers, NEW label \in 0 .. MaxLabel
    PROVE  /\ label \in Numbers /\ label < MaxOffset /\ XorOf(offset, label) \in Nat
           /\ Block(XorOf(offset, label)) = Block(offset)
           /\ XorOf(offset, label) < MaxOffset <=> offset < MaxOffset
  <1>1. label \in Numbers /\ label < MaxOffset
    BY Sizes DEF Numbers
  <1> DEFINE child == XorOf(offset, label)
  <1>2. child \in Numbers /\ XorOf(offset, child) = label
    BY <1>1, XorLaws, XorBack
  <1>3. Block(label) = 0
    <2>1. \A b \in Nat \ {0} : \A l \in 0 .. b - 1 : l \div b = 0
      OBVIOUS
    <2> QED
      BY <2>1, Sizes DEF Block
  <1>4. Block(offset) = Block(child)
    BY <1>2, <1>3, XorLaws
  <1>5. child \in Nat /\ offset \in Nat
    BY <1>2, Sizes DEF Numbers
  <1> QED
    BY <1>1, <1>4, <1>5, Sizes, SameBlock

-----------------------------------------------------------------------------
(* The array while it is built: its types. *)

Units == [label : 0 .. MaxLabel, isLeaf : BOOLEAN, value : Nat,
          hasLeaf : BOOLEAN, offset : 0 .. MaxOffset - 1]
ExtraUnits == [prev : Nat, next : Nat, fixed : BOOLEAN, used : BOOLEAN]
Slots == 0 .. Extras - 1

\* Links lead to units there are, and at first to none.
Linked(a) ==
    \A s \in Slots : /\ a.extras[s].prev = 0 \/ a.extras[s].prev < a.size
                     /\ a.extras[s].next = 0 \/ a.extras[s].next < a.size

ArrayOK(a) ==
    /\ DOMAIN a = {"size", "units", "extras", "head"}
    /\ a.size \in Nat /\ a.size % BlockSize = 0 /\ a.size <= MaxOffset
    /\ DOMAIN a.units = 0 .. a.size - 1
    /\ \A id \in 0 .. a.size - 1 : a.units[id] \in Units
    /\ a.extras \in [Slots -> ExtraUnits]
    /\ Linked(a)
    /\ a.head \in 0 .. a.size

LEMMA InitArrayOK == ArrayOK(InitArray)
  <1>1. Untouched \in ExtraUnits /\ Untouched.prev = 0 /\ Untouched.next = 0
    BY DEF Untouched, ExtraUnits
  <1>2. 0 % BlockSize = 0
    BY Sizes
  <1> QED
    BY <1>1, <1>2, Sizes DEF ArrayOK, InitArray, Linked, Slots

LEMMA FixEffect ==
    ASSUME NEW a, ArrayOK(a), NEW id \in Nat
    PROVE  LET e == Fix(a, id)
               prev == Extra(a, id).prev
               next == Extra(a, id).next
           IN  /\ DOMAIN e = DOMAIN a /\ e.size = a.size /\ e.units = a.units
               /\ e.head = IF id # a.head THEN a.head ELSE IF next = id THEN a.size ELSE next
               /\ e.extras \in [Slots -> ExtraUnits]
               /\ \A s \in Slots :
                    /\ e.extras[s].fixed <=> s = Slot(id) \/ a.extras[s].fixed
                    /\ e.extras[s].used = a.extras[s].used
                    /\ e.extras[s].next = IF s = Slot(prev) THEN next ELSE a.extras[s].next
                    /\ e.extras[s].prev = IF s = Slot(next) THEN prev ELSE a.extras[s].prev
  <1> DEFINE e == Fix(a, id)
             prev == Extra(a, id).prev
             next == Extra(a, id).next
             x == [a.extras EXCEPT ![Slot(prev)].next = next]
             y == [x EXCEPT ![Slot(next)].prev = prev]
             z == [y EXCEPT ![Slot(id)].fixed = TRUE]
  <1>1. a.extras \in [Slots -> ExtraUnits] /\ DOMAIN a = {"size", "units", "extras", "head"}
    BY DEF ArrayOK
  <1>2. Slot(id) \in Slots
    BY LowBlock DEF Slots
  <1>3. prev \in Nat /\ next \in Nat
    BY <1>1, <1>2 DEF Extra, ExtraUnits
  <1>4. Slot(prev) \in Slots /\ Slot(next) \in Slots
    BY <1>3, LowBlock DEF Slots
  <1>5. /\ DOMAIN e = DOMAIN a /\ e.size = a.size /\ e.units = a.units /\ e.extras = z
        /\ e.head = IF id # a.head THEN a.head ELSE IF next = id THEN a.size ELSE next
    BY <1>1 DEF Fix
  <1> HIDE DEF e, prev, next
  <1>6. x \in [Slots -> ExtraUnits]
        /\ \A s \in Slots : x[s] = [a.extras[s] EXCEPT !.next = IF s = Slot(prev) THEN next ELSE @]
    BY <1>1, <1>3, <1>4 DEF ExtraUnits
  <1> HIDE DEF x
  <1>7. y \in [Slots -> ExtraUnits]
        /\ \A s \in Slots : y[s] = [x[s] EXCEPT !.prev = IF s = Slot(next) THEN prev ELSE @]
    BY <1>3, <1>4, <1>6 DEF ExtraUnits
  <1> HIDE DEF y
  <1>8. z \in [Slots -> ExtraUnits]
        /\ \A s \in Slots : z[s] = [y[s] EXCEPT !.fixed = IF s = Slot(id) THEN TRUE ELSE @]
    BY <1>2, <1>7 DEF ExtraUnits
  <1> HIDE DEF z
  <1>9. ASSUME NEW s \in Slots
        PROVE  /\ z[s].fixed <=> s = Slot(id) \/ a.extras[s].fixed
               /\ z[s].used = a.extras[s].used
               /\ z[s].next = IF s = Slot(prev) THEN next ELSE a.extras[s].next
               /\ z[s].prev = IF s = Slot(next) THEN prev ELSE a.extras[s].prev
    <2>1. a.extras[s] \in ExtraUnits /\ x[s] \in ExtraUnits /\ y[s] \in ExtraUnits
      BY <1>1, <1>6, <1>7
    <2>2. /\ x[s].fixed = a.extras[s].fixed /\ x[s].used = a.extras[s].used
          /\ x[s].prev = a.extras[s].prev
          /\ x[s].next = IF s = Slot(prev) THEN next ELSE a.extras[s].next
      BY <1>6, <2>1 DEF ExtraUnits
    <2>3. /\ y[s].fixed = x[s].fixed /\ y[s].used = x[s].used
          /\ y[s].next = x[s].next
          /\ y[s].prev = IF s = Slot(next) THEN prev ELSE x[s].prev
      BY <1>7, <2>1 DEF ExtraUnits
    <2>4. /\ z[s].fixed = IF s = Slot(id) THEN TRUE ELSE y[s].fixed
          /\ z[s].used = y[s].used /\ z[s].next = y[s].next /\ z[s].prev = y[s].prev
      BY <1>8, <2>1 DEF ExtraUnits
    <2> QED
      BY <2>2, <2>3, <2>4
  <1> QED
    BY <1>5, <1>8, <1>9 DEF e, prev, next

LEMMA FixOK ==
    ASSUME NEW a, ArrayOK(a), NEW id \in Nat, a.size > 0
    PROVE  ArrayOK(Fix(a, id))
  <1> DEFINE e == Fix(a, id)
             prev == Extra(a, id).prev
             next == Extra(a, id).next
  <1>1. /\ DOMAIN e = DOMAIN a /\ e.size = a.size /\ e.units = a.units
        /\ e.head = IF id # a.head THEN a.head ELSE IF next = id THEN a.size ELSE next
        /\ e.extras \in [Slots -> ExtraUnits]
        /\ \A s \in Slots :
             /\ e.extras[s].next = IF s = Slot(prev) THEN next ELSE a.extras[s].next
             /\ e.extras[s].prev = IF s = Slot(next) THEN prev ELSE a.extras[s].prev
    BY FixEffect
  <1>2. Slot(id) \in Slots
    BY LowBlock DEF Slots
  <1>3. /\ prev = 0 \/ prev < a.size
        /\ next = 0 \/ next < a.size
        /\ prev \in Nat /\ next \in Nat /\ a.size \in Nat
    BY <1>2 DEF ArrayOK, Linked, Extra, ExtraUnits
  <1> HIDE DEF e, prev, next
  <1>4. Linked(e)
    BY <1>1, <1>3 DEF ArrayOK, Linked
  <1>5. e.head \in 0 .. a.size
    BY <1>1, <1>3 DEF ArrayOK
  <1>6. ArrayOK(e)
    BY <1>1, <1>4, <1>5 DEF ArrayOK
  <1> QED
    BY <1>6 DEF e

-----------------------------------------------------------------------------
(* The ring, as the sequence of the ids it links from its head on. *)

Window(a) == {id \in 0 .. a.size - 1 : id >= a.size - Extras}
Free(a) == {id \in Window(a) : ~Extra(a, id).fixed}

After(r, i) == r[IF i = Len(r) THEN 1 ELSE i + 1]
Ahead(r, i) == r[IF i = 1 THEN Len(r) ELSE i - 1]

Chained(a, r) ==
    /\ r \in Seq(Nat)
    /\ \A i, j \in 1 .. Len(r) : r[i] = r[j] => i = j
    /\ \A i \in 1 .. Len(r) : r[i] \in Free(a)
    /\ \A id \in Free(a) : \E i \in 1 .. Len(r) : r[i] = id
    /\ a.head = IF Len(r) = 0 THEN a.size ELSE r[1]
    /\ \A i \in 1 .. Len(r) : /\ Extra(a, r[i]).next = After(r, i)
                              /\ Extra(a, r[i]).prev = Ahead(r, i)

HasRing(a) == \E r : Chained(a, r)

LEMMA WindowSlots ==
    ASSUME NEW a, a.size \in Nat, NEW x \in Window(a), NEW y \in Window(a), x # y
    PROVE  Slot(x) # Slot(y) /\ Slot(x) \in Slots
  <1>1. x \in Nat /\ y \in Nat /\ (x < y \/ y < x) /\ y < x + Extras /\ x < y + Extras
    BY Sizes DEF Window
  <1> QED
    BY <1>1, OwnSlot, LowBlock DEF Slots

\* What is outside the units of the array has no part in it.
LEMMA RingOnly ==
    ASSUME NEW a, NEW e, HasRing(a), e.size = a.size, e.extras = a.extras, e.head = a.head
    PROVE  HasRing(e)
  <1>1. PICK r : Chained(a, r)
    BY DEF HasRing
  <1>2. Chained(e, r)
    BY <1>1 DEF Chained, Free, Window, Extra
  <1> QED
    BY <1>2 DEF HasRing

\* Where, in a ring without its place j, the neighbours of a place were.
LEMMA Neighbours ==
    ASSUME NEW L \in Nat, L >= 2, NEW j \in 1 .. L, NEW i \in 1 .. L - 1
    PROVE  LET Was(x) == IF x < j THEN x ELSE x + 1
               w == Was(i)
               before == IF j = 1 THEN L ELSE j - 1
               behind == IF j = L THEN 1 ELSE j + 1
           IN  /\ Was(IF i = L - 1 THEN 1 ELSE i + 1) =
                     IF w = before THEN behind ELSE IF w = L THEN 1 ELSE w + 1
               /\ Was(IF i = 1 THEN L - 1 ELSE i - 1) =
                     IF w = behind THEN before ELSE IF w = 1 THEN L ELSE w - 1
  OBVIOUS

\* Taking one id out of the ring.
LEMMA FixRing ==
    ASSUME NEW a, ArrayOK(a), NEW r, Chained(a, r), NEW j \in 1 .. Len(r)
    PROVE  HasRing(Fix(a, r[j]))
  <1> DEFINE id == r[j]
             e == Fix(a, id)
             L == Len(r)
             prev == Extra(a, id).prev
             next == Extra(a, id).next
             q == [i \in 1 .. L - 1 |-> IF i < j THEN r[i] ELSE r[i + 1]]
  <1>1. /\ r \in Seq(Nat) /\ L \in Nat /\ j \in 1 .. L
        /\ \A i \in 1 .. L : r[i] \in Nat /\ r[i] \in Window(a) /\ ~Extra(a, r[i]).fixed
        /\ \A i, k \in 1 .. L : r[i] = r[k] => i = k
    BY DEF Chained, Free
  <1>2. /\ e.size = a.size
        /\ e.head = IF id # a.head THEN a.head ELSE IF next = id THEN a.size ELSE next
        /\ \A s \in Slots :
             /\ e.extras[s].fixed <=> s = Slot(id) \/ a.extras[s].fixed
             /\ e.extras[s].next = IF s = Slot(prev) THEN next ELSE a.extras[s].next
             /\ e.extras[s].prev = IF s = Slot(next) THEN prev ELSE a.extras[s].prev
    BY <1>1, FixEffect
  <1>3. next = After(r, j) /\ prev = Ahead(r, j)
    BY DEF Chained
  <1>4. a.size \in Nat
    BY DEF ArrayOK
  <1>5. \A i, k \in 1 .. L : Slot(r[i]) = Slot(r[k]) => i = k
    BY <1>1, <1>4, WindowSlots
  <1>6. \A i \in 1 .. L : Slot(r[i]) \in Slots
    BY <1>1, LowBlock DEF Slots
  <1> HIDE DEF e, prev, next
  <1>7. q \in Seq(Nat) /\ Len(q) = L - 1
    BY <1>1
  <1>8. \A i \in 1 .. L - 1 : q[i] = IF i < j THEN r[i] ELSE r[i + 1]
    OBVIOUS
  <1> HIDE DEF q
  <1>18. L \in Nat /\ j \in 1 .. L /\ L >= 1 /\ Len(q) = L - 1
    BY <1>1, <1>7
  \* Where in r what is in q was.
  <1> DEFINE Was(i) == IF i < j THEN i ELSE i + 1
  <1>9. \A i \in 1 .. L - 1 : Was(i) \in 1 .. L /\ Was(i) # j /\ q[i] = r[Was(i)]
    BY <1>1, <1>8
  <1>10. \A i, k \in 1 .. Len(q) : q[i] = q[k] => i = k
    <2> SUFFICES ASSUME NEW i \in 1 .. L - 1, NEW k \in 1 .. L - 1, q[i] = q[k] PROVE i = k
      BY <1>7
    <2>1. Was(i) = Was(k)
      BY <1>1, <1>9
    <2> QED
      BY <1>1, <2>1
  <1>11. \A x \in Window(a) : x # id => Slot(x) # Slot(id) /\ Slot(x) \in Slots
    BY <1>1, <1>4, WindowSlots
  <1>12. Free(e) = Free(a) \ {id}
    <2>1. Window(e) = Window(a)
      BY <1>2 DEF Window
    <2>2. ~ (id \in Free(e))
      BY <1>1, <1>2, <1>6 DEF Free, Extra
    <2>3. \A x \in Window(a) : x # id => (x \in Free(e) <=> x \in Free(a))
      BY <1>2, <1>11, <2>1 DEF Free, Extra
    <2> QED
      BY <2>1, <2>2, <2>3 DEF Free
  <1>13. \A i \in 1 .. Len(q) : q[i] \in Free(e)
    BY <1>1, <1>7, <1>9, <1>12 DEF Free
  <1>14. \A x \in Free(e) : \E i \in 1 .. Len(q) : q[i] = x
    <2> SUFFICES ASSUME NEW x \in Free(a), x # id
                 PROVE  \E i \in 1 .. Len(q) : q[i] = x
      BY <1>12
    <2>1. PICK k \in 1 .. L : r[k] = x
      BY DEF Chained
    <2>2. CASE k < j
      <3>1. k \in 1 .. L - 1 /\ q[k] = r[k]
        BY <1>1, <1>8, <2>1, <2>2
      <3> QED
        BY <1>7, <2>1, <3>1
    <2>3. CASE k > j
      <3>1. k - 1 \in 1 .. L - 1 /\ q[k - 1] = r[k]
        BY <1>1, <1>8, <2>1, <2>3
      <3> QED
        BY <1>7, <2>1, <3>1
    <2> QED
      BY <1>1, <2>1, <2>2, <2>3
  <1>15. e.head = IF Len(q) = 0 THEN e.size ELSE q[1]
    <2>1. a.head = r[1] /\ 1 \in 1 .. L
      BY <1>1 DEF Chained
    <2>2. CASE j # 1
      <3>1. id # a.head
        BY <1>1, <2>1, <2>2
      <3>2. 1 \in 1 .. L - 1 /\ 1 < j
        BY <1>1, <2>2
      <3> QED
        BY <1>2, <1>7, <1>8, <2>1, <3>1, <3>2
    <2>3. CASE j = 1 /\ L = 1
      BY <1>2, <1>3, <1>7, <2>1, <2>3 DEF After
    <2>4. CASE j = 1 /\ L # 1
      <3>2. L >= 2 /\ 2 \in 1 .. L /\ 1 \in 1 .. L - 1
        <4> HIDE DEF L
        <4> QED
          BY <1>18, <2>4
      <3>3. next = r[2]
        BY <1>3, <2>4, <3>2 DEF After
      <3>4. r[2] # r[1]
        BY <1>1, <3>2
      <3>1. next = r[2] /\ next # id /\ 1 \in 1 .. L - 1
        BY <2>4, <3>2, <3>3, <3>4
      <3> QED
        BY <1>2, <1>7, <1>8, <2>1, <2>4, <3>1
    <2> QED
      BY <2>2, <2>3, <2>4
  <1>16. ASSUME NEW i \in 1 .. Len(q)
         PROVE  Extra(e, q[i]).next = After(q, i) /\ Extra(e, q[i]).prev = Ahead(q, i)
    <2> DEFINE w == Was(i)
               before == IF j = 1 THEN L ELSE j - 1
               behind == IF j = L THEN 1 ELSE j + 1
    <2>1. w \in 1 .. L /\ w # j /\ q[i] = r[w] /\ L >= 2
      BY <1>1, <1>7, <1>9
    <2>2. /\ before \in 1 .. L /\ prev = r[before]
          /\ behind \in 1 .. L /\ next = r[behind]
      BY <1>1, <1>3 DEF After, Ahead
    <2>3. /\ Slot(q[i]) = Slot(prev) <=> w = before
          /\ Slot(q[i]) = Slot(next) <=> w = behind
          /\ Slot(q[i]) \in Slots
      BY <1>5, <1>6, <2>1, <2>2
    <2>4. Extra(a, r[w]).next = After(r, w) /\ Extra(a, r[w]).prev = Ahead(r, w)
      BY <2>1 DEF Chained
    <2>5. /\ Extra(e, q[i]).next = IF w = before THEN next ELSE After(r, w)
          /\ Extra(e, q[i]).prev = IF w = behind THEN prev ELSE Ahead(r, w)
      BY <1>2, <2>1, <2>3, <2>4 DEF Extra
    <2> HIDE DEF w
    <2>6. w = Was(i)
      BY DEF w
    <2> DEFINE k == IF i = L - 1 THEN 1 ELSE i + 1
               g == IF i = 1 THEN L - 1 ELSE i - 1
    <2>7. /\ i \in 1 .. L - 1 /\ k \in 1 .. L - 1 /\ g \in 1 .. L - 1
          /\ After(q, i) = r[Was(k)] /\ Ahead(q, i) = r[Was(g)]
      <3>1. i \in 1 .. L - 1 /\ k \in 1 .. L - 1 /\ g \in 1 .. L - 1
        <4> HIDE DEF L
        <4> QED
          BY <1>18, <2>1
      <3>2. After(q, i) = q[k] /\ Ahead(q, i) = q[g]
        BY <1>7 DEF After, Ahead
      <3> HIDE DEF k, g
      <3> QED
        BY <1>9, <3>1, <3>2
    <2>8. /\ Was(k) = IF w = before THEN behind ELSE IF w = L THEN 1 ELSE w + 1
          /\ Was(g) = IF w = behind THEN before ELSE IF w = 1 THEN L ELSE w - 1
      <3>1. L \in Nat /\ L >= 2 /\ j \in 1 .. L /\ i \in 1 .. L - 1
        BY <1>18, <2>1, <2>7
      <3> HIDE DEF L
      <3> QED
        BY <2>6, <3>1, Neighbours
    <2> HIDE DEF k, g
    <2>9. /\ (IF w = before THEN next ELSE After(r, w)) = After(q, i)
          /\ (IF w = behind THEN prev ELSE Ahead(r, w)) = Ahead(q, i)
      <3> HIDE DEF Was, before, behind
      <3> QED
        BY <2>2, <2>7, <2>8 DEF After, Ahead
    <2> QED
      BY <2>5, <2>9
  <1>17. Chained(e, q)
    BY <1>7, <1>10, <1>13, <1>14, <1>15, <1>16 DEF Chained
  <1> QED
    BY <1>17 DEF HasRing, e

-----------------------------------------------------------------------------
(* Fixing units, one and a block of them. *)

\* Array e is a with units fixed: what was fixed still is, and no unit refers
\* elsewhere.
Fixes(a, e) ==
    /\ ArrayOK(e) /\ e.size = a.size
    /\ \A s \in Slots : a.extras[s].fixed => e.extras[s].fixed
    /\ \A id \in 0 .. a.size - 1 : e.units[id].offset = a.units[id].offset

LEMMA FixUnitFixes ==
    ASSUME NEW a, ArrayOK(a), NEW id \in 0 .. a.size - 1, NEW unused \in Numbers
    PROVE  /\ Fixes(a, FixUnit(a, id, unused))
           /\ Extra(FixUnit(a, id, unused), id).fixed
           /\ HasRing(a) /\ id \in Window(a) => HasRing(FixUnit(a, id, unused))
  <1>1. a.size \in Nat /\ id \in Nat /\ Slot(id) \in Slots
    BY LowBlock DEF ArrayOK, Slots
  <1>2. CASE Extra(a, id).fixed
    BY <1>2 DEF FixUnit, Fixes
  <1>3. CASE ~Extra(a, id).fixed
    <2> DEFINE e == Fix(a, id)
               label == Low(XorOf(id, unused))
               f == [e EXCEPT !.units[id].label = label]
    <2>1. FixUnit(a, id, unused) = f
      BY <1>3 DEF FixUnit
    <2>2. ArrayOK(e)
      BY <1>1, FixOK
    <2>3. /\ DOMAIN e = DOMAIN a /\ e.size = a.size /\ e.units = a.units
          /\ \A s \in Slots : e.extras[s].fixed <=> s = Slot(id) \/ a.extras[s].fixed
      BY <1>1, FixEffect
    <2>4. label \in 0 .. MaxLabel
      <3>1. id \in Numbers
        BY Sizes DEF ArrayOK, Numbers
      <3>2. XorOf(id, unused) \in Nat
        BY <3>1, XorLaws, Sizes DEF Numbers
      <3> QED
        BY <3>2, LowBlock, Sizes
    <2> HIDE DEF e, label
    <2>5. /\ DOMAIN f = {"size", "units", "extras", "head"}
          /\ f.size = e.size /\ f.extras = e.extras /\ f.head = e.head
          /\ f.units = [e.units EXCEPT ![id].label = label]
      BY <2>2 DEF ArrayOK
    <2> HIDE DEF f
    <2>6. /\ DOMAIN f.units = 0 .. a.size - 1
          /\ \A k \in 0 .. a.size - 1 : /\ f.units[k] \in Units
                                        /\ f.units[k].offset = a.units[k].offset
      <3>1. \A k \in 0 .. a.size - 1 :
               f.units[k] = IF k = id THEN [e.units[k] EXCEPT !.label = label] ELSE e.units[k]
        BY <2>2, <2>3, <2>5 DEF ArrayOK
      <3>2. \A k \in 0 .. a.size - 1 : e.units[k] \in Units
        BY <2>2, <2>3 DEF ArrayOK
      <3>3. \A u \in Units : /\ [u EXCEPT !.label = label] \in Units
                             /\ [u EXCEPT !.label = label].offset = u.offset
        BY <2>4 DEF Units
      <3> QED
        BY <2>2, <2>3, <2>5, <3>1, <3>2, <3>3 DEF ArrayOK
    <2>7. ArrayOK(f)
      BY <2>2, <2>3, <2>5, <2>6 DEF ArrayOK, Linked
    <2>8. Fixes(a, f)
      BY <2>3, <2>5, <2>6, <2>7 DEF Fixes
    <2>9. Extra(f, id).fixed
      BY <1>1, <2>3, <2>5 DEF Extra
    <2>10. ASSUME HasRing(a), id \in Window(a) PROVE HasRing(f)
      <3>1. PICK r : Chained(a, r)
        BY <2>10 DEF HasRing
      <3>2. PICK j \in 1 .. Len(r) : r[j] = id
        BY <1>3, <2>10, <3>1 DEF Chained, Free
      <3>3. HasRing(e)
        BY <3>1, <3>2, FixRing DEF e
      <3> QED
        BY <2>5, <3>3, RingOnly
    <2> QED
      BY <2>1, <2>8, <2>9, <2>10
  <1> QED
    BY <1>2, <1>3

FixedUpTo(f, a, b, unused, N) ==
    f = [m \in 0 .. N |-> IF m = 0 THEN a ELSE FixUnit(f[m - 1], b * BlockSize + m - 1, unused)]

LEMMA FixedExists ==
    ASSUME NEW a, NEW b, NEW unused, NEW N \in Nat
    PROVE  \E f : FixedUpTo(f, a, b, unused, N)
  <1> DEFINE T == {M \in Nat : \E f : FixedUpTo(f, a, b, unused, M)}
  <1>1. 0 \in T
    <2> DEFINE f == [m \in 0 .. 0 |-> a]
    <2>1. FixedUpTo(f, a, b, unused, 0)
      BY DEF FixedUpTo
    <2> QED
      BY <2>1
  <1>2. ASSUME NEW M \in 0 .. N - 1, M \in T PROVE M + 1 \in T
    <2>1. PICK f : FixedUpTo(f, a, b, unused, M)
      BY <1>2
    <2> DEFINE g == [m \in 0 .. M + 1 |->
                       IF m = 0 THEN a ELSE FixUnit(f[m - 1], b * BlockSize + m - 1, unused)]
    <2>2. \A m \in 0 .. M : f[m] = g[m]
      BY <2>1 DEF FixedUpTo
    <2>3. \A m \in 0 .. M + 1 : m # 0 => m - 1 \in 0 .. M
      OBVIOUS
    <2>4. \A m \in 0 .. M + 1 :
              g[m] = IF m = 0 THEN a ELSE FixUnit(g[m - 1], b * BlockSize + m - 1, unused)
      BY <2>2, <2>3
    <2>5. FixedUpTo(g, a, b, unused, M + 1)
      <3>1. g = [m \in 0 .. M + 1 |-> g[m]]
        OBVIOUS
      <3> HIDE DEF g
      <3> QED
        BY <2>4, <3>1 DEF FixedUpTo
    <2> QED
      BY <2>5
  <1> HIDE DEF T
  <1>3. N \in T
    BY <1>1, <1>2, UpTo
  <1> QED
    BY <1>3 DEF T

LEMMA FixBlockFixes ==
    ASSUME NEW a, ArrayOK(a), NEW b \in Nat, \A id \in Ids(b) : id \in 0 .. a.size - 1
    PROVE  /\ Fixes(a, FixBlock(a, b))
           /\ \A id \in Ids(b) : Extra(FixBlock(a, b), id).fixed
           /\ HasRing(a) /\ Ids(b) \subseteq Window(a) => HasRing(FixBlock(a, b))
  <1> DEFINE free == {id \in Ids(b) : ~Extra(a, id).used}
             unused == IF free = {} THEN 0 ELSE CHOOSE id \in free : \A other \in free : id <= other
             f == CHOOSE f : f = [m \in 0 .. BlockSize |->
                     IF m = 0 THEN a ELSE FixUnit(f[m - 1], b * BlockSize + m - 1, unused)]
             T == {m \in 0 .. BlockSize :
                      /\ Fixes(a, f[m])
                      /\ \A k \in 0 .. m - 1 : Extra(f[m], b * BlockSize + k).fixed
                      /\ HasRing(a) /\ Ids(b) \subseteq Window(a) => HasRing(f[m])}
  <1>1. FixBlock(a, b) = f[BlockSize]
    BY DEF FixBlock
  <1>2. BlockSize \in Nat \ {0, 1} /\ b * BlockSize \in Nat
    <2>1. \A x, y \in Nat : x * y \in Nat
      OBVIOUS
    <2> QED
      BY <2>1, Sizes
  <1>3. FixedUpTo(f, a, b, unused, BlockSize)
    <2> HIDE DEF unused
    <2>1. \E g : FixedUpTo(g, a, b, unused, BlockSize)
      BY <1>2, FixedExists
    <2> QED
      BY <2>1 DEF FixedUpTo
  <1>4. unused \in Numbers
    <2>1. \A id \in free : id \in Nat /\ id < a.size
      BY DEF ArrayOK
    <2>2. free # {} => unused \in free
      <3> SUFFICES ASSUME free # {} PROVE unused \in free
        OBVIOUS
      <3>1. free \subseteq 0 .. a.size /\ a.size \in Nat
        BY <2>1 DEF ArrayOK
      <3>2. \E id \in free : \A other \in free : id <= other
        <4> HIDE DEF free
        <4> QED
          BY <3>1, FirstOf
      <3> QED
        BY <3>2
    <2>3. unused = 0 \/ unused \in 0 .. a.size - 1
      BY <2>1, <2>2
    <2> HIDE DEF unused
    <2> QED
      BY <2>3, Sizes DEF ArrayOK, Numbers
  <1> HIDE DEF f, unused
  <1>5. Fixes(a, a)
    BY DEF Fixes
  <1>6. 0 \in T
    BY <1>2, <1>3, <1>5 DEF FixedUpTo
  <1>7. ASSUME NEW m \in 0 .. BlockSize - 1, m \in T PROVE m + 1 \in T
    <2> DEFINE id == b * BlockSize + m
               c == f[m]
               e == f[m + 1]
    <2>1. e = FixUnit(c, id, unused)
      BY <1>2, <1>3 DEF FixedUpTo
    <2>2. Fixes(a, c) /\ \A k \in 0 .. m - 1 : Extra(c, b * BlockSize + k).fixed
      BY <1>7
    <2>3. id \in Ids(b) /\ id \in 0 .. a.size - 1
      BY <1>2 DEF Ids
    <2> HIDE DEF c, e
    <2>4. ArrayOK(c) /\ c.size = a.size /\ id \in 0 .. c.size - 1
      BY <2>2, <2>3 DEF Fixes
    <2>5. /\ Fixes(c, e) /\ Extra(e, id).fixed
          /\ HasRing(c) /\ id \in Window(c) => HasRing(e)
      <3> HIDE DEF id
      <3> QED
        BY <1>4, <2>1, <2>4, FixUnitFixes
    <2>6. Fixes(a, e)
      BY <2>2, <2>5 DEF Fixes
    <2>7. \A k \in 0 .. m : Extra(e, b * BlockSize + k).fixed
      <3> SUFFICES ASSUME NEW k \in 0 .. m PROVE Extra(e, b * BlockSize + k).fixed
        OBVIOUS
      <3>1. CASE k = m
        BY <2>5, <3>1
      <3>2. CASE k # m
        <4>1. Extra(c, b * BlockSize + k).fixed
          BY <2>2, <3>2
        <4>3. b * BlockSize + k \in Nat
          BY <1>2
        <4>2. Slot(b * BlockSize + k) \in Slots
          BY <4>3, LowBlock DEF Slots
        <4> QED
          BY <2>5, <4>1, <4>2 DEF Fixes, Extra
      <3> QED
        BY <3>1, <3>2
    <2>8. ASSUME HasRing(a), Ids(b) \subseteq Window(a) PROVE HasRing(e)
      <3>1. HasRing(c)
        BY <1>7, <2>8 DEF c
      <3>2. id \in Window(c)
        BY <2>3, <2>4, <2>8 DEF Window
      <3> QED
        BY <2>5, <3>1, <3>2
    <2> QED
      BY <1>2, <2>6, <2>7, <2>8 DEF e
  <1> HIDE DEF T
  <1>8. BlockSize \in T
    BY <1>2, <1>6, <1>7, UpTo
  <1>9. \A id \in Ids(b) : \E k \in 0 .. BlockSize - 1 : id = b * BlockSize + k
    <2> SUFFICES ASSUME NEW id \in Ids(b) PROVE \E k \in 0 .. BlockSize - 1 : id = b * BlockSize + k
      OBVIOUS
    <2>1. id - b * BlockSize \in 0 .. BlockSize - 1 /\ id = b * BlockSize + (id - b * BlockSize)
      BY <1>2 DEF Ids
    <2> QED
      BY <2>1
  <1> QED
    BY <1>1, <1>8, <1>9 DEF T

-----------------------------------------------------------------------------
(* A block more. *)

\* The slots of a block are next to one another.
LEMMA BlockSlots ==
    ASSUME NEW first \in Nat, first % BlockSize = 0
    PROVE  /\ Slot(first) \in Nat /\ Slot(first) + BlockSize <= Extras
           /\ \A d \in 0 .. BlockSize - 1 : Slot(first + d) = Slot(first) + d
  <1>1. \A b, e \in Nat \ {0} : \A v \in Nat : v % b = 0 => (v % (b * e)) % b = 0
    <2> SUFFICES ASSUME NEW b \in Nat \ {0}, NEW e \in Nat \ {0}, NEW v \in Nat, v % b = 0
                 PROVE  (v % (b * e)) % b = 0
      OBVIOUS
    <2> DEFINE m == b * e
               k == v \div m
               q == v \div b
               w == v % m
    <2>1. m \in Nat \ {0} /\ k \in Nat /\ q \in Nat /\ w \in Nat
      OBVIOUS
    <2>7. \A c \in Nat \ {0} : v = c * (v \div c) + (v % c)
      OBVIOUS
    <2>2. v = m * k + w /\ v = b * q
      <3>1. v = b * q + 0
        BY <2>7
      <3>2. v = m * k + w
        <4> HIDE DEF m
        <4> QED
          BY <2>1, <2>7
      <3>3. b * q \in Int
        BY <2>1
      <3> QED
        BY <3>1, <3>2, <3>3
    <2>3. m * k = b * (e * k) /\ e * k \in Nat
      <3>1. \A x \in Nat : (b * e) * x = b * (e * x)
        OBVIOUS
      <3>2. e * k \in Nat
        BY <2>1
      <3> QED
        BY <2>1, <3>1, <3>2
    <2>4. w = b * (q - e * k)
      <3>1. w = b * q - b * (e * k)
        BY <2>1, <2>2, <2>3
      <3>2. \A x, y \in Int : b * x - b * y = b * (x - y)
        OBVIOUS
      <3> QED
        <4> HIDE DEF m, w, k, q
        <4> DEFINE j == e * k
        <4>1. j \in Nat /\ q \in Nat
          BY <2>1, <2>3
        <4> HIDE DEF j
        <4>2. b * q - b * j = b * (q - j)
          BY <3>2, <4>1
        <4> QED
          BY <3>1, <4>2 DEF j
    <2> HIDE DEF w, k, q
    <2>5. \A x \in Int : (b * x) % b = 0
      OBVIOUS
    <2>6. w % b = 0
      BY <2>1, <2>3, <2>4, <2>5
    <2> QED
      BY <2>6 DEF w
  <1>2. Slot(first) \in Nat /\ Slot(first) % BlockSize = 0 /\ Slot(first) < Extras
    <2>1. Slot(first) % BlockSize = 0
      BY <1>1, Sizes DEF Slot
    <2> QED
      BY <2>1, LowBlock, Sizes
  <1>3. Extras % BlockSize = 0
    <2>1. \A b, e \in Nat \ {0} : (b * e) % b = 0
      OBVIOUS
    <2> QED
      BY <2>1, Sizes
  <1>4. Slot(first) + BlockSize <= Extras
    BY <1>2, <1>3, RoomForBlock, Sizes
  <1>5. \A m \in Nat \ {0} : \A v, d \in Nat : (v % m) + d < m => (v + d) % m = (v % m) + d
    OBVIOUS
  <1>6. ASSUME NEW d \in 0 .. BlockSize - 1 PROVE Slot(first + d) = Slot(first) + d
    <2>1. Extras \in Nat \ {0} /\ (first % Extras) + d < Extras /\ d \in Nat
      BY <1>2, <1>4, Sizes DEF Slot
    <2>2. (first + d) % Extras = (first % Extras) + d
      BY <1>5, <2>1
    <2> QED
      BY <2>2 DEF Slot
  <1> QED
    BY <1>2, <1>4, <1>6

Freshened(x, e, first, last) ==
    /\ e \in [Slots -> ExtraUnits]
    /\ \A s \in Slots : (\A id \in first .. last : s # Slot(id)) => e[s] = x[s]
    /\ \A id \in first .. last :
          e[Slot(id)] = [prev |-> IF id = first THEN last ELSE id - 1,
                         next |-> IF id = last THEN first ELSE id + 1,
                         fixed |-> FALSE, used |-> FALSE]

LEMMA FreshEffect ==
    ASSUME NEW x \in [Slots -> ExtraUnits], NEW first \in Nat, first % BlockSize = 0
    PROVE  Freshened(x, Fresh(x, first), first, first + BlockSize - 1)
  <1> DEFINE last == first + BlockSize - 1
             e == Fresh(x, first)
             New(id) == [prev |-> IF id = first THEN last ELSE id - 1,
                         next |-> IF id = last THEN first ELSE id + 1,
                         fixed |-> FALSE, used |-> FALSE]
             Of(s) == first + s - Slot(first)
  <1>1. /\ Slot(first) \in Nat /\ Slot(first) + BlockSize <= Extras /\ Extras \in Nat
        /\ BlockSize \in Nat /\ BlockSize >= 2
        /\ \A d \in 0 .. BlockSize - 1 : Slot(first + d) = Slot(first) + d
    <2>1. /\ Slot(first) \in Nat /\ Slot(first) + BlockSize <= Extras
          /\ \A d \in 0 .. BlockSize - 1 : Slot(first + d) = Slot(first) + d
      BY BlockSlots
    <2>2. Extras \in Nat /\ BlockSize \in Nat /\ BlockSize >= 2
      BY Sizes
    <2> QED
      BY <2>1, <2>2
  <1>2. e = [s \in Slots |-> IF Of(s) \notin first .. last THEN x[s] ELSE New(Of(s))]
    <2>1. DOMAIN x = Slots
      OBVIOUS
    <2> QED
      BY <2>1 DEF Fresh
  <1>3. \A id \in first .. last : New(id) \in ExtraUnits
    BY <1>1 DEF ExtraUnits
  <1>4. \A id \in first .. last : Slot(id) = Slot(first) + (id - first) /\ Slot(id) \in Slots
    <2> SUFFICES ASSUME NEW id \in first .. last
                 PROVE  Slot(id) = Slot(first) + (id - first) /\ Slot(id) \in Slots
      OBVIOUS
    <2>1. id - first \in 0 .. BlockSize - 1 /\ first + (id - first) = id
      BY <1>1
    <2>2. Slot(id) = Slot(first) + (id - first)
      BY <1>1, <2>1
    <2> QED
      BY <1>1, <2>1, <2>2 DEF Slots
  <1>5. \A s \in Slots : Of(s) \in first .. last => s = Slot(Of(s))
    BY <1>1, <1>4 DEF Slots
  <1> HIDE DEF e, New
  <1>6. e \in [Slots -> ExtraUnits]
    BY <1>2, <1>3
  <1>7. ASSUME NEW s \in Slots, \A id \in first .. last : s # Slot(id) PROVE e[s] = x[s]
    BY <1>2, <1>5, <1>7
  <1>8. ASSUME NEW id \in first .. last PROVE e[Slot(id)] = New(id)
    <2>1. Slot(id) \in Slots /\ Of(Slot(id)) = id
      BY <1>1, <1>4
    <2> QED
      BY <1>2, <2>1
  <1> QED
    BY <1>6, <1>7, <1>8 DEF e, New, Freshened

LEMMA JoinEffect ==
    ASSUME NEW x \in [Slots -> ExtraUnits], NEW head \in Nat, NEW first \in Nat, NEW last \in Nat,
           NEW joined, joined = Join(x, head, first, last), NEW tail, tail = x[Slot(head)].prev
    PROVE  /\ joined \in [Slots -> ExtraUnits]
           /\ \A s \in Slots :
                /\ joined[s].fixed = x[s].fixed /\ joined[s].used = x[s].used
                /\ joined[s].next = IF s = Slot(tail) THEN first
                                    ELSE IF s = Slot(last) THEN head ELSE x[s].next
                /\ joined[s].prev = IF s = Slot(head) THEN last
                                    ELSE IF s = Slot(first) THEN tail ELSE x[s].prev
  <1> DEFINE y == [x EXCEPT ![Slot(first)].prev = tail]
             z == [y EXCEPT ![Slot(last)].next = head]
             v == [z EXCEPT ![Slot(z[Slot(head)].prev)].next = first]
             e == [v EXCEPT ![Slot(head)].prev = last]
  <1>1. Slot(head) \in Slots /\ Slot(first) \in Slots /\ Slot(last) \in Slots
    BY LowBlock DEF Slots
  <1>2. tail \in Nat /\ Slot(tail) \in Slots
    BY <1>1, LowBlock DEF ExtraUnits, Slots
  <1>3. joined = e
    BY DEF Join
  <1>4. y \in [Slots -> ExtraUnits]
        /\ \A s \in Slots : y[s] = [x[s] EXCEPT !.prev = IF s = Slot(first) THEN tail ELSE @]
    BY <1>1, <1>2 DEF ExtraUnits
  <1> HIDE DEF y
  <1>5. z \in [Slots -> ExtraUnits]
        /\ \A s \in Slots : z[s] = [y[s] EXCEPT !.next = IF s = Slot(last) THEN head ELSE @]
    BY <1>1, <1>4 DEF ExtraUnits
  <1> HIDE DEF z
  <1>6. z[Slot(head)].prev = tail
    <2>1. x[Slot(head)] \in ExtraUnits /\ y[Slot(head)] \in ExtraUnits
      BY <1>1, <1>4
    <2>2. y[Slot(head)].prev = tail
      BY <1>1, <1>4, <2>1 DEF ExtraUnits
    <2> QED
      BY <1>1, <1>5, <2>1, <2>2 DEF ExtraUnits
  <1>7. v \in [Slots -> ExtraUnits]
        /\ \A s \in Slots : v[s] = [z[s] EXCEPT !.next = IF s = Slot(tail) THEN first ELSE @]
    BY <1>2, <1>5, <1>6 DEF ExtraUnits
  <1> HIDE DEF v
  <1>8. e \in [Slots -> ExtraUnits]
        /\ \A s \in Slots : e[s] = [v[s] EXCEPT !.prev = IF s = Slot(head) THEN last ELSE @]
    BY <1>1, <1>7 DEF ExtraUnits
  <1> HIDE DEF e
  <1>9. ASSUME NEW s \in Slots
        PROVE  /\ e[s].fixed = x[s].fixed /\ e[s].used = x[s].used
               /\ e[s].next = IF s = Slot(tail) THEN first
                              ELSE IF s = Slot(last) THEN head ELSE x[s].next
               /\ e[s].prev = IF s = Slot(head) THEN last
                              ELSE IF s = Slot(first) THEN tail ELSE x[s].prev
    <2>1. x[s] \in ExtraUnits /\ y[s] \in ExtraUnits /\ z[s] \in ExtraUnits /\ v[s] \in ExtraUnits
      BY <1>4, <1>5, <1>7
    <2>2. /\ y[s].fixed = x[s].fixed /\ y[s].used = x[s].used /\ y[s].next = x[s].next
          /\ y[s].prev = IF s = Slot(first) THEN tail ELSE x[s].prev
      BY <1>4, <2>1 DEF ExtraUnits
    <2>3. /\ z[s].fixed = y[s].fixed /\ z[s].used = y[s].used /\ z[s].prev = y[s].prev
          /\ z[s].next = IF s = Slot(last) THEN head ELSE y[s].next
      BY <1>5, <2>1 DEF ExtraUnits
    <2>4. /\ v[s].fixed = z[s].fixed /\ v[s].used = z[s].used /\ v[s].prev = z[s].prev
          /\ v[s].next = IF s = Slot(tail) THEN first ELSE z[s].next
      BY <1>7, <2>1 DEF ExtraUnits
    <2>5. /\ e[s].fixed = v[s].fixed /\ e[s].used = v[s].used /\ e[s].next = v[s].next
          /\ e[s].prev = IF s = Slot(head) THEN last ELSE v[s].prev
      BY <1>8, <2>1 DEF ExtraUnits
    <2> QED
      BY <2>2, <2>3, <2>4, <2>5
  <1> QED
    BY <1>3, <1>8, <1>9

\* The block expand_units closes is the first the extras tell of.
LEMMA ClosingBlock ==
    ASSUME NEW size \in Nat, size % BlockSize = 0
    PROVE  /\ Block(size) \in Nat
           /\ Block(size) >= ExtraBlocks =>
                /\ Block(size) - ExtraBlocks \in Nat
                /\ (Block(size) - ExtraBlocks) * BlockSize = size - Extras
           /\ ~ (Block(size) >= ExtraBlocks) => size + BlockSize <= Extras
  <1> DEFINE b == Block(size)
  <1>1. b \in Nat /\ size = BlockSize * b /\ BlockSize \in Nat /\ ExtraBlocks \in Nat
        /\ Extras = BlockSize * ExtraBlocks
    <2>1. b \in Nat /\ size = BlockSize * b + Low(size) /\ Low(size) = 0
      BY LowBlock DEF Low
    <2>2. BlockSize \in Nat /\ ExtraBlocks \in Nat /\ Extras = BlockSize * ExtraBlocks
      BY Sizes
    <2>3. BlockSize * b \in Int
      BY <2>1, <2>2
    <2> QED
      BY <2>1, <2>2, <2>3
  <1> HIDE DEF b
  <1>2. \A x, y, z \in Int : (y - z) * x = x * y - x * z
    OBVIOUS
  <1>3. \A x, y, z \in Nat : y < z => x * y + x <= x * z
    <2> SUFFICES ASSUME NEW x \in Nat, NEW y \in Nat, NEW z \in Nat, y < z PROVE x * y + x <= x * z
      OBVIOUS
    <2>1. x * z = x * y + x + x * (z - y - 1) /\ x * (z - y - 1) >= 0
      OBVIOUS
    <2> QED
      BY <2>1
  <1>4. b >= ExtraBlocks => b - ExtraBlocks \in Nat /\ (b - ExtraBlocks) * BlockSize = size - Extras
    BY <1>1, <1>2
  <1>5. ~ (b >= ExtraBlocks) => size + BlockSize <= Extras
    BY <1>1, <1>3
  <1> QED
    BY <1>1, <1>4, <1>5 DEF b

\* The array expand_units links the new block into.
ClosedFor(a) ==
    IF Block(a.size) >= ExtraBlocks THEN FixBlock(a, Block(a.size) - ExtraBlocks) ELSE a

LEMMA ClosedForEffect ==
    ASSUME NEW a, ArrayOK(a)
    PROVE  /\ Fixes(a, ClosedFor(a))
           /\ \A id \in Window(a) : id < a.size + BlockSize - Extras => Extra(ClosedFor(a), id).fixed
           /\ HasRing(a) => HasRing(ClosedFor(a))
  <1> DEFINE b == Block(a.size) - ExtraBlocks
  <1>1. /\ a.size \in Nat /\ a.size % BlockSize = 0
        /\ BlockSize \in Nat /\ Extras \in Nat /\ Extras >= BlockSize
    BY Sizes DEF ArrayOK
  <1>2. CASE Block(a.size) >= ExtraBlocks
    <2>1. ClosedFor(a) = FixBlock(a, b)
      BY <1>2 DEF ClosedFor
    <2>2. b \in Nat /\ b * BlockSize = a.size - Extras
      BY <1>1, <1>2, ClosingBlock
    <2> HIDE DEF b
    <2>3. Ids(b) = a.size - Extras .. a.size - Extras + BlockSize - 1
      BY <2>2 DEF Ids
    <2>6. a.size - Extras >= 0
      <3>1. \A x, y \in Nat : x * y >= 0
        OBVIOUS
      <3> QED
        BY <1>1, <2>2, <3>1
    <2>4. \A id \in Ids(b) : id \in 0 .. a.size - 1 /\ id \in Window(a)
      BY <1>1, <2>3, <2>6 DEF Window
    <2>5. \A id \in Window(a) : id < a.size + BlockSize - Extras => id \in Ids(b)
      BY <1>1, <2>3 DEF Window
    <2> QED
      BY <2>1, <2>2, <2>4, <2>5, FixBlockFixes
  <1>3. CASE ~ (Block(a.size) >= ExtraBlocks)
    <2>1. ClosedFor(a) = a
      BY <1>3 DEF ClosedFor
    <2>2. a.size + BlockSize <= Extras
      BY <1>1, <1>3, ClosingBlock
    <2>3. \A id \in Window(a) : ~ (id < a.size + BlockSize - Extras)
      BY <1>1, <2>2 DEF Window
    <2>4. Fixes(a, a)
      BY DEF Fixes
    <2> QED
      BY <2>1, <2>3, <2>4
  <1> QED
    BY <1>2, <1>3

LEMMA ExpandParts ==
    ASSUME NEW a
    PROVE  LET c == ClosedFor(a)
               last == a.size + BlockSize - 1
           IN  Expand(a) =
                 [size |-> a.size + BlockSize, head |-> c.head,
                  units |-> [id \in 0 .. last |-> IF id < a.size THEN c.units[id] ELSE Blank],
                  extras |-> Join(Fresh(c.extras, a.size), c.head, a.size, last)]
  BY DEF Expand, ClosedFor

LEMMA ExpandEffect ==
    ASSUME NEW a, ArrayOK(a), a.size + BlockSize <= MaxOffset
    PROVE  LET e == Expand(a)
           IN  /\ ArrayOK(e) /\ e.size = a.size + BlockSize
               /\ \A id \in Window(e) : id < a.size /\ Extra(a, id).fixed => Extra(e, id).fixed
               /\ \A id \in a.size .. e.size - 1 : ~Extra(e, id).fixed /\ e.units[id] = Blank
               /\ \A id \in 0 .. a.size - 1 : e.units[id].offset = a.units[id].offset
  <1> DEFINE c == ClosedFor(a)
             first == a.size
             last == first + BlockSize - 1
             fresh == Fresh(c.extras, first)
             joined == Join(fresh, c.head, first, last)
             e == Expand(a)
             size == e.size
  <1>1. /\ first \in Nat /\ first % BlockSize = 0 /\ BlockSize \in Nat /\ BlockSize >= 2
        /\ Extras \in Nat /\ last \in Nat /\ last >= first + 1
    <2>1. first \in Nat /\ first % BlockSize = 0
      BY DEF ArrayOK
    <2>2. BlockSize \in Nat /\ BlockSize >= 2 /\ Extras \in Nat
      BY Sizes
    <2> QED
      BY <2>1, <2>2
  <1>2. Fixes(a, c) /\ ArrayOK(c) /\ c.size = first
    BY ClosedForEffect DEF Fixes
  <1>3. /\ DOMAIN e = {"size", "units", "extras", "head"}
        /\ e.size = first + BlockSize /\ e.head = c.head /\ e.extras = joined
        /\ e.units = [id \in 0 .. last |-> IF id < first THEN c.units[id] ELSE Blank]
    BY ExpandParts
  <1> HIDE DEF c, e
  <1>4. /\ c.extras \in [Slots -> ExtraUnits] /\ c.head \in 0 .. first /\ c.head \in Nat
        /\ Linked(c)
    BY <1>2 DEF ArrayOK
  <1>15. e.size = first + BlockSize /\ e.size \in Nat /\ e.size - 1 = last
    <2>1. e.size = first + BlockSize
      BY <1>3
    <2> QED
      BY <1>1, <2>1
  <1>5. /\ fresh \in [Slots -> ExtraUnits]
        /\ \A s \in Slots : (\A id \in first .. last : s # Slot(id)) => fresh[s] = c.extras[s]
        /\ \A id \in first .. last :
             fresh[Slot(id)] = [prev |-> IF id = first THEN last ELSE id - 1,
                                next |-> IF id = last THEN first ELSE id + 1,
                                fixed |-> FALSE, used |-> FALSE]
    <2>1. Freshened(c.extras, fresh, first, last)
      BY <1>1, <1>4, FreshEffect
    <2> QED
      BY <2>1 DEF Freshened
  <1> HIDE DEF fresh
  <1>14. ASSUME NEW id \in first .. last
         PROVE  /\ fresh[Slot(id)].prev = IF id = first THEN last ELSE id - 1
                /\ fresh[Slot(id)].next = IF id = last THEN first ELSE id + 1
                /\ fresh[Slot(id)].fixed = FALSE
    <2>1. fresh[Slot(id)] = [prev |-> IF id = first THEN last ELSE id - 1,
                             next |-> IF id = last THEN first ELSE id + 1,
                             fixed |-> FALSE, used |-> FALSE]
      BY <1>5
    <2> QED
      BY <2>1
  <1> DEFINE tail == fresh[Slot(c.head)].prev
  <1>6. /\ joined \in [Slots -> ExtraUnits]
        /\ \A s \in Slots :
             /\ joined[s].fixed = fresh[s].fixed
             /\ joined[s].next = IF s = Slot(tail) THEN first
                                 ELSE IF s = Slot(last) THEN c.head ELSE fresh[s].next
             /\ joined[s].prev = IF s = Slot(c.head) THEN last
                                 ELSE IF s = Slot(first) THEN tail ELSE fresh[s].prev
    <2> HIDE DEF first, last, joined, tail
    <2>2. joined = Join(fresh, c.head, first, last) /\ tail = fresh[Slot(c.head)].prev
      BY DEF joined, tail
    <2>1. fresh \in [Slots -> ExtraUnits] /\ c.head \in Nat /\ first \in Nat /\ last \in Nat
      BY <1>1, <1>4, <1>5
    <2> QED
      BY <2>1, <2>2, JoinEffect
  <1> HIDE DEF joined
  \* Links lead to units there are.
  <1>7. \A s \in Slots : /\ fresh[s].prev \in Nat /\ fresh[s].prev <= last
                          /\ fresh[s].next \in Nat /\ fresh[s].next <= last
    <2> SUFFICES ASSUME NEW s \in Slots
                 PROVE  /\ fresh[s].prev \in Nat /\ fresh[s].prev <= last
                        /\ fresh[s].next \in Nat /\ fresh[s].next <= last
      OBVIOUS
    <2>1. CASE \A id \in first .. last : s # Slot(id)
      <3>1. fresh[s] = c.extras[s] /\ c.extras[s] \in ExtraUnits
        BY <1>4, <1>5, <2>1
      <3>2. /\ c.extras[s].prev = 0 \/ c.extras[s].prev < first
            /\ c.extras[s].next = 0 \/ c.extras[s].next < first
        BY <1>2, <1>4 DEF Linked
      <3> QED
        BY <1>1, <3>1, <3>2 DEF ExtraUnits
    <2>2. ASSUME NEW id \in first .. last, s = Slot(id)
          PROVE  /\ fresh[s].prev \in Nat /\ fresh[s].prev <= last
                 /\ fresh[s].next \in Nat /\ fresh[s].next <= last
      <3>1. fresh[s].prev = (IF id = first THEN last ELSE id - 1)
            /\ fresh[s].next = (IF id = last THEN first ELSE id + 1)
        BY <1>14, <2>2
      <3> QED
        BY <1>1, <3>1
    <2> QED
      BY <2>1, <2>2
  <1>8. Slot(c.head) \in Slots /\ tail \in Nat /\ tail <= last
    <2>1. Slot(c.head) \in Slots
      BY <1>4, LowBlock DEF Slots
    <2> QED
      BY <1>7, <2>1
  <1> HIDE DEF tail
  <1>9. Linked(e)
    <2> SUFFICES ASSUME NEW s \in Slots
                 PROVE  joined[s].prev < first + BlockSize /\ joined[s].next < first + BlockSize
      BY <1>3 DEF Linked
    <2>1. joined[s].prev <= last /\ joined[s].next <= last
      BY <1>1, <1>4, <1>6, <1>7, <1>8
    <2>2. joined[s].prev \in Nat /\ joined[s].next \in Nat
      BY <1>6 DEF ExtraUnits
    <2> QED
      BY <1>1, <2>1, <2>2
  <1>10. /\ DOMAIN e.units = 0 .. e.size - 1
         /\ \A id \in 0 .. e.size - 1 : e.units[id] \in Units
         /\ \A id \in 0 .. first - 1 : e.units[id].offset = a.units[id].offset
         /\ \A id \in first .. e.size - 1 : e.units[id] = Blank
    <2>1. Blank \in Units
      BY Sizes DEF Blank, Units
    <2>2. \A id \in 0 .. first - 1 : c.units[id] \in Units /\ c.units[id].offset = a.units[id].offset
      BY <1>2 DEF Fixes, ArrayOK
    <2>3. e.size - 1 = last /\ e.size \in Nat
      BY <1>15
    <2>4. DOMAIN e.units = 0 .. last
      BY <1>3
    <2>5. \A id \in 0 .. last : e.units[id] = IF id < first THEN c.units[id] ELSE Blank
      BY <1>3
    <2>6. \A id \in 0 .. first - 1 : id \in 0 .. last /\ e.units[id] = c.units[id]
      BY <1>1, <2>5
    <2>7. \A id \in first .. last : id \in 0 .. last /\ e.units[id] = Blank
      BY <1>1, <2>5
    <2>8. \A id \in 0 .. last : id \in 0 .. first - 1 \/ id \in first .. last
      BY <1>1
    <2> QED
      BY <2>1, <2>2, <2>3, <2>4, <2>6, <2>7, <2>8
  <1>11. ArrayOK(e)
    <2>1. e.size \in Nat /\ e.size % BlockSize = 0 /\ e.size <= MaxOffset
      <3>1. first < first + BlockSize /\ first + BlockSize \in Nat
        BY <1>1
      <3>2. first < MaxOffset /\ MaxOffset \in Nat /\ MaxOffset % BlockSize = 0
        BY <1>1, Sizes
      <3>3. (first + BlockSize) % BlockSize = 0
        BY <1>1, <3>2, RoomForBlock
      <3> QED
        BY <1>3, <3>1, <3>3
    <2>2. e.head \in 0 .. e.size
      BY <1>1, <1>3, <1>4
    <2> QED
      BY <1>3, <1>6, <1>9, <1>10, <2>1, <2>2 DEF ArrayOK
  <1>12. ASSUME NEW id \in first .. e.size - 1 PROVE ~Extra(e, id).fixed
    <2>1. id \in first .. last /\ id \in Nat
      BY <1>1, <1>15
    <2>2. Slot(id) \in Slots
      BY <2>1, LowBlock DEF Slots
    <2>3. fresh[Slot(id)].fixed = FALSE
      BY <1>14, <2>1
    <2> QED
      BY <1>3, <1>6, <2>2, <2>3 DEF Extra
  <1>13. ASSUME NEW id \in Window(e), id < first, Extra(a, id).fixed PROVE Extra(e, id).fixed
    <2>1. id \in Nat /\ Slot(id) \in Slots
      BY LowBlock DEF Window, Slots
    <2>2. \A k \in first .. last : Slot(id) # Slot(k)
      <3> SUFFICES ASSUME NEW k \in first .. last PROVE Slot(id) # Slot(k)
        OBVIOUS
      <3>1. k \in Nat /\ id < k /\ k < id + Extras
        BY <1>1, <1>3, <1>13, <2>1 DEF Window
      <3> QED
        BY <2>1, <3>1, OwnSlot
    <2>3. fresh[Slot(id)] = c.extras[Slot(id)]
      BY <1>5, <2>1, <2>2
    <2>4. c.extras[Slot(id)].fixed
      BY <1>2, <1>13, <2>1 DEF Fixes, Extra
    <2> QED
      BY <1>3, <1>6, <2>1, <2>3, <2>4 DEF Extra
  <1> QED
    BY <1>3, <1>10, <1>11, <1>12, <1>13 DEF e

\* The new block is at the end of the ring.
LEMMA ExpandRing ==
    ASSUME NEW a, ArrayOK(a), a.size + BlockSize <= MaxOffset, HasRing(a)
    PROVE  HasRing(Expand(a))
  <1> DEFINE c == ClosedFor(a)
             first == a.size
             last == first + BlockSize - 1
             fresh == Fresh(c.extras, first)
             joined == Join(fresh, c.head, first, last)
             e == Expand(a)
             tail == fresh[Slot(c.head)].prev
  <1>1. /\ first \in Nat /\ first % BlockSize = 0 /\ BlockSize \in Nat /\ BlockSize >= 2
        /\ Extras \in Nat /\ last \in Nat /\ last >= first + 1 /\ last = first + BlockSize - 1
        /\ Extras >= BlockSize
    <2>1. first \in Nat /\ first % BlockSize = 0
      BY DEF ArrayOK
    <2>2. BlockSize \in Nat /\ BlockSize >= 2 /\ Extras \in Nat /\ Extras >= BlockSize
      BY Sizes
    <2> QED
      BY <2>1, <2>2
  <1>2. ArrayOK(c) /\ c.size = first
    BY ClosedForEffect DEF Fixes
  <1>3. e.size = first + BlockSize /\ e.head = c.head /\ e.extras = joined
    BY ExpandParts
  <1>4. /\ \A id \in first .. last : ~Extra(e, id).fixed
        /\ e.size = last + 1
    <2>1. e.size = last + 1
      BY <1>1, <1>3
    <2>2. \A id \in first .. e.size - 1 : ~Extra(e, id).fixed
      BY ExpandEffect
    <2>3. e.size - 1 = last
      BY <1>1, <2>1
    <2> QED
      BY <2>1, <2>2, <2>3
  <1>5. \A id \in Window(a) : id < first + BlockSize - Extras => Extra(c, id).fixed
    BY ClosedForEffect
  <1>6. PICK r : Chained(c, r)
    BY ClosedForEffect DEF HasRing
  <1> HIDE DEF c, e
  <1>7. c.extras \in [Slots -> ExtraUnits] /\ c.head \in Nat
    BY <1>2 DEF ArrayOK
  <1>8. /\ fresh \in [Slots -> ExtraUnits]
        /\ \A s \in Slots : (\A id \in first .. last : s # Slot(id)) => fresh[s] = c.extras[s]
        /\ \A id \in first .. last :
             fresh[Slot(id)] = [prev |-> IF id = first THEN last ELSE id - 1,
                                next |-> IF id = last THEN first ELSE id + 1,
                                fixed |-> FALSE, used |-> FALSE]
    <2>1. Freshened(c.extras, fresh, first, last)
      BY <1>1, <1>7, FreshEffect
    <2> QED
      BY <2>1 DEF Freshened
  <1> HIDE DEF fresh
  <1>9. ASSUME NEW id \in first .. last
        PROVE  /\ fresh[Slot(id)].prev = IF id = first THEN last ELSE id - 1
               /\ fresh[Slot(id)].next = IF id = last THEN first ELSE id + 1
    <2>1. fresh[Slot(id)] = [prev |-> IF id = first THEN last ELSE id - 1,
                             next |-> IF id = last THEN first ELSE id + 1,
                             fixed |-> FALSE, used |-> FALSE]
      BY <1>8
    <2> QED
      BY <2>1
  <1>10. \A s \in Slots :
             /\ joined[s].fixed = fresh[s].fixed
             /\ joined[s].next = IF s = Slot(tail) THEN first
                                 ELSE IF s = Slot(last) THEN c.head ELSE fresh[s].next
             /\ joined[s].prev = IF s = Slot(c.head) THEN last
                                 ELSE IF s = Slot(first) THEN tail ELSE fresh[s].prev
    <2> HIDE DEF first, last, joined, tail
    <2>2. joined = Join(fresh, c.head, first, last) /\ tail = fresh[Slot(c.head)].prev
      BY DEF joined, tail
    <2>1. fresh \in [Slots -> ExtraUnits] /\ c.head \in Nat /\ first \in Nat /\ last \in Nat
      BY <1>1, <1>7, <1>8
    <2> QED
      BY <2>1, <2>2, JoinEffect
  <1> HIDE DEF joined, tail, first, last
  <1>11. Window(c) = Window(a) /\ Window(e) = {id \in 0 .. last : id >= last + 1 - Extras}
    <2>1. e.size - 1 = last
      BY <1>1, <1>4
    <2>2. Window(c) = Window(a)
      BY <1>2 DEF Window, first
    <2>3. Window(e) = {id \in 0 .. e.size - 1 : id >= e.size - Extras}
      BY DEF Window
    <2>4. e.size = last + 1 /\ e.size - Extras = last + 1 - Extras
      BY <1>1, <1>4
    <2>5. {id \in 0 .. e.size - 1 : id >= e.size - Extras} = {id \in 0 .. last : id >= last + 1 - Extras}
      BY <2>1, <2>4
    <2> QED
      BY <2>2, <2>3, <2>5
  \* What is left of the ring keeps its extras.
  <1>12. \A id \in Window(e) : id < first => /\ id \in Window(c) /\ Slot(id) \in Slots
                                            /\ fresh[Slot(id)] = c.extras[Slot(id)]
    <2> SUFFICES ASSUME NEW id \in Window(e), id < first
                 PROVE  /\ id \in Window(c) /\ Slot(id) \in Slots
                        /\ fresh[Slot(id)] = c.extras[Slot(id)]
      OBVIOUS
    <2>1. id \in Nat /\ id >= last + 1 - Extras
      BY <1>11
    <2>2. id \in Window(c)
      BY <1>1, <1>2, <2>1 DEF Window
    <2>3. Slot(id) \in Slots
      BY <2>1, LowBlock DEF Slots
    <2>4. \A k \in first .. last : Slot(id) # Slot(k)
      <3> SUFFICES ASSUME NEW k \in first .. last PROVE Slot(id) # Slot(k)
        OBVIOUS
      <3>1. k \in Nat /\ id < k /\ k < id + Extras
        BY <1>1, <2>1
      <3> QED
        BY <2>1, <3>1, OwnSlot
    <2> QED
      BY <1>8, <2>2, <2>3, <2>4
  <1>13. \A id \in first .. last : id \in Window(e)
    BY <1>1, <1>11
  <1>14. \A x, y \in Window(e) : Slot(x) = Slot(y) => x = y
    <2>1. e.size \in Nat
      BY <1>1, <1>4
    <2> QED
      BY <2>1, WindowSlots
  <1> DEFINE L == Len(r)
             B == BlockSize
             q == [i \in 1 .. L + B |-> IF i <= L THEN r[i] ELSE first + (i - L - 1)]
  <1>15. /\ r \in Seq(Nat) /\ L \in Nat
         /\ \A i \in 1 .. L : r[i] \in Nat /\ r[i] \in Window(e) /\ r[i] < first
                               /\ ~Extra(c, r[i]).fixed
         /\ \A i, k \in 1 .. L : r[i] = r[k] => i = k
    <2>1. r \in Seq(Nat) /\ L \in Nat /\ \A i, k \in 1 .. L : r[i] = r[k] => i = k
      BY <1>6 DEF Chained
    <2>2. ASSUME NEW i \in 1 .. L
          PROVE  r[i] \in Nat /\ r[i] \in Window(e) /\ r[i] < first /\ ~Extra(c, r[i]).fixed
      <3>1. r[i] \in Window(c) /\ ~Extra(c, r[i]).fixed
        BY <1>6 DEF Chained, Free
      <3>2. r[i] \in Nat /\ r[i] < first
        BY <1>1, <1>2, <3>1 DEF Window
      <3>3. r[i] >= first + BlockSize - Extras
        BY <1>1, <1>5, <1>11, <3>1, <3>2
      <3>4. r[i] \in Window(e)
        BY <1>1, <1>11, <3>2, <3>3
      <3> QED
        BY <3>1, <3>2, <3>4
    <2> QED
      BY <2>1, <2>2
  <1>16. q \in Seq(Nat) /\ Len(q) = L + B
    <2>1. \A i \in 1 .. L + B : q[i] \in Nat
      BY <1>1, <1>15
    <2>2. L + B \in Nat
      BY <1>1, <1>15
    <2>3. q = [i \in 1 .. L + B |-> q[i]]
      OBVIOUS
    <2> HIDE DEF q
    <2> QED
      BY <2>1, <2>2, <2>3
  <1>17. /\ \A i \in 1 .. L : i \in 1 .. L + B /\ q[i] = r[i]
         /\ \A i \in L + 1 .. L + B : /\ i \in 1 .. L + B /\ q[i] = first + (i - L - 1)
                                      /\ q[i] \in first .. last
         /\ \A i \in 1 .. L + B : i \in 1 .. L \/ i \in L + 1 .. L + B
    BY <1>1, <1>15
  <1>18. L \in Nat /\ B \in Nat /\ B >= 2 /\ B = BlockSize
    BY <1>1, <1>15
  <1> HIDE DEF q, L, B
  <1>19. \A i \in 1 .. L + B : q[i] \in Window(e)
    BY <1>13, <1>15, <1>17
  <1>20. \A i, k \in 1 .. L + B : q[i] = q[k] => i = k
    <2> SUFFICES ASSUME NEW i \in 1 .. L + B, NEW k \in 1 .. L + B, q[i] = q[k] PROVE i = k
      OBVIOUS
    <2>1. CASE i \in 1 .. L /\ k \in 1 .. L
      BY <1>15, <1>17, <2>1
    <2>2. CASE i \in L + 1 .. L + B /\ k \in L + 1 .. L + B
      BY <1>1, <1>17, <1>18, <2>2
    <2>3. CASE i \in 1 .. L /\ k \in L + 1 .. L + B
      <3>1. q[i] < first /\ q[k] \in first .. last
        BY <1>15, <1>17, <2>3
      <3> QED
        BY <1>1, <3>1
    <2>4. CASE k \in 1 .. L /\ i \in L + 1 .. L + B
      <3>1. q[k] < first /\ q[i] \in first .. last
        BY <1>15, <1>17, <2>4
      <3> QED
        BY <1>1, <3>1
    <2> QED
      BY <1>17, <2>1, <2>2, <2>3, <2>4
  <1>21. \A i \in 1 .. L + B : q[i] \in Free(e)
    <2> SUFFICES ASSUME NEW i \in 1 .. L + B PROVE ~Extra(e, q[i]).fixed
      BY <1>19 DEF Free
    <2>1. CASE i \in 1 .. L
      <3>1. q[i] = r[i] /\ r[i] \in Window(e) /\ r[i] < first /\ ~Extra(c, r[i]).fixed
        BY <1>15, <1>17, <2>1
      <3> QED
        BY <1>3, <1>10, <1>12, <3>1 DEF Extra
    <2>2. CASE i \in L + 1 .. L + B
      BY <1>4, <1>17, <2>2
    <2> QED
      BY <1>17, <2>1, <2>2
  <1>22. \A id \in Free(e) : \E i \in 1 .. L + B : q[i] = id
    <2> SUFFICES ASSUME NEW id \in Window(e), ~Extra(e, id).fixed PROVE \E i \in 1 .. L + B : q[i] = id
      BY DEF Free
    <2>1. CASE id < first
      <3>1. id \in Window(c) /\ ~Extra(c, id).fixed
        BY <1>3, <1>10, <1>12, <2>1 DEF Extra
      <3>2. PICK i \in 1 .. L : r[i] = id
        BY <1>6, <3>1 DEF Chained, Free, L
      <3> QED
        BY <1>17, <3>2
    <2>2. CASE ~ (id < first)
      <3>1. id \in first .. last
        BY <1>1, <1>11, <2>2
      <3>2. L + 1 + (id - first) \in L + 1 .. L + B
        BY <1>1, <1>18, <3>1
      <3>3. q[L + 1 + (id - first)] = id
        BY <1>1, <1>17, <1>18, <3>1, <3>2
      <3> QED
        BY <1>17, <3>2, <3>3
    <2> QED
      BY <2>1, <2>2
  <1>23. c.head = q[1] /\ q[L + 1] = first /\ q[L + B] = last
         /\ 1 \in 1 .. L + B /\ L + 1 \in 1 .. L + B /\ L + B \in 1 .. L + B
    <2>1. q[L + 1] = first /\ q[L + B] = last
      BY <1>1, <1>17, <1>18
    <2>2. 1 \in 1 .. L + B /\ L + 1 \in 1 .. L + B /\ L + B \in 1 .. L + B
      BY <1>18
    <2>3. c.head = IF L = 0 THEN first ELSE r[1]
      BY <1>2, <1>6 DEF Chained, L
    <2>4. CASE L = 0
      <3>1. L + 1 = 1
        BY <2>4
      <3>2. q[1] = first
        BY <2>1, <3>1
      <3>3. c.head = q[1]
        BY <2>3, <2>4, <3>2
      <3> QED
        BY <2>1, <2>2, <3>3
    <2>5. CASE L # 0
      <3>1. 1 \in 1 .. L
        BY <1>18, <2>5
      <3>2. c.head = q[1]
        BY <1>17, <2>3, <2>5, <3>1
      <3> QED
        BY <2>1, <2>2, <3>2
    <2> QED
      BY <2>1, <2>2, <2>4, <2>5
  <1>24. tail = IF L = 0 THEN last ELSE q[L]
    <2>1. CASE L = 0
      <3>1. c.head = first /\ first \in first .. last
        BY <1>1, <1>23, <2>1
      <3> QED
        BY <1>9, <2>1, <3>1 DEF tail
    <2>2. CASE L # 0
      <3>1. 1 \in 1 .. L /\ c.head = r[1] /\ L \in 1 .. L
        BY <1>17, <1>18, <1>23, <2>2
      <3>2. Extra(c, r[1]).prev = r[L]
        BY <1>6, <3>1 DEF Chained, Ahead, L
      <3>3. fresh[Slot(r[1])] = c.extras[Slot(r[1])]
        BY <1>12, <1>15, <3>1
      <3> QED
        BY <1>17, <2>2, <3>1, <3>2, <3>3 DEF tail, Extra
    <2> QED
      BY <2>1, <2>2
  <1>25. tail \in Window(e) /\ c.head \in Window(e) /\ last \in Window(e) /\ first \in Window(e)
    <2>1. L # 0 => L \in 1 .. L + B
      BY <1>18
    <2> QED
      BY <1>19, <1>23, <1>24, <2>1
  <1>26. ASSUME NEW i \in 1 .. L + B
         PROVE  Extra(e, q[i]).next = After(q, i) /\ Extra(e, q[i]).prev = Ahead(q, i)
    <2> DEFINE x == q[i]
               s == Slot(x)
    <2>1. x \in Window(e) /\ s \in Slots
      <3>1. x \in Window(e) /\ x \in Nat
        BY <1>11, <1>19
      <3> QED
        BY <3>1, LowBlock DEF Slots
    <2>2. /\ s = Slot(tail) <=> x = tail
          /\ s = Slot(c.head) <=> x = c.head
          /\ s = Slot(last) <=> x = last
          /\ s = Slot(first) <=> x = first
      BY <1>14, <1>25, <2>1
    <2>3. /\ Extra(e, x).next = IF x = tail THEN first ELSE IF x = last THEN c.head ELSE fresh[s].next
          /\ Extra(e, x).prev = IF x = c.head THEN last ELSE IF x = first THEN tail ELSE fresh[s].prev
      BY <1>3, <1>10, <2>1, <2>2 DEF Extra
    <2>4. /\ x = c.head <=> i = 1
          /\ x = first <=> i = L + 1
          /\ x = last <=> i = L + B
          /\ x = tail <=> i = IF L = 0 THEN L + B ELSE L
      <3>1. L # 0 => L \in 1 .. L + B
        BY <1>18
      <3> QED
        BY <1>20, <1>23, <1>24, <3>1
    <2>5. /\ After(q, i) = q[IF i = L + B THEN 1 ELSE i + 1]
          /\ Ahead(q, i) = q[IF i = 1 THEN L + B ELSE i - 1]
      BY <1>16 DEF After, Ahead
    <2>6. ASSUME i \in 1 .. L
          PROVE  /\ i # L => fresh[s].next = q[i + 1]
                 /\ i # 1 => fresh[s].prev = q[i - 1]
      <3>1. x = r[i] /\ fresh[s] = c.extras[s]
        BY <1>12, <1>15, <1>17, <2>6
      <3>2. fresh[s].next = After(r, i) /\ fresh[s].prev = Ahead(r, i)
        BY <1>6, <2>6, <3>1 DEF Chained, Extra, L
      <3>3. i # L => i + 1 \in 1 .. L /\ After(r, i) = r[i + 1]
        BY <1>18, <2>6 DEF After, L
      <3>4. i # 1 => i - 1 \in 1 .. L /\ Ahead(r, i) = r[i - 1]
        BY <1>18, <2>6 DEF Ahead
      <3> QED
        BY <1>17, <3>2, <3>3, <3>4
    <2>7. ASSUME i \in L + 1 .. L + B
          PROVE  /\ i # L + B => fresh[s].next = q[i + 1]
                 /\ i # L + 1 => fresh[s].prev = q[i - 1]
      <3>1. x = first + (i - L - 1) /\ x \in first .. last
        BY <1>17, <2>7
      <3>2. /\ fresh[s].prev = IF x = first THEN last ELSE x - 1
            /\ fresh[s].next = IF x = last THEN first ELSE x + 1
        BY <1>9, <3>1
      <3>3. i # L + B => i + 1 \in L + 1 .. L + B /\ q[i + 1] = x + 1
        BY <1>1, <1>17, <1>18, <2>7, <3>1
      <3>4. i # L + 1 => i - 1 \in L + 1 .. L + B /\ q[i - 1] = x - 1
        BY <1>1, <1>17, <1>18, <2>7, <3>1
      <3> QED
        BY <2>4, <3>2, <3>3, <3>4
    <2> HIDE DEF x, s
    <2>8. Extra(e, x).next = q[IF i = L + B THEN 1 ELSE i + 1]
      <3>1. CASE i = L + B
        BY <1>18, <1>23, <2>3, <2>4, <3>1
      <3>2. CASE i # L + B /\ i = L
        BY <1>18, <1>23, <2>3, <2>4, <3>2
      <3>3. CASE i # L + B /\ i # L
        <4>1. x # tail /\ x # last
          BY <2>4, <3>3
        <4>2. fresh[s].next = q[i + 1]
          BY <1>17, <2>6, <2>7, <3>3
        <4> QED
          BY <2>3, <3>3, <4>1, <4>2
      <3> QED
        BY <3>1, <3>2, <3>3
    <2>9. Extra(e, x).prev = q[IF i = 1 THEN L + B ELSE i - 1]
      <3>1. CASE i = 1
        BY <1>23, <2>3, <2>4, <3>1
      <3>2. CASE i # 1 /\ i = L + 1
        <4>1. L # 0 /\ i - 1 = L
          BY <1>18, <3>2
        <4> QED
          BY <1>24, <2>3, <2>4, <3>2, <4>1
      <3>3. CASE i # 1 /\ i # L + 1
        <4>1. fresh[s].prev = q[i - 1]
          BY <1>17, <2>6, <2>7, <3>3
        <4> QED
          BY <2>3, <2>4, <3>3, <4>1
      <3> QED
        BY <3>1, <3>2, <3>3
    <2> QED
      BY <2>5, <2>8, <2>9 DEF x
  <1>27. Chained(e, q)
    <2>1. L + B # 0
      BY <1>18
    <2>2. e.head = IF Len(q) = 0 THEN e.size ELSE q[1]
      BY <1>3, <1>16, <1>23, <2>1
    <2> QED
      BY <1>16, <1>20, <1>21, <1>22, <1>26, <2>2 DEF Chained
  <1> QED
    BY <1>27 DEF HasRing, e

-----------------------------------------------------------------------------
(* Reserving a unit. *)

\* A unit there is, and fixed if its extra tells of it.
Held(a, id) == id \in 0 .. a.size - 1 /\ (id \in Window(a) => Extra(a, id).fixed)

\* A unit to be had: in the ring, or not there yet.
Open(a, id) == id \in Free(a) \/ id >= a.size

\* What held in array a does in array e, which may have blocks more.
Grows(a, e) ==
    /\ ArrayOK(e) /\ a.size <= e.size
    /\ \A id \in 0 .. a.size - 1 : Held(a, id) => Held(e, id)
    /\ \A id \in 0 .. a.size - 1 : e.units[id].offset = a.units[id].offset
    /\ \A id \in a.size .. e.size - 1 : e.units[id].offset = 0

LEMMA GrowsTwice ==
    ASSUME NEW a, NEW b, NEW e, ArrayOK(a), Grows(a, b), Grows(b, e)
    PROVE  Grows(a, e)
  <1>1. a.size \in Nat /\ b.size \in Nat /\ e.size \in Nat
    BY DEF Grows, ArrayOK
  <1>2. \A id \in 0 .. a.size - 1 : id \in 0 .. b.size - 1
    BY <1>1 DEF Grows
  <1>3. \A id \in a.size .. e.size - 1 : id \in a.size .. b.size - 1 \/ id \in b.size .. e.size - 1
    BY <1>1
  <1>4. \A id \in a.size .. b.size - 1 : id \in 0 .. b.size - 1
    BY <1>1
  <1> QED
    BY <1>1, <1>2, <1>3, <1>4 DEF Grows

\* The part of reserve_id after the array was made to hold the unit.
LEMMA FixGrows ==
    ASSUME NEW a, ArrayOK(a), NEW id \in 0 .. a.size - 1, NEW e, e = Fix(a, id)
    PROVE  /\ Grows(a, e) /\ e.size = a.size /\ Held(e, id)
           /\ id \in Free(a) => \A k \in Free(a) : k # id => k \in Free(e)
           /\ HasRing(a) /\ id \in Free(a) => HasRing(e)
  <1>1. a.size \in Nat /\ id \in Nat /\ a.size > 0 /\ Slot(id) \in Slots
    BY LowBlock DEF ArrayOK, Slots
  <1>2. ArrayOK(e)
    BY <1>1, FixOK
  <1>3. /\ e.size = a.size /\ e.units = a.units
        /\ \A s \in Slots : e.extras[s].fixed <=> s = Slot(id) \/ a.extras[s].fixed
    BY <1>1, FixEffect
  <1>4. Window(e) = Window(a)
    BY <1>3 DEF Window
  <1>5. \A k \in Nat : Slot(k) \in Slots
    BY LowBlock DEF Slots
  <1>6. \A k \in Window(a) : k \in Nat
    BY <1>1 DEF Window
  <1>7. \A k \in Nat : Extra(a, k).fixed => Extra(e, k).fixed
    BY <1>3, <1>5 DEF Extra
  <1>8. Extra(e, id).fixed
    BY <1>1, <1>3, <1>5 DEF Extra
  <1>9. Grows(a, e)
    BY <1>1, <1>2, <1>3, <1>4, <1>6, <1>7 DEF Grows, Held
  <1>10. Held(e, id)
    BY <1>3, <1>8 DEF Held
  <1>11. ASSUME NEW k \in Free(a), k # id, id \in Free(a) PROVE k \in Free(e)
    <2>1. k \in Window(a) /\ k \in Nat /\ ~Extra(a, k).fixed /\ id \in Window(a)
      BY <1>6, <1>11 DEF Free
    <2>2. Slot(k) # Slot(id)
      BY <1>1, <1>11, <2>1, WindowSlots
    <2> QED
      BY <1>3, <1>4, <1>5, <2>1, <2>2 DEF Free, Extra
  <1>12. ASSUME HasRing(a), id \in Free(a) PROVE HasRing(e)
    <2>1. PICK r : Chained(a, r)
      BY <1>12 DEF HasRing
    <2>2. PICK j \in 1 .. Len(r) : r[j] = id
      BY <1>12, <2>1 DEF Chained
    <2> QED
      BY <2>1, <2>2, FixRing
  <1> QED
    BY <1>3, <1>9, <1>10, <1>11, <1>12

LEMMA ExpandGrows ==
    ASSUME NEW a, ArrayOK(a), a.size + BlockSize <= MaxOffset, NEW e, e = Expand(a)
    PROVE  /\ Grows(a, e) /\ e.size = a.size + BlockSize
           /\ \A id \in a.size .. e.size - 1 : id \in Free(e)
           /\ HasRing(a) => HasRing(e)
  <1>1. a.size \in Nat /\ BlockSize \in Nat \ {0} /\ Extras \in Nat /\ Extras >= BlockSize
    BY Sizes DEF ArrayOK
  <1>2. /\ ArrayOK(e) /\ e.size = a.size + BlockSize
        /\ \A id \in Window(e) : id < a.size /\ Extra(a, id).fixed => Extra(e, id).fixed
        /\ \A id \in a.size .. e.size - 1 : ~Extra(e, id).fixed /\ e.units[id] = Blank
        /\ \A id \in 0 .. a.size - 1 : e.units[id].offset = a.units[id].offset
    BY ExpandEffect
  <1>3. \A id \in Window(e) : id < a.size => id \in Window(a)
    BY <1>1, <1>2 DEF Window
  <1>4. \A id \in 0 .. a.size - 1 : id \in 0 .. e.size - 1 /\ id < a.size
    BY <1>1, <1>2
  <1>5. \A id \in 0 .. a.size - 1 : Held(a, id) => Held(e, id)
    BY <1>2, <1>3, <1>4 DEF Held
  <1>6. \A id \in a.size .. e.size - 1 : e.units[id].offset = 0
    BY <1>2 DEF Blank
  <1>7. Grows(a, e)
    BY <1>1, <1>2, <1>5, <1>6 DEF Grows
  <1>8. \A id \in a.size .. e.size - 1 : id \in Window(e)
    BY <1>1, <1>2 DEF Window
  <1>9. HasRing(a) => HasRing(e)
    BY ExpandRing
  <1> QED
    BY <1>2, <1>7, <1>8, <1>9 DEF Free

LEMMA ReserveGrows ==
    ASSUME NEW a, ArrayOK(a), NEW id \in Nat, id < MaxOffset, id < a.size + BlockSize,
           NEW e, e = Reserve(a, id)
    PROVE  /\ Grows(a, e) /\ Held(e, id)
           /\ HasRing(a) /\ Open(a, id) => HasRing(e)
           /\ \A k \in Nat : /\ Block(k) = Block(id) /\ k # id
                              /\ Open(a, id) /\ Open(a, k) => Open(e, k)
  <1>1. a.size \in Nat /\ a.size % BlockSize = 0 /\ BlockSize \in Nat
    BY Sizes DEF ArrayOK
  <1>2. CASE id < a.size
    <2>1. e = Fix(a, id) /\ id \in 0 .. a.size - 1
      BY <1>1, <1>2 DEF Reserve
    <2>2. /\ Grows(a, e) /\ e.size = a.size /\ Held(e, id)
          /\ id \in Free(a) => \A k \in Free(a) : k # id => k \in Free(e)
          /\ HasRing(a) /\ id \in Free(a) => HasRing(e)
      BY <2>1, FixGrows
    <2>3. Open(a, id) => id \in Free(a)
      BY <1>1, <1>2 DEF Open
    <2>4. ASSUME NEW k \in Nat, Block(k) = Block(id), k # id, Open(a, id), Open(a, k)
          PROVE  Open(e, k)
      <3>1. k < a.size
        BY <1>1, <1>2, <2>4, SameBlock
      <3> QED
        BY <1>1, <2>2, <2>3, <2>4, <3>1 DEF Open
    <2> QED
      BY <2>2, <2>3, <2>4
  <1>3. CASE ~ (id < a.size)
    <2> DEFINE b == Expand(a)
    <2>1. a.size + BlockSize <= MaxOffset
      <3>1. a.size < MaxOffset /\ MaxOffset \in Nat /\ MaxOffset % BlockSize = 0
        BY <1>1, <1>3, Sizes
      <3> QED
        BY <1>1, <3>1, RoomForBlock
    <2>2. /\ Grows(a, b) /\ b.size = a.size + BlockSize
          /\ \A k \in a.size .. b.size - 1 : k \in Free(b)
          /\ HasRing(a) => HasRing(b)
      BY <2>1, ExpandGrows
    <2>3. e = Fix(b, id)
      BY <1>1, <1>3 DEF Reserve
    <2> HIDE DEF b
    <2>4. ArrayOK(b) /\ id \in a.size .. b.size - 1 /\ id \in 0 .. b.size - 1 /\ id \in Free(b)
      BY <1>1, <1>3, <2>2 DEF Grows
    <2>5. /\ Grows(b, e) /\ e.size = b.size /\ Held(e, id)
          /\ id \in Free(b) => \A k \in Free(b) : k # id => k \in Free(e)
          /\ HasRing(b) /\ id \in Free(b) => HasRing(e)
      BY <2>3, <2>4, FixGrows
    <2>6. Grows(a, e)
      BY <2>2, <2>5, GrowsTwice
    <2>7. ASSUME NEW k \in Nat, Block(k) = Block(id), k # id, Open(a, k) PROVE Open(e, k)
      <3>1. k >= a.size /\ k < b.size
        <4>1. (k < a.size <=> id < a.size) /\ (k < b.size <=> id < b.size)
          BY <1>1, <2>4, <2>7, SameBlock DEF ArrayOK
        <4>2. b.size \in Nat
          BY <1>1, <2>2
        <4> QED
          BY <1>1, <1>3, <2>4, <4>1, <4>2
      <3>2. k \in a.size .. b.size - 1
        BY <1>1, <2>2, <3>1
      <3> QED
        BY <2>2, <2>4, <2>5, <2>7, <3>2 DEF Open
    <2> QED
      BY <2>2, <2>4, <2>5, <2>6, <2>7
  <1> QED
    BY <1>2, <1>3

-----------------------------------------------------------------------------
(* Placing a child, and all children of a unit. *)

\* Array e is c but for what units hold besides their offsets.
Relabels(c, e) ==
    /\ DOMAIN e = DOMAIN c
    /\ e.size = c.size /\ e.head = c.head /\ e.extras = c.extras
    /\ DOMAIN e.units = DOMAIN c.units
    /\ \A id \in 0 .. c.size - 1 : e.units[id] \in Units /\ e.units[id].offset = c.units[id].offset

LEMMA RelabelsGrows ==
    ASSUME NEW c, ArrayOK(c), NEW e, Relabels(c, e)
    PROVE  /\ Grows(c, e) /\ (HasRing(c) => HasRing(e))
           /\ \A id \in Nat : (Held(c, id) => Held(e, id)) /\ (Open(c, id) => Open(e, id))
  <1>1. ArrayOK(e) /\ e.size = c.size /\ e.extras = c.extras /\ e.head = c.head /\ c.size \in Nat
    BY DEF Relabels, ArrayOK, Linked
  <1>2. Window(e) = Window(c)
    BY <1>1 DEF Window
  <1>3. \A id : Extra(e, id) = Extra(c, id)
    BY <1>1 DEF Extra
  <1>4. Free(e) = Free(c)
    BY <1>2, <1>3 DEF Free
  <1>5. \A id \in Nat : (Held(c, id) => Held(e, id)) /\ (Open(c, id) => Open(e, id))
    BY <1>1, <1>2, <1>3, <1>4 DEF Held, Open
  <1>6. Grows(c, e)
    BY <1>1, <1>5 DEF Grows, Relabels
  <1>7. HasRing(c) => HasRing(e)
    BY <1>1, RingOnly
  <1> QED
    BY <1>5, <1>6, <1>7

LEMMA PlaceGrows ==
    ASSUME NEW a, ArrayOK(a), NEW id \in 0 .. a.size - 1,
           NEW offset \in Numbers, offset < MaxOffset, offset < a.size + BlockSize,
           NEW label \in 0 .. MaxLabel, NEW value, label = 0 => value \in Nat,
           NEW child, child = XorOf(offset, label),
           NEW e, e = Place(a, id, offset, label, value)
    PROVE  /\ Grows(a, e) /\ Held(e, child)
           /\ HasRing(a) /\ Open(a, child) => HasRing(e)
           /\ \A k \in Nat : /\ Block(k) = Block(child) /\ k # child
                              /\ Open(a, child) /\ Open(a, k) => Open(e, k)
  <1> DEFINE c == Reserve(a, child)
  <1>1. a.size \in Nat /\ a.size % BlockSize = 0 /\ BlockSize \in Nat
    BY Sizes DEF ArrayOK
  <1>2. child \in Nat /\ child < MaxOffset /\ child < a.size + BlockSize
    <2>1. child \in Nat /\ Block(child) = Block(offset) /\ child < MaxOffset /\ offset \in Nat
      BY ChildBlock DEF Numbers
    <2>2. a.size + BlockSize \in Nat /\ (a.size + BlockSize) % BlockSize = 0
      BY <1>1, BlockMore
    <2> QED
      BY <2>1, <2>2, SameBlock
  <1>3. /\ Grows(a, c) /\ Held(c, child)
        /\ HasRing(a) /\ Open(a, child) => HasRing(c)
        /\ \A k \in Nat : /\ Block(k) = Block(child) /\ k # child
                           /\ Open(a, child) /\ Open(a, k) => Open(c, k)
    BY <1>2, ReserveGrows
  <1>4. e = IF label = 0
              THEN [[c EXCEPT !.units[id].hasLeaf = TRUE]
                       EXCEPT !.units[child] = [@ EXCEPT !.isLeaf = TRUE, !.value = value]]
              ELSE [c EXCEPT !.units[child].label = label]
    BY DEF Place
  <1> HIDE DEF c
  <1>5. /\ ArrayOK(c) /\ c.size \in Nat /\ child \in 0 .. c.size - 1 /\ id \in 0 .. c.size - 1
        /\ DOMAIN c = {"size", "units", "extras", "head"} /\ DOMAIN c.units = 0 .. c.size - 1
        /\ \A k \in 0 .. c.size - 1 : c.units[k] \in Units
    BY <1>1, <1>3 DEF Grows, ArrayOK, Held
  <1>6. Relabels(c, e)
    <2>1. CASE label = 0
      <3> DEFINE u == [c.units EXCEPT ![id].hasLeaf = TRUE]
                 v == [u EXCEPT ![child] = [@ EXCEPT !.isLeaf = TRUE, !.value = value]]
      <3>1. /\ DOMAIN e = DOMAIN c /\ e.size = c.size /\ e.head = c.head /\ e.extras = c.extras
            /\ e.units = v
        <4> DEFINE w == [c EXCEPT !.units = u]
        <4>1. e = [w EXCEPT !.units[child] = [@ EXCEPT !.isLeaf = TRUE, !.value = value]]
          <5>1. e = [[c EXCEPT !.units[id].hasLeaf = TRUE]
                        EXCEPT !.units[child] = [@ EXCEPT !.isLeaf = TRUE, !.value = value]]
            BY <1>4, <2>1
          <5>2. [c EXCEPT !.units[id].hasLeaf = TRUE] = w
            BY <1>5
          <5> QED
            BY <5>1, <5>2
        <4>2. /\ DOMAIN w = DOMAIN c /\ w.size = c.size /\ w.head = c.head /\ w.extras = c.extras
              /\ w.units = u
          BY <1>5
        <4> HIDE DEF w, u
        <4>3. e = [w EXCEPT !.units = v]
          BY <4>1, <4>2
        <4> HIDE DEF v
        <4> QED
          BY <1>5, <4>2, <4>3
      <3>2. /\ DOMAIN u = 0 .. c.size - 1
            /\ \A k \in 0 .. c.size - 1 :
                  u[k] = IF k = id THEN [c.units[k] EXCEPT !.hasLeaf = TRUE] ELSE c.units[k]
        BY <1>5
      <3>3. \A k \in 0 .. c.size - 1 : u[k] \in Units /\ u[k].offset = c.units[k].offset
        BY <1>5, <3>2 DEF Units
      <3> HIDE DEF u
      <3>4. /\ DOMAIN v = 0 .. c.size - 1
            /\ \A k \in 0 .. c.size - 1 :
                  v[k] = IF k = child THEN [u[k] EXCEPT !.isLeaf = TRUE, !.value = value] ELSE u[k]
        BY <1>5, <3>2
      <3>5. value \in Nat
        BY <2>1
      <3>6. \A k \in 0 .. c.size - 1 : v[k] \in Units /\ v[k].offset = u[k].offset
        BY <3>3, <3>4, <3>5 DEF Units
      <3> HIDE DEF v
      <3> QED
        BY <1>5, <3>1, <3>3, <3>4, <3>6 DEF Relabels
    <2>2. CASE label # 0
      <3> DEFINE v == [c.units EXCEPT ![child].label = label]
      <3>1. /\ DOMAIN e = DOMAIN c /\ e.size = c.size /\ e.head = c.head /\ e.extras = c.extras
            /\ e.units = v
        BY <1>4, <1>5, <2>2
      <3>2. /\ DOMAIN v = 0 .. c.size - 1
            /\ \A k \in 0 .. c.size - 1 :
                  v[k] = IF k = child THEN [c.units[k] EXCEPT !.label = label] ELSE c.units[k]
        BY <1>5
      <3>3. \A k \in 0 .. c.size - 1 : v[k] \in Units /\ v[k].offset = c.units[k].offset
        BY <1>5, <3>2 DEF Units
      <3> HIDE DEF v
      <3> QED
        BY <1>5, <3>1, <3>2, <3>3 DEF Relabels
    <2> QED
      BY <2>1, <2>2
  <1>7. /\ Grows(c, e) /\ (HasRing(c) => HasRing(e))
        /\ \A k \in Nat : (Held(c, k) => Held(e, k)) /\ (Open(c, k) => Open(e, k))
    BY <1>5, <1>6, RelabelsGrows
  <1>8. Grows(a, e)
    BY <1>3, <1>7, GrowsTwice
  <1> QED
    BY <1>2, <1>3, <1>7, <1>8

PlacedUpTo(f, a, id, offset, labels, values, N) ==
    f = [m \in 0 .. N |->
            IF m = 0 THEN [a EXCEPT !.units[id].offset = XorOf(id, offset)]
            ELSE Place(f[m - 1], id, offset, labels[m], values[m])]

LEMMA PlacedExists ==
    ASSUME NEW a, NEW id, NEW offset, NEW labels, NEW values, NEW N \in Nat
    PROVE  \E f : PlacedUpTo(f, a, id, offset, labels, values, N)
  <1> DEFINE first == [a EXCEPT !.units[id].offset = XorOf(id, offset)]
             Filled(x, m) == Place(x, id, offset, labels[m], values[m])
             T == {M \in Nat : \E f : PlacedUpTo(f, a, id, offset, labels, values, M)}
  <1>1. 0 \in T
    <2> DEFINE f == [m \in 0 .. 0 |-> first]
    <2>1. PlacedUpTo(f, a, id, offset, labels, values, 0)
      <3>1. \A m \in 0 .. 0 : m = 0
        OBVIOUS
      <3> QED
        BY <3>1 DEF PlacedUpTo
    <2> QED
      BY <2>1
  <1>2. ASSUME NEW M \in 0 .. N - 1, M \in T PROVE M + 1 \in T
    <2>1. PICK f : PlacedUpTo(f, a, id, offset, labels, values, M)
      BY <1>2
    <2> DEFINE g == [m \in 0 .. M + 1 |-> IF m = 0 THEN first ELSE Filled(f[m - 1], m)]
    <2> HIDE DEF first
    <2>2. \A m \in 0 .. M : f[m] = g[m]
      <3>1. \A m \in 0 .. M : f[m] = IF m = 0 THEN first ELSE Filled(f[m - 1], m)
        BY <2>1 DEF PlacedUpTo, first
      <3>2. \A m \in 0 .. M : g[m] = IF m = 0 THEN first ELSE Filled(f[m - 1], m)
        OBVIOUS
      <3> HIDE DEF g, Filled
      <3> QED
        BY <3>1, <3>2
    <2>3. \A m \in 0 .. M + 1 : m # 0 => m - 1 \in 0 .. M
      OBVIOUS
    <2>4. \A m \in 0 .. M + 1 : g[m] = IF m = 0 THEN first ELSE Filled(g[m - 1], m)
      BY <2>2, <2>3
    <2>5. PlacedUpTo(g, a, id, offset, labels, values, M + 1)
      <3>1. g = [m \in 0 .. M + 1 |-> g[m]]
        OBVIOUS
      <3> HIDE DEF g
      <3> QED
        BY <2>4, <3>1 DEF PlacedUpTo, first
    <2> QED
      BY <2>5
  <1> HIDE DEF T
  <1>3. N \in T
    BY <1>1, <1>2, UpTo
  <1> QED
    BY <1>3 DEF T

\* Children at an offset: which they are, and that each is another.
Children(offset, labels) == {XorOf(offset, labels[m]) : m \in 1 .. Len(labels)}
Distinct(labels) == \A m, k \in 1 .. Len(labels) : labels[m] = labels[k] => m = k

\* Only a mark that the id is used as an offset.
LEMMA UsedGrows ==
    ASSUME NEW c, ArrayOK(c), NEW s \in Slots, NEW e, e = [c EXCEPT !.extras[s].used = TRUE]
    PROVE  /\ Grows(c, e) /\ (HasRing(c) => HasRing(e)) /\ e.units = c.units /\ e.size = c.size
           /\ \A id \in Nat : Held(c, id) => Held(e, id)
  <1>1. /\ DOMAIN c = {"size", "units", "extras", "head"}
        /\ c.extras \in [Slots -> ExtraUnits]
        /\ c.size \in Nat
    BY DEF ArrayOK
  <1>2. /\ DOMAIN e = DOMAIN c /\ e.size = c.size /\ e.head = c.head /\ e.units = c.units
        /\ e.extras = [c.extras EXCEPT ![s].used = TRUE]
    BY <1>1
  <1> DEFINE x == e.extras
  <1>3. /\ x \in [Slots -> ExtraUnits]
        /\ \A t \in Slots : /\ x[t].prev = c.extras[t].prev /\ x[t].next = c.extras[t].next
                            /\ x[t].fixed = c.extras[t].fixed
    <2>1. \A t \in Slots : x[t] = IF t = s THEN [c.extras[t] EXCEPT !.used = TRUE] ELSE c.extras[t]
      BY <1>1, <1>2
    <2>2. \A t \in Slots : c.extras[t] \in ExtraUnits
      BY <1>1
    <2>3. DOMAIN x = Slots /\ x = [t \in Slots |-> x[t]]
      BY <1>1, <1>2
    <2> HIDE DEF x
    <2>4. \A t \in Slots : /\ x[t] \in ExtraUnits
                            /\ x[t].prev = c.extras[t].prev /\ x[t].next = c.extras[t].next
                            /\ x[t].fixed = c.extras[t].fixed
      BY <2>1, <2>2 DEF ExtraUnits
    <2> QED
      BY <2>3, <2>4
  <1> HIDE DEF x
  <1>4. ArrayOK(e)
    BY <1>2, <1>3 DEF ArrayOK, Linked, x
  <1>5. Window(e) = Window(c) /\ \A id \in Window(c) : id \in Nat
    BY <1>1, <1>2 DEF Window
  <1>6. \A id \in Nat : /\ Extra(e, id).prev = Extra(c, id).prev
                        /\ Extra(e, id).next = Extra(c, id).next
                        /\ Extra(e, id).fixed = Extra(c, id).fixed
    BY <1>3, LowBlock DEF Extra, Slots, x
  <1>7. \A id \in Nat : Held(c, id) => Held(e, id)
    BY <1>2, <1>5, <1>6 DEF Held
  <1>8. Grows(c, e)
    <2>1. \A id \in 0 .. c.size - 1 : id \in Nat
      BY <1>1
    <2>2. \A id \in c.size .. c.size - 1 : FALSE
      BY <1>1
    <2>3. \A id \in 0 .. c.size - 1 : Held(c, id) => Held(e, id)
      BY <1>7, <2>1
    <2>4. c.size <= e.size /\ \A id \in c.size .. e.size - 1 : FALSE
      BY <1>1, <1>2
    <2>5. \A id \in 0 .. c.size - 1 : e.units[id].offset = c.units[id].offset
      BY <1>2
    <2> QED
      BY <1>4, <2>3, <2>4, <2>5 DEF Grows
  <1>9. ASSUME HasRing(c) PROVE HasRing(e)
    <2>1. PICK r : Chained(c, r)
      BY <1>9 DEF HasRing
    <2>2. Free(e) = Free(c)
      BY <1>5, <1>6 DEF Free
    <2>3. \A i \in 1 .. Len(r) : r[i] \in Nat
      BY <2>1 DEF Chained
    <2>4. Chained(e, r)
      BY <1>2, <1>6, <2>1, <2>2, <2>3 DEF Chained
    <2> QED
      BY <2>4 DEF HasRing
  <1> QED
    BY <1>2, <1>7, <1>8, <1>9

\* What is after arrange_from_dawg or arrange_from_keyset: the unit refers to
\* its children, which have their places, and the ring is one without them if
\* they were in it.
\* Only the offset of a unit.
Refers(a, e, id, offset) ==
    /\ ArrayOK(e) /\ e.size = a.size
    /\ \A k \in 0 .. a.size - 1 :
          e.units[k].offset = IF k = id THEN offset ELSE a.units[k].offset
    /\ (HasRing(a) => HasRing(e))
    /\ \A k \in Nat : (Held(a, k) => Held(e, k)) /\ (Open(a, k) => Open(e, k))

LEMMA OffsetSet ==
    ASSUME NEW a, ArrayOK(a), NEW id \in 0 .. a.size - 1, NEW offset \in 0 .. MaxOffset - 1,
           NEW e, e = [a EXCEPT !.units[id].offset = offset]
    PROVE  Refers(a, e, id, offset)
  <1> DEFINE u == [a.units EXCEPT ![id].offset = offset]
  <1>1. /\ DOMAIN e = DOMAIN a /\ e.size = a.size /\ e.head = a.head
        /\ e.extras = a.extras /\ e.units = u
    BY DEF ArrayOK
  <1>2. /\ DOMAIN u = 0 .. a.size - 1
        /\ \A k \in 0 .. a.size - 1 :
              u[k] = IF k = id THEN [a.units[k] EXCEPT !.offset = offset] ELSE a.units[k]
    BY DEF ArrayOK
  <1>3. \A k \in 0 .. a.size - 1 : a.units[k] \in Units
    BY DEF ArrayOK
  <1>4. \A k \in 0 .. a.size - 1 :
            u[k] \in Units /\ u[k].offset = IF k = id THEN offset ELSE a.units[k].offset
    BY <1>2, <1>3 DEF Units
  <1> HIDE DEF u
  <1>5. ArrayOK(e)
    BY <1>1, <1>2, <1>4 DEF ArrayOK, Linked
  <1>6. Window(e) = Window(a) /\ Free(e) = Free(a)
    BY <1>1 DEF Window, Free, Extra
  <1>7. \A k \in Nat : (Held(a, k) => Held(e, k)) /\ (Open(a, k) => Open(e, k))
    BY <1>1, <1>6 DEF Held, Open, Extra
  <1>8. HasRing(a) => HasRing(e)
    BY <1>1, RingOnly
  <1> QED
    BY <1>1, <1>4, <1>5, <1>7, <1>8 DEF Refers

LEMMA ArrangeGrows ==
    ASSUME NEW a, ArrayOK(a), NEW id \in 0 .. a.size - 1,
           NEW offset \in Numbers, offset < MaxOffset, offset < a.size + BlockSize,
           NEW labels \in Seq(0 .. MaxLabel), NEW values,
           \A m \in 1 .. Len(labels) : labels[m] = 0 => values[m] \in Nat,
           NEW e, e = Arrange(a, id, offset, labels, values)
    PROVE  /\ ArrayOK(e) /\ a.size <= e.size
           /\ \A k \in 0 .. a.size - 1 : Held(a, k) => Held(e, k)
           /\ \A k \in 0 .. e.size - 1 :
                 e.units[k].offset = IF k = id THEN XorOf(id, offset)
                                     ELSE IF k < a.size THEN a.units[k].offset ELSE 0
           /\ \A child \in Children(offset, labels) : Held(e, child)
           /\ /\ HasRing(a) /\ Distinct(labels)
              /\ \A child \in Children(offset, labels) : Open(a, child)
              => HasRing(e)
  <1> DEFINE L == Len(labels)
             first == [a EXCEPT !.units[id].offset = XorOf(id, offset)]
             f == CHOOSE f : f = [m \in 0 .. L |->
                     IF m = 0 THEN [a EXCEPT !.units[id].offset = XorOf(id, offset)]
                     ELSE Place(f[m - 1], id, offset, labels[m], values[m])]
             child(m) == XorOf(offset, labels[m])
             Ready == /\ HasRing(a) /\ Distinct(labels)
                      /\ \A k \in 1 .. L : Open(a, child(k))
             T == {m \in 0 .. L :
                      /\ Grows(first, f[m])
                      /\ \A k \in 1 .. m : Held(f[m], child(k))
                      /\ Ready => /\ HasRing(f[m])
                                  /\ \A k \in m + 1 .. L : Open(f[m], child(k))}
  <1>1. L \in Nat /\ a.size \in Nat /\ id \in Nat /\ offset \in Nat /\ BlockSize \in Nat
        /\ \A m \in 1 .. L : labels[m] \in 0 .. MaxLabel
    <2>1. a.size \in Nat /\ id \in Nat
      BY DEF ArrayOK
    <2>2. offset \in Nat
      BY DEF Numbers
    <2>3. L \in Nat
      OBVIOUS
    <2>4. \A m \in 1 .. Len(labels) : labels[m] \in 0 .. MaxLabel
      BY ElementOfSeq
    <2> QED
      BY <2>1, <2>2, <2>3, <2>4, Sizes
  <1>2. e = [f[L] EXCEPT !.extras[Slot(offset)].used = TRUE]
    BY DEF Arrange
  <1>3. /\ f[0] = first
        /\ \A m \in 1 .. L : m - 1 \in 0 .. L /\ f[m] = Place(f[m - 1], id, offset, labels[m], values[m])
    <2>1. \E g : PlacedUpTo(g, a, id, offset, labels, values, L)
      BY <1>1, PlacedExists
    <2>2. PlacedUpTo(f, a, id, offset, labels, values, L)
      BY <2>1 DEF PlacedUpTo
    <2> HIDE DEF f
    <2>3. f[0] = first
      BY <1>1, <2>2 DEF PlacedUpTo
    <2>4. ASSUME NEW m \in 1 .. L
          PROVE  m - 1 \in 0 .. L /\ f[m] = Place(f[m - 1], id, offset, labels[m], values[m])
      <3>1. m - 1 \in 0 .. L /\ m \in 0 .. L /\ m # 0
        BY <1>1
      <3> QED
        BY <2>2, <3>1 DEF PlacedUpTo
    <2> QED
      BY <2>3, <2>4
  <1> HIDE DEF f, L
  \* The offset fits its field.
  <1>4. /\ XorOf(id, offset) \in 0 .. MaxOffset - 1
        /\ id \in Numbers /\ id < MaxOffset
    <2>1. id \in Numbers /\ id < MaxOffset
      BY <1>1, Sizes DEF ArrayOK, Numbers
    <2>2. XorOf(id, offset) \in Numbers /\ XorOf(id, offset) < MaxOffset
      BY <2>1, XorLaws
    <2> QED
      BY <2>1, <2>2, Sizes DEF Numbers
  <1>5. /\ ArrayOK(first) /\ first.size = a.size
        /\ \A k \in 0 .. a.size - 1 :
              first.units[k].offset = IF k = id THEN XorOf(id, offset) ELSE a.units[k].offset
        /\ (HasRing(a) => HasRing(first))
        /\ \A k \in Nat : (Held(a, k) => Held(first, k)) /\ (Open(a, k) => Open(first, k))
    <2>1. Refers(a, first, id, XorOf(id, offset))
      BY <1>4, OffsetSet
    <2> QED
      BY <2>1 DEF Refers
  <1> HIDE DEF first
  <1>6. \A m \in 1 .. L : /\ child(m) \in Nat /\ child(m) \in Numbers
                          /\ Block(child(m)) = Block(offset)
    <2> SUFFICES ASSUME NEW m \in 1 .. L
                 PROVE  /\ child(m) \in Nat /\ child(m) \in Numbers
                        /\ Block(child(m)) = Block(offset)
      OBVIOUS
    <2>1. labels[m] \in 0 .. MaxLabel /\ labels[m] \in Numbers
      BY <1>1, ChildBlock
    <2> QED
      BY <2>1, ChildBlock, XorLaws
  <1>7. ASSUME Distinct(labels), NEW m \in 1 .. L, NEW k \in 1 .. L, m # k PROVE child(m) # child(k)
    <2>1. labels[m] \in Numbers /\ labels[k] \in Numbers /\ labels[m] # labels[k]
      BY <1>1, <1>7, ChildBlock DEF Distinct, L
    <2>2. XorOf(offset, child(m)) = labels[m] /\ XorOf(offset, child(k)) = labels[k]
      BY <2>1, XorBack
    <2> QED
      BY <2>1, <2>2
  <1>8. 0 \in T
    <2>1. Grows(first, first)
      <3>1. \A k \in first.size .. first.size - 1 : FALSE
        BY <1>1, <1>5
      <3> QED
        BY <1>1, <1>5, <3>1 DEF Grows
    <2>2. \A k \in 1 .. 0 : FALSE
      OBVIOUS
    <2>3. Ready => HasRing(first) /\ \A k \in 0 + 1 .. L : Open(first, child(k))
      BY <1>5, <1>6
    <2> HIDE DEF child, Ready
    <2> QED
      BY <1>1, <1>3, <2>1, <2>2, <2>3
  <1>9. ASSUME NEW m \in 0 .. L - 1, m \in T PROVE m + 1 \in T
    <2> DEFINE b == f[m]
               g == f[m + 1]
    <2>1. m + 1 \in 1 .. L /\ m + 1 \in 0 .. L /\ m \in Nat
          /\ g = Place(b, id, offset, labels[m + 1], values[m + 1])
      BY <1>1, <1>3
    <2>2. /\ Grows(first, b)
          /\ \A k \in 1 .. m : Held(b, child(k))
          /\ Ready => /\ HasRing(b)
                      /\ \A k \in m + 1 .. L : Open(b, child(k))
      BY <1>9
    <2> HIDE DEF b, g, T
    <2>3. /\ ArrayOK(b) /\ id \in 0 .. b.size - 1 /\ offset < b.size + BlockSize /\ b.size \in Nat
      BY <1>1, <1>5, <2>2 DEF Grows, ArrayOK
    <2>4. /\ Grows(b, g) /\ Held(g, child(m + 1))
          /\ HasRing(b) /\ Open(b, child(m + 1)) => HasRing(g)
          /\ \A k \in Nat : /\ Block(k) = Block(child(m + 1)) /\ k # child(m + 1)
                             /\ Open(b, child(m + 1)) /\ Open(b, k) => Open(g, k)
      <3>1. labels[m + 1] \in 0 .. MaxLabel
        BY <1>1, <2>1
      <3>2. labels[m + 1] = 0 => values[m + 1] \in Nat
        BY <2>1 DEF L
      <3> QED
        BY <2>1, <2>3, <3>1, <3>2, PlaceGrows
    <2>5. Grows(first, g)
      BY <1>5, <2>2, <2>4, GrowsTwice
    <2>6. ASSUME NEW k \in 1 .. m + 1 PROVE Held(g, child(k))
      <3>1. CASE k = m + 1
        BY <2>4, <3>1
      <3>2. CASE k # m + 1
        <4>1. Held(b, child(k))
          BY <2>1, <2>2, <2>6, <3>2
        <4>2. child(k) \in 0 .. b.size - 1
          BY <4>1 DEF Held
        <4> QED
          BY <2>4, <4>1, <4>2 DEF Grows
      <3> QED
        BY <3>1, <3>2
    <2>7. ASSUME Ready PROVE HasRing(g) /\ \A k \in m + 1 + 1 .. L : Open(g, child(k))
      <3>1. m + 1 \in m + 1 .. L
        BY <1>1, <2>1
      <3>2. HasRing(b) /\ Open(b, child(m + 1)) /\ Distinct(labels)
        BY <2>2, <2>7, <3>1
      <3>3. ASSUME NEW k \in m + 1 + 1 .. L PROVE Open(g, child(k))
        <4>1. k \in 1 .. L /\ k # m + 1 /\ k \in m + 1 .. L
          BY <1>1, <2>1, <3>3
        <4>2. child(k) # child(m + 1) /\ Block(child(k)) = Block(child(m + 1)) /\ child(k) \in Nat
          BY <1>6, <1>7, <2>1, <3>2, <4>1
        <4>3. Open(b, child(k))
          BY <2>2, <2>7, <4>1
        <4> QED
          BY <2>4, <3>2, <4>2, <4>3
      <3> QED
        BY <2>4, <3>2, <3>3
    <2> HIDE DEF child, Ready
    <2> QED
      BY <2>1, <2>5, <2>6, <2>7 DEF T, g
  <1>10. L \in T
    <2> HIDE DEF T
    <2>1. \A m \in 0 .. L : m \in T
      BY <1>1, <1>8, <1>9, UpTo
    <2> QED
      BY <1>1, <2>1
  <1> DEFINE c == f[L]
  <1>11. /\ Grows(first, c) /\ \A k \in 1 .. L : Held(c, child(k))
         /\ Ready => HasRing(c)
    BY <1>10
  <1> HIDE DEF T, c
  <1>12. ArrayOK(c) /\ c.size \in Nat /\ a.size <= c.size
    BY <1>5, <1>11 DEF Grows, ArrayOK
  <1>13. Slot(offset) \in Slots
    BY <1>1, LowBlock DEF Slots
  <1>14. /\ Grows(c, e) /\ (HasRing(c) => HasRing(e)) /\ e.units = c.units /\ e.size = c.size
         /\ \A k \in Nat : Held(c, k) => Held(e, k)
    BY <1>2, <1>12, <1>13, UsedGrows DEF c
  <1>15. ASSUME NEW k \in 0 .. a.size - 1, Held(a, k) PROVE Held(e, k)
    <2>1. k \in Nat /\ Held(first, k)
      BY <1>5, <1>15
    <2>2. Held(c, k)
      BY <1>5, <1>11, <1>15, <2>1 DEF Grows
    <2> QED
      BY <1>14, <2>1, <2>2
  <1>16. ASSUME NEW k \in 0 .. e.size - 1
         PROVE  e.units[k].offset = IF k = id THEN XorOf(id, offset)
                                    ELSE IF k < a.size THEN a.units[k].offset ELSE 0
    <2>1. CASE k < a.size
      <3>1. k \in 0 .. a.size - 1
        BY <1>1, <1>12, <2>1
      <3> QED
        BY <1>5, <1>11, <1>14, <2>1, <3>1 DEF Grows
    <2>2. CASE ~ (k < a.size)
      <3>1. k \in a.size .. c.size - 1 /\ k # id
        BY <1>1, <1>12, <1>14, <2>2
      <3> QED
        BY <1>5, <1>11, <1>14, <2>2, <3>1 DEF Grows
    <2> QED
      BY <2>1, <2>2
  <1>17. \A k \in Children(offset, labels) : Held(e, k)
    BY <1>6, <1>11, <1>14 DEF Children, L
  <1>18. ASSUME HasRing(a), Distinct(labels), \A k \in Children(offset, labels) : Open(a, k)
         PROVE  HasRing(e)
    <2>1. Ready
      BY <1>18 DEF Children, L
    <2> QED
      BY <1>11, <1>14, <2>1
  <1> QED
    BY <1>12, <1>14, <1>15, <1>16, <1>17, <1>18 DEF Grows

-----------------------------------------------------------------------------
(* The walk along the ring. *)

WalkTo(f, a, N) == f = [m \in 0 .. N |-> IF m = 0 THEN a.head ELSE Extra(a, f[m - 1]).next]

LEMMA WalkExists == ASSUME NEW a, NEW N \in Nat PROVE \E f : WalkTo(f, a, N)
  <1> DEFINE T == {M \in Nat : \E f : WalkTo(f, a, M)}
  <1>1. 0 \in T
    <2> DEFINE f == [m \in 0 .. 0 |-> a.head]
    <2>1. WalkTo(f, a, 0)
      BY DEF WalkTo
    <2> QED
      BY <2>1
  <1>2. ASSUME NEW M \in 0 .. N - 1, M \in T PROVE M + 1 \in T
    <2>1. PICK f : WalkTo(f, a, M)
      BY <1>2
    <2> DEFINE g == [m \in 0 .. M + 1 |-> IF m = 0 THEN a.head ELSE Extra(a, f[m - 1]).next]
    <2>2. \A m \in 0 .. M : f[m] = g[m]
      BY <2>1 DEF WalkTo
    <2>3. \A m \in 0 .. M + 1 : m # 0 => m - 1 \in 0 .. M
      OBVIOUS
    <2>4. \A m \in 0 .. M + 1 : g[m] = IF m = 0 THEN a.head ELSE Extra(a, g[m - 1]).next
      BY <2>2, <2>3
    <2>5. WalkTo(g, a, M + 1)
      <3>1. g = [m \in 0 .. M + 1 |-> g[m]]
        OBVIOUS
      <3> HIDE DEF g
      <3> QED
        BY <2>4, <3>1 DEF WalkTo
    <2> QED
      BY <2>5
  <1> HIDE DEF T
  <1>3. N \in T
    BY <1>1, <1>2, UpTo
  <1> QED
    BY <1>3 DEF T

\* The walk, and how much of it is the ring.
WalkOf(a) == CHOOSE f : f = [m \in 0 .. Extras |-> IF m = 0 THEN a.head ELSE Extra(a, f[m - 1]).next]
Back(a) == {m \in 1 .. Extras : WalkOf(a)[m] = a.head}
Length(a) == IF Back(a) = {} THEN Extras ELSE CHOOSE m \in Back(a) : \A k \in Back(a) : m <= k

LEMMA WalkSteps ==
    ASSUME NEW a
    PROVE  /\ WalkOf(a)[0] = a.head
           /\ \A m \in 1 .. Extras : WalkOf(a)[m] = Extra(a, WalkOf(a)[m - 1]).next
           /\ Ring(a) = IF a.head >= a.size THEN <<>>
                        ELSE [m \in 1 .. Length(a) |-> WalkOf(a)[m - 1]]
  <1>1. Extras \in Nat
    BY Sizes
  <1>2. WalkTo(WalkOf(a), a, Extras)
    <2>1. \E f : WalkTo(f, a, Extras)
      BY <1>1, WalkExists
    <2> QED
      BY <2>1 DEF WalkOf, WalkTo
  <1>3. WalkOf(a)[0] = a.head
    BY <1>1, <1>2 DEF WalkTo
  <1>4. ASSUME NEW m \in 1 .. Extras PROVE WalkOf(a)[m] = Extra(a, WalkOf(a)[m - 1]).next
    <2>1. m \in 0 .. Extras /\ m # 0
      BY <1>1
    <2> QED
      BY <1>2, <2>1 DEF WalkTo
  <1>5. Ring(a) = IF a.head >= a.size THEN <<>>
                  ELSE [m \in 1 .. Length(a) |-> WalkOf(a)[m - 1]]
    BY DEF Ring, Length, Back, WalkOf
  <1> QED
    BY <1>3, <1>4, <1>5

\* Whatever the ring links, its ids are those of units there are.
LEMMA RingIds ==
    ASSUME NEW a, ArrayOK(a)
    PROVE  Ring(a) \in Seq(0 .. a.size - 1)
  <1>1. /\ Extras \in Nat \ {0} /\ a.size \in Nat /\ a.head \in 0 .. a.size
        /\ a.extras \in [Slots -> ExtraUnits]
    BY Sizes DEF ArrayOK
  <1>4. /\ WalkOf(a)[0] = a.head
        /\ \A m \in 1 .. Extras : WalkOf(a)[m] = Extra(a, WalkOf(a)[m - 1]).next
    BY WalkSteps
  <1>5. Ring(a) = IF a.head >= a.size THEN <<>>
                  ELSE [m \in 1 .. Length(a) |-> WalkOf(a)[m - 1]]
    BY WalkSteps
  <1>2. CASE a.head >= a.size
    <2>1. Ring(a) = <<>>
      BY <1>2, <1>5
    <2> QED
      BY <2>1
  <1>3. CASE ~ (a.head >= a.size)
    <2> DEFINE T == {m \in 0 .. Extras : WalkOf(a)[m] \in 0 .. a.size - 1}
    <2>1. 0 \in T
      <3>1. WalkOf(a)[0] \in 0 .. a.size - 1
        BY <1>1, <1>3, <1>4
      <3>2. 0 \in 0 .. Extras
        BY <1>1
      <3> QED
        BY <3>1, <3>2
    <2>2. ASSUME NEW m \in 0 .. Extras - 1, m \in T PROVE m + 1 \in T
      <3>1. m + 1 \in 1 .. Extras /\ m + 1 \in 0 .. Extras /\ (m + 1) - 1 = m
        BY <1>1
      <3>2. WalkOf(a)[m + 1] = Extra(a, WalkOf(a)[m]).next
        BY <3>1, WalkSteps
      <3>3. WalkOf(a)[m] \in Nat /\ a.size > 0
        BY <1>1, <2>2
      <3>4. Slot(WalkOf(a)[m]) \in Slots
        BY <3>3, LowBlock DEF Slots
      <3>5. Extra(a, WalkOf(a)[m]).next \in Nat /\ Extra(a, WalkOf(a)[m]).next < a.size
        BY <1>1, <3>3, <3>4 DEF Extra, ArrayOK, Linked, ExtraUnits
      <3> QED
        BY <1>1, <3>1, <3>2, <3>5
    <2>3. \A m \in 0 .. Extras : m \in T
      <3> HIDE DEF T
      <3> QED
        BY <1>1, <2>1, <2>2, UpTo
    <2>4. Length(a) \in 1 .. Extras
      <3>1. CASE Back(a) = {}
        BY <1>1, <3>1 DEF Length
      <3>2. CASE Back(a) # {}
        <4>1. Extras \in Nat /\ Back(a) \subseteq 0 .. Extras
          BY <1>1 DEF Back
        <4>2. \E m \in Back(a) : \A k \in Back(a) : m <= k
          BY <3>2, <4>1, FirstOf
        <4>3. Length(a) \in Back(a)
          BY <3>2, <4>2 DEF Length
        <4> QED
          BY <4>3 DEF Back
      <3> QED
        BY <3>1, <3>2
    <2>5. \A m \in 1 .. Length(a) : WalkOf(a)[m - 1] \in 0 .. a.size - 1
      BY <1>1, <2>3, <2>4
    <2>6. Ring(a) = [m \in 1 .. Length(a) |-> WalkOf(a)[m - 1]]
      BY <1>3, <1>5
    <2>7. Length(a) \in Nat
      BY <1>1, <2>4
    <2> DEFINE s == [m \in 1 .. Length(a) |-> WalkOf(a)[m - 1]]
    <2>8. s \in Seq(0 .. a.size - 1)
      <3> DEFINE N == Length(a)
                 ids == 0 .. a.size - 1
      <3>1. \A m \in 1 .. N : s[m] \in ids
        BY <2>5
      <3>2. s = [m \in 1 .. N |-> s[m]] /\ N \in Nat
        BY <2>7
      <3> HIDE DEF s, N, ids
      <3>3. s \in Seq(ids)
        BY <3>1, <3>2
      <3> QED
        BY <3>3 DEF ids
    <2> QED
      BY <2>6, <2>8
  <1> QED
    BY <1>2, <1>3

\* A ring is no longer than there are extras.
LEMMA RingFits ==
    ASSUME NEW a, a.size \in Nat, NEW r, Chained(a, r)
    PROVE  Len(r) \in Nat /\ Len(r) <= Extras
  <1> DEFINE L == Len(r)
             f == [i \in 1 .. L |-> Slot(r[i])]
  <1>1. L \in Nat /\ Extras \in Nat \ {0}
    BY Sizes DEF Chained
  <1>2. \A i \in 1 .. L : r[i] \in Window(a)
    BY DEF Chained, Free
  <1>3. \A i, k \in 1 .. L : i # k => r[i] # r[k]
    BY DEF Chained
  <1>4. \A i \in 1 .. L : Slot(r[i]) \in Slots
    <2>1. \A id \in Window(a) : id \in Nat
      BY DEF Window
    <2> QED
      BY <1>2, <2>1, LowBlock DEF Slots
  <1>5. \A i, k \in 1 .. L : i # k => Slot(r[i]) # Slot(r[k])
    BY <1>2, <1>3, WindowSlots
  <1> HIDE DEF L
  <1>6. f \in Injection(1 .. L, Slots)
    BY <1>4, <1>5 DEF Injection, IsInjective
  <1>7. IsFiniteSet(Slots) /\ Cardinality(Slots) = Extras
    <2>1. 0 \in Int /\ Extras - 1 \in Int /\ ~ (0 > Extras - 1) /\ (Extras - 1) - 0 + 1 = Extras
      BY <1>1
    <2> QED
      BY <2>1, FS_Interval DEF Slots
  <1>8. Cardinality(1 .. L) = L
    <2>1. 1 \in Int /\ L \in Int /\ (1 > L => L = 0) /\ L - 1 + 1 = L
      BY <1>1
    <2> QED
      BY <2>1, FS_Interval
  <1>9. Cardinality(1 .. L) <= Cardinality(Slots)
    BY <1>6, <1>7, FS_Injection
  <1> QED
    BY <1>1, <1>7, <1>8, <1>9 DEF L

\* Where there is a ring, it is what is walked along.
LEMMA RingOfChained ==
    ASSUME NEW a, ArrayOK(a), NEW r, Chained(a, r)
    PROVE  Ring(a) = r
  <1> DEFINE L == Len(r)
  <1>1. /\ Extras \in Nat \ {0} /\ a.size \in Nat /\ L \in Nat /\ L <= Extras /\ r \in Seq(Nat)
        /\ a.head = IF L = 0 THEN a.size ELSE r[1]
        /\ \A i \in 1 .. L : r[i] \in Nat /\ r[i] < a.size
        /\ \A i, k \in 1 .. L : r[i] = r[k] => i = k
        /\ \A i \in 1 .. L : Extra(a, r[i]).next = IF i = L THEN r[1] ELSE r[i + 1]
    <2>1. Extras \in Nat \ {0} /\ a.size \in Nat
      BY Sizes DEF ArrayOK
    <2>2. L \in Nat /\ L <= Extras
      BY <2>1, RingFits
    <2>3. \A i \in 1 .. L : r[i] \in Nat /\ r[i] < a.size
      BY <2>1 DEF Chained, Free, Window
    <2>4. \A i \in 1 .. L : Extra(a, r[i]).next = IF i = L THEN r[1] ELSE r[i + 1]
      BY DEF Chained, After
    <2> QED
      BY <2>1, <2>2, <2>3, <2>4 DEF Chained
  <1>2. r = [m \in 1 .. L |-> r[m]]
    BY <1>1
  <1> HIDE DEF L
  <1>3. CASE L = 0
    <2>1. Ring(a) = <<>>
      BY <1>1, <1>3, WalkSteps
    <2>2. r = <<>>
      BY <1>1, <1>3, EmptySeq DEF L
    <2> QED
      BY <2>1, <2>2
  <1>4. CASE L # 0
    <2>1. 1 \in 1 .. L /\ a.head = r[1] /\ ~ (a.head >= a.size)
      BY <1>1, <1>4
    <2> DEFINE T == {m \in 0 .. L - 1 : WalkOf(a)[m] = r[m + 1]}
    <2>2. 0 \in T
      BY <1>1, <1>4, <2>1, WalkSteps
    <2>3. ASSUME NEW m \in 0 .. L - 1 - 1, m \in T PROVE m + 1 \in T
      <3>1. m + 1 \in 1 .. Extras /\ (m + 1) - 1 = m /\ m + 1 \in 0 .. L - 1
            /\ m + 1 \in 1 .. L /\ m + 1 # L
        BY <1>1, <1>4
      <3>2. WalkOf(a)[m + 1] = Extra(a, r[m + 1]).next
        BY <2>3, <3>1, WalkSteps
      <3> QED
        BY <1>1, <3>1, <3>2
    <2>4. \A m \in 0 .. L - 1 : m \in T
      <3>1. L - 1 \in Nat
        BY <1>1, <1>4
      <3> HIDE DEF T
      <3> QED
        BY <2>2, <2>3, <3>1, UpTo
    <2>5. WalkOf(a)[L] = r[1]
      <3>1. L \in 1 .. Extras /\ L - 1 \in 0 .. L - 1 /\ (L - 1) + 1 = L /\ L \in 1 .. L
        BY <1>1, <1>4
      <3>2. WalkOf(a)[L - 1] = r[L]
        BY <2>4, <3>1
      <3> QED
        BY <1>1, <3>1, <3>2, WalkSteps, ZenonT(40)
    <2>6. L \in Back(a)
      BY <1>1, <1>4, <2>1, <2>5 DEF Back
    <2>7. \A m \in Back(a) : L <= m
      <3> SUFFICES ASSUME NEW m \in 1 .. Extras, WalkOf(a)[m] = r[1], m < L PROVE FALSE
        BY <1>1, <2>1 DEF Back
      <3>1. m \in 0 .. L - 1 /\ m + 1 \in 1 .. L /\ m + 1 # 1
        BY <1>1
      <3>2. r[m + 1] = r[1]
        BY <2>4, <3>1
      <3> QED
        BY <1>1, <2>1, <3>1, <3>2
    <2>8. Length(a) = L
      <3>1. \A m \in Back(a) : m \in Int
        BY DEF Back
      <3> DEFINE least == CHOOSE m \in Back(a) : \A k \in Back(a) : m <= k
      <3>2. least \in Back(a) /\ \A m \in Back(a) : least <= m
        BY <2>6, <2>7
      <3>3. Length(a) = least
        BY <2>6 DEF Length
      <3> HIDE DEF least
      <3>4. least <= L /\ L <= least /\ least \in Int
        BY <2>6, <2>7, <3>1, <3>2
      <3> QED
        BY <1>1, <3>3, <3>4
    <2>9. Ring(a) = [m \in 1 .. L |-> WalkOf(a)[m - 1]]
      BY <2>1, <2>8, WalkSteps
    <2>10. \A m \in 1 .. L : WalkOf(a)[m - 1] = r[m]
      <3> SUFFICES ASSUME NEW m \in 1 .. L PROVE WalkOf(a)[m - 1] = r[m]
        OBVIOUS
      <3>1. m - 1 \in 0 .. L - 1 /\ (m - 1) + 1 = m
        BY <1>1
      <3> QED
        BY <2>4, <3>1
    <2> QED
      BY <1>2, <2>9, <2>10
  <1> QED
    BY <1>3, <1>4

\* The blocks the extras tell of are whole.
LEMMA WindowBlock ==
    ASSUME NEW a, ArrayOK(a), NEW x \in Window(a), NEW y \in Nat, Block(y) = Block(x)
    PROVE  y \in Window(a)
  <1>1. /\ a.size \in Nat /\ a.size % BlockSize = 0 /\ x \in Nat /\ x < a.size
        /\ x >= a.size - Extras /\ Extras \in Nat /\ BlockSize \in Nat \ {0}
        /\ ExtraBlocks \in Nat /\ Extras = BlockSize * ExtraBlocks
    BY Sizes DEF ArrayOK, Window
  <1>2. y < a.size
    BY <1>1, SameBlock
  <1>3. CASE a.size - Extras <= 0
    BY <1>1, <1>2, <1>3 DEF Window
  <1>4. CASE a.size - Extras > 0
    <2> DEFINE low == a.size - Extras
    <2>1. low \in Nat
      BY <1>1, <1>4
    <2>2. low % BlockSize = 0
      <3>1. \A b \in Nat \ {0} : \A v, k \in Nat : v % b = 0 /\ v - b * k > 0 => (v - b * k) % b = 0
        <4> SUFFICES ASSUME NEW b \in Nat \ {0}, NEW v \in Nat, NEW k \in Nat,
                            v % b = 0, v - b * k > 0
                     PROVE  (v - b * k) % b = 0
          OBVIOUS
        <4>1. v = b * (v \div b) /\ v \div b \in Nat
          OBVIOUS
        <4>2. v - b * k = b * (v \div b - k)
          BY <4>1
        <4>3. v \div b - k \in Nat
          BY <4>1, <4>2
        <4>4. \A q \in Nat : (b * q) % b = 0
          OBVIOUS
        <4> QED
          BY <4>2, <4>3, <4>4
      <3> QED
        BY <1>1, <1>4, <3>1
    <2>3. ~ (y < low)
      <3>1. ~ (x < low)
        BY <1>1
      <3> HIDE DEF low
      <3> QED
        BY <1>1, <2>1, <2>2, <3>1, SameBlock
    <2> QED
      BY <1>1, <1>2, <2>3 DEF Window
  <1> QED
    BY <1>1, <1>3, <1>4

\* find_valid_offset: the offset it finds fits its field, and all children at it
\* can be had.
LEMMA OffsetFound ==
    ASSUME NEW a, ArrayOK(a), NEW id \in 0 .. a.size - 1,
           NEW labels \in Seq(0 .. MaxLabel), Len(labels) >= 1,
           NEW offset, offset = FindOffset(a, id, labels)
    PROVE  /\ offset \in Numbers /\ offset < a.size + BlockSize
           /\ a.size < MaxOffset => offset < MaxOffset
           /\ Low(XorOf(id, offset)) = 0 \/ High(XorOf(id, offset)) = 0
           /\ HasRing(a) => \A child \in Children(offset, labels) : Open(a, child)
           /\ HasRing(a) /\ offset < a.size => offset \in Window(a) /\ ~Extra(a, offset).used
  <1> DEFINE ids == Ring(a)
             Child(m) == XorOf(offset, labels[m])
             valid == {m \in 1 .. Len(ids) : ValidOffset(a, id, XorOf(ids[m], labels[1]), labels)}
             j == CHOOSE m \in valid : \A k \in valid : m <= k
  <1>1. /\ a.size \in Nat /\ a.size % BlockSize = 0 /\ a.size <= MaxOffset
        /\ MaxOffset \in Nat /\ MaxOffset % BlockSize = 0 /\ MaxOffset >= BlockSize + BlockSize
        /\ BlockSize \in Nat \ {0} /\ id \in Nat /\ id < a.size
    BY Sizes DEF ArrayOK
  <1>2. id \in Numbers /\ id < MaxOffset
    BY <1>1 DEF Numbers
  <1>3. /\ 1 \in 1 .. Len(labels)
        /\ \A m \in 1 .. Len(labels) : /\ labels[m] \in 0 .. MaxLabel
                                       /\ labels[m] \in Numbers /\ labels[m] < MaxOffset
    <2>1. \A m \in 1 .. Len(labels) : labels[m] \in 0 .. MaxLabel
      BY ElementOfSeq
    <2>2. 0 \in Numbers
      BY <1>1 DEF Numbers
    <2>3. Len(labels) \in Nat
      OBVIOUS
    <2> QED
      BY <2>1, <2>2, <2>3, ChildBlock
  <1>4. offset = IF valid = {} THEN a.size + Low(id) ELSE XorOf(ids[j], labels[1])
    BY DEF FindOffset
  <1>5. ids \in Seq(0 .. a.size - 1)
    BY RingIds
  <1> HIDE DEF ids, valid, j
  <1>6. CASE valid = {}
    <2> DEFINE low == Low(id)
    <2>1. offset = a.size + low /\ low \in 0 .. BlockSize - 1
      BY <1>1, <1>4, <1>6, LowBlock
    <2>2. \A b \in Nat \ {0} : \A v \in Nat : \A l \in 0 .. b - 1 :
              v % b = 0 => (v + l) % b = l /\ (v + l) \div b = v \div b
      <3> SUFFICES ASSUME NEW b \in Nat \ {0}, NEW v \in Nat, NEW l \in 0 .. b - 1, v % b = 0
                   PROVE  (v + l) % b = l /\ (v + l) \div b = v \div b
        OBVIOUS
      <3>1. v = b * (v \div b) /\ v \div b \in Nat
        OBVIOUS
      <3>2. \A q \in Nat : (b * q + l) % b = l /\ (b * q + l) \div b = q
        OBVIOUS
      <3> QED
        BY <3>1, <3>2
    <2> HIDE DEF low
    <2>3. Low(offset) = low /\ Block(offset) = Block(a.size)
      <3>1. (a.size + low) % BlockSize = low /\ (a.size + low) \div BlockSize = a.size \div BlockSize
        BY <1>1, <2>1, <2>2
      <3> QED
        BY <2>1, <3>1 DEF Low, Block
    <2>4. offset \in Nat /\ offset >= a.size /\ offset < a.size + BlockSize
      BY <1>1, <2>1
    <2>5. offset \in Numbers
      BY <1>1, <2>4 DEF Numbers
    <2>6. a.size < MaxOffset => offset < MaxOffset
      BY <1>1, <2>3, <2>4, SameBlock
    <2>7. Low(XorOf(id, offset)) = 0
      BY <1>2, <2>3, <2>5, XorLaws DEF low
    <2>8. ASSUME NEW m \in 1 .. Len(labels) PROVE Open(a, Child(m))
      <3>1. Child(m) \in Nat /\ Block(Child(m)) = Block(offset)
        BY <1>3, <2>5, ChildBlock
      <3>2. ~ (Child(m) < a.size)
        BY <1>1, <2>3, <2>4, <3>1, SameBlock
      <3> QED
        BY <1>1, <3>1, <3>2 DEF Open
    <2>9. ~ (offset < a.size)
      BY <1>1, <2>4
    <2> QED
      BY <2>4, <2>5, <2>6, <2>7, <2>8, <2>9 DEF Children
  <1>7. CASE valid # {}
    <2>1. j \in valid
      <3>1. Len(ids) \in Nat /\ valid \subseteq 0 .. Len(ids)
        BY <1>5 DEF valid
      <3>2. \E m \in valid : \A k \in valid : m <= k
        BY <1>7, <3>1, FirstOf
      <3> QED
        BY <3>2 DEF j
    <2> DEFINE x == ids[j]
    <2>2. /\ j \in 1 .. Len(ids) /\ offset = XorOf(x, labels[1])
          /\ ValidOffset(a, id, offset, labels)
      BY <1>4, <1>7, <2>1 DEF valid
    <2>3. x \in Nat /\ x < a.size /\ x \in Numbers /\ x < MaxOffset
      <3>1. x \in 0 .. a.size - 1
        BY <1>5, <2>2, ElementOfSeq
      <3> HIDE DEF x
      <3> QED
        BY <1>1, <3>1 DEF Numbers
    <2>4. offset \in Numbers /\ offset < MaxOffset /\ offset \in Nat
      <3> HIDE DEF x
      <3>1. XorOf(x, labels[1]) \in Numbers /\ XorOf(x, labels[1]) < MaxOffset
        BY <1>3, <2>3, XorLaws
      <3> QED
        BY <1>1, <2>2, <3>1 DEF Numbers
    <2>5. Block(offset) = Block(x)
      BY <1>3, <2>2, <2>3, ChildBlock
    <2>6. offset < a.size + BlockSize
      <3>1. offset < a.size
        BY <1>1, <2>3, <2>4, <2>5, SameBlock
      <3> QED
        BY <1>1, <2>4, <3>1
    <2>7. Low(XorOf(id, offset)) = 0 \/ High(XorOf(id, offset)) = 0
      BY <2>2 DEF ValidOffset
    <2>8. ASSUME HasRing(a), NEW m \in 1 .. Len(labels) PROVE Open(a, Child(m))
      <3>1. PICK r : Chained(a, r)
        BY <2>8 DEF HasRing
      <3>2. ids = r
        BY <3>1, RingOfChained DEF ids
      <3>3. x \in Free(a)
        BY <2>2, <3>1, <3>2 DEF Chained
      <3>4. CASE m = 1
        <4>1. XorOf(x, labels[1]) = XorOf(labels[1], x)
          BY <1>3, <2>3, XorLaws
        <4>2. XorOf(labels[1], XorOf(labels[1], x)) = x
          BY <1>3, <2>3, XorBack
        <4>3. XorOf(offset, labels[1]) = XorOf(labels[1], offset)
          BY <1>3, <2>4, XorLaws
        <4>4. Child(m) = x
          BY <2>2, <3>4, <4>1, <4>2, <4>3
        <4> QED
          BY <3>3, <4>4 DEF Open
      <3>5. CASE m # 1
        <4>1. ~Extra(a, Child(m)).fixed
          <5>1. m \in 2 .. Len(labels)
            BY <3>5
          <5> QED
            BY <2>2, <5>1 DEF ValidOffset
        <4>2. Child(m) \in Nat /\ Block(Child(m)) = Block(x)
          BY <1>3, <2>4, <2>5, ChildBlock
        <4>3. Child(m) \in Window(a)
          BY <3>3, <4>2, WindowBlock DEF Free
        <4> QED
          BY <4>1, <4>3 DEF Open, Free
      <3> QED
        BY <3>4, <3>5
    <2>9. ASSUME HasRing(a) PROVE offset \in Window(a) /\ ~Extra(a, offset).used
      <3>1. PICK r : Chained(a, r)
        BY <2>9 DEF HasRing
      <3>2. ids = r
        BY <3>1, RingOfChained DEF ids
      <3>3. x \in Window(a)
        BY <2>2, <3>1, <3>2 DEF Chained, Free
      <3> HIDE DEF x
      <3>4. offset \in Window(a)
        BY <2>4, <2>5, <3>3, WindowBlock
      <3> QED
        BY <2>2, <3>4 DEF ValidOffset
    <2> QED
      BY <2>4, <2>6, <2>7, <2>8, <2>9 DEF Children
  <1> QED
    BY <1>6, <1>7

\* What the ring is for.
LEMMA RingFree ==
    ASSUME NEW a, ArrayOK(a), HasRing(a)
    PROVE  /\ ToSet(Ring(a)) = {id \in {k \in 0 .. a.size - 1 : k >= a.size - Extras} :
                                   ~Extra(a, id).fixed}
           /\ \A m \in 1 .. Len(Ring(a)) : Extra(a, Extra(a, Ring(a)[m]).next).prev = Ring(a)[m]
  <1>1. PICK r : Chained(a, r)
    BY DEF HasRing
  <1>2. Ring(a) = r
    BY <1>1, RingOfChained
  <1>3. ToSet(r) = {id \in {k \in 0 .. a.size - 1 : k >= a.size - Extras} : ~Extra(a, id).fixed}
    <2>1. ToSet(r) = {r[m] : m \in 1 .. Len(r)}
      BY <1>1 DEF ToSet, Chained
    <2>2. {r[m] : m \in 1 .. Len(r)} = Free(a)
      BY <1>1 DEF Chained
    <2> QED
      BY <2>1, <2>2 DEF Free, Window
  <1>4. ASSUME NEW m \in 1 .. Len(r) PROVE Extra(a, Extra(a, r[m]).next).prev = r[m]
    <2> DEFINE k == IF m = Len(r) THEN 1 ELSE m + 1
    <2>1. Len(r) \in Nat
      BY <1>1 DEF Chained
    <2>2. k \in 1 .. Len(r) /\ m = IF k = 1 THEN Len(r) ELSE k - 1
      BY <2>1
    <2>3. Extra(a, r[m]).next = r[k]
      BY <1>1 DEF Chained, After
    <2>4. Extra(a, r[k]).prev = r[m]
      <3> HIDE DEF k
      <3>1. Extra(a, r[k]).prev = Ahead(r, k)
        BY <1>1, <2>2 DEF Chained
      <3> QED
        BY <2>2, <3>1 DEF Ahead
    <2> QED
      BY <2>3, <2>4
  <1> QED
    BY <1>2, <1>3, <1>4
=============================================================================
