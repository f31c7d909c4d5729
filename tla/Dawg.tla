--------------------------------- MODULE Dawg ---------------------------------
(***************************************************************************)
(* DawgBuilder of darts-clone (textproc/mecab-base, variant dartsclone):   *)
(* the minimal acyclic automaton of a sorted list of keys with values,     *)
(* built one key at a time.                                                *)
(*                                                                         *)
(* A state is the sequence of its transitions, each a label and the number *)
(* of the state it leads to; label 0, the end of a key, leads to a value.  *)
(* The states on the path of the last key are still open.  A state that is *)
(* closed is looked up in a hash table with linear probing: `table` holds  *)
(* the numbers of the closed states, 0 for an empty slot.  The nodes the   *)
(* code keeps open states in, and the bits of its units that say where a   *)
(* state begins and ends, are abstracted.                                  *)
(***************************************************************************)
EXTENDS Integers, Sequences, SequencesExt

CONSTANTS
    MaxLabel,    \* 0xFF
    TableSize,   \* INITIAL_TABLE_SIZE, 1 << 10
    HashOf(_)    \* the hash of a state, of its labels and what they lead to

ASSUME MaxLabelAssumption == MaxLabel \in Nat \ {0}
ASSUME TableSizeAssumption == TableSize \in Nat \ {0}

\* What insert reads at position n of key k: past the end, where keys come with
\* their lengths, whatever the caller has there.
Read(k, n, tail) == IF n <= Len(k) THEN k[n] ELSE tail

\* The label of a key at a position, with 0 for its end.
LabelAt(k, n) == Read(k, n, 0)

\* DawgBuilder::init
InitDawg == [levels |-> << <<[label |-> MaxLabel, to |-> 0]>> >>,
             states |-> <<>>, crossed |-> {},
             table |-> [slot \in 1 .. TableSize |-> 0]]

\* Where the search for a state begins in a table of some size.  (An operator
\* has no type: a hash that were no number would begin it at 0.)
Home(state, size) == IF HashOf(state) \in Nat THEN HashOf(state) % size ELSE 0

\* The slot looked at after n others.
Probe(state, n, size) ==
    LET past == Home(state, size) + n
    IN  IF past < size THEN past + 1 ELSE past + 1 - size

\* find_unit: the slot for a state the table does not hold.
FindUnit(table, state) ==
    LET SlotAt(n) == Probe(state, n, Len(table))
    IN  SlotAt(CHOOSE n \in 0 .. Len(table) - 1 :
                  /\ table[SlotAt(n)] = 0
                  /\ \A m \in 0 .. n - 1 : table[SlotAt(m)] # 0)

\* find_node, are_equal: the slot of the state, or the one to put it into.
FindNode(table, states, state) ==
    LET SlotAt(n) == Probe(state, n, Len(table))
        Stop(n) == \/ table[SlotAt(n)] = 0
                   \/ states[table[SlotAt(n)]] = state
    IN  SlotAt(CHOOSE n \in 0 .. Len(table) - 1 : Stop(n) /\ \A m \in 0 .. n - 1 : ~Stop(m))

\* A state of a number is put into a table that does not hold it.
PutUnit(table, state, s) == [table EXCEPT ![FindUnit(table, state)] = s]

\* Mutant: the table is resized and its entries stay where they are.
ExpandTableKept(d) == [slot \in 1 .. 2 * Len(d.table) |->
                          IF slot <= Len(d.table) THEN d.table[slot] ELSE 0]

\* expand_table: twice the slots, and every state put in anew.
ExpandTable(d) ==
    LET filled[s \in 0 .. Len(d.states)] ==
            IF s = 0 THEN [slot \in 1 .. 2 * Len(d.table) |-> 0]
            ELSE PutUnit(filled[s - 1], d.states[s], s)
    IN  filled[Len(d.states)]

\* The table a state is looked up in; the root counts as a state.
TableFor(d) ==
    IF Len(d.states) + 1 >= Len(d.table) - Len(d.table) \div 4 THEN ExpandTable(d) ELSE d.table

\* The last open state is closed: the body of flush.
Close(d) ==
    LET state == Last(d.levels)
        table == TableFor(d)
        slot  == FindNode(table, d.states, state)
        new   == table[slot] = 0
        id    == IF new THEN Len(d.states) + 1 ELSE table[slot]
        upper == Len(d.levels) - 1
    IN  [levels |-> [Front(d.levels) EXCEPT ![upper][Len(d.levels[upper])].to = id],
         states |-> IF new THEN Append(d.states, state) ELSE d.states,
         crossed |-> IF new THEN d.crossed ELSE d.crossed \cup {id},
         table |-> IF new THEN [table EXCEPT ![slot] = id] ELSE table]

\* DawgBuilder::flush: the states below level l.
Flush(d, l) ==
    LET closed[m \in 0 .. Len(d.levels)] == IF m = 0 THEN d ELSE Close(closed[m - 1])
    IN  closed[IF l < Len(d.levels) THEN Len(d.levels) - l ELSE 0]

\* The first position at which key k leaves the path of the key before.
Parting(d, k, tail) ==
    CHOOSE n \in 1 .. Len(k) + 2 :
        LET Same(m) == /\ m <= Len(k) + 1 /\ m < Len(d.levels)
                       /\ Read(k, m, tail) = Last(d.levels[m + 1]).label
        IN  ~Same(n) /\ \A m \in 1 .. n - 1 : Same(m)

\* Mutant: where a key ends its order is not checked.
RefusedShort(d, k, value, tail) ==
    LET n == Parting(d, k, tail)
    IN  \/ value < 0
        \/ Len(k) = 0
        \/ /\ n <= Len(k) /\ n < Len(d.levels)
           /\ Read(k, n, tail) < Last(d.levels[n + 1]).label

\* DawgBuilder::insert throws.
Refused(d, k, value, tail) ==
    LET n == Parting(d, k, tail)
    IN  \/ value < 0
        \/ Len(k) = 0
        \/ /\ n <= Len(k) + 1 /\ n < Len(d.levels)
           /\ Read(k, n, tail) < Last(d.levels[n + 1]).label

\* The transition for position m of a key.
Transition(k, m, value) == [label |-> LabelAt(k, m), to |-> IF m > Len(k) THEN value ELSE 0]

\* DawgBuilder::insert: the path of the key is new below level n, where the first
\* of its transitions joins those of the path before.
Insert(d, k, value, tail) ==
    LET n == Parting(d, k, tail)
        e == Flush(d, n + 1)
    IN  IF n > Len(k) + 1 THEN d
        ELSE [e EXCEPT !.levels = [l \in 1 .. Len(k) + 2 |->
                IF l > Len(@) THEN <<Transition(k, l - 1, value)>>
                ELSE IF l = n + 1 THEN Append(@[l], Transition(k, n, value))
                ELSE @[l]]]

\* DawgBuilder::finish
Finish(d) == Flush(d, 1)

Root(d) == d.levels[1][1].to

-----------------------------------------------------------------------------
(* What the automaton is worth. *)

\* The transitions to closed states, the one into the root included.
Arcs(d) == {a \in (1 .. Len(d.states)) \X (1 .. MaxLabel + 1) :
                a[2] <= Len(d.states[a[1]]) /\ d.states[a[1]][a[2]].label # 0}

\* "There must not be the same unit": no state is there twice, so that the
\* automaton is minimal; an arc leads to a state closed before, so that it is
\* acyclic; and a state two arcs lead to is marked as an intersection (one whose
\* second parent was merged with the first is marked as well).
Minimal(d) ==
    LET To(a) == d.states[a[1]][a[2]].to
    IN  /\ \A s, t \in 1 .. Len(d.states) : d.states[s] = d.states[t] => s = t
        /\ \A a \in Arcs(d) : To(a) \in 1 .. a[1] - 1
        /\ \A a, b \in Arcs(d) : a # b /\ To(a) = To(b) => To(a) \in d.crossed
=============================================================================
