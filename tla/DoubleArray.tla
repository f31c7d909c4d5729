----------------------------- MODULE DoubleArray -----------------------------
(***************************************************************************)
(* The dictionary of darts-clone: build, from the automaton of Dawg if     *)
(* there are values and from the sorted keys themselves if there are not,  *)
(* and the three searches in what was built.                               *)
(*                                                                         *)
(* A unit is found at the offset of its parent combined with its label by  *)
(* exclusive or, so that the children of a unit lie in one block of as     *)
(* many units as there are labels.  While it builds, the code knows of the *)
(* units of the last ExtraBlocks blocks which are fixed, which are used as *)
(* an offset, and chains those not fixed into a ring; blocks before are    *)
(* closed.                                                                 *)
(*                                                                         *)
(* Keys have no byte 0 in them.  Memory always suffices.                   *)
(***************************************************************************)
EXTENDS Dawg, FiniteSets

CONSTANTS
    LabelBits,     \* bits of a label, 8
    ExtraBlocks,   \* NUM_EXTRA_BLOCKS, 16
    OffsetBits,    \* bits of an offset that is not shifted, 21
    Inputs,        \* arguments of build: keys, values (<<>> for NULL), and
                   \* the byte behind each key
    MaxLength,     \* bound: the longest string searched for
    XorOf(_, _)    \* exclusive or of two numbers, bit by bit

BlockSize == 2 ^ LabelBits
Extras == BlockSize * ExtraBlocks
MaxOffset == BlockSize * 2 ^ OffsetBits

ASSUME DoubleArrayAssumption ==
    /\ {LabelBits, ExtraBlocks, OffsetBits} \subseteq Nat \ {0}
    /\ 2 ^ OffsetBits \in Nat \ {0, 1}     \* which the provers do not compute
    /\ BlockSize = MaxLabel + 1

\* Values come one for each key or not at all.
ASSUME InputsAssumption ==
    \A i \in Inputs :
        /\ i.keys \in Seq(Seq(1 .. MaxLabel)) /\ i.tail \in 0 .. MaxLabel
        /\ i.values \in Seq(Int) /\ Len(i.values) \in {0, Len(i.keys)}

Low(x) == x % BlockSize                  \* x & LOWER_MASK
High(x) == (x \div 2 ^ OffsetBits)       \* x & UPPER_MASK, for x < MaxOffset
Block(x) == x \div BlockSize

\* What is used of exclusive or, for numbers with a bit more than an offset has.
Numbers == 0 .. 2 * MaxOffset - 1
ASSUME XorAssumption ==
    /\ \A x, y \in Numbers :
          /\ XorOf(x, y) \in Numbers
          /\ XorOf(x, y) = XorOf(y, x) /\ XorOf(x, 0) = x /\ XorOf(x, x) = 0
          /\ x < MaxOffset /\ y < MaxOffset => XorOf(x, y) < MaxOffset
          /\ Low(XorOf(x, y)) = 0 <=> Low(x) = Low(y)
          /\ Block(XorOf(x, y)) = 0 <=> Block(x) = Block(y)
    /\ \A x, y, z \in Numbers : XorOf(XorOf(x, y), z) = XorOf(x, XorOf(y, z))

VARIABLES
    input,
    stage,
    n,        \* keys inserted
    dawg,
    array,    \* units_, extras_ and extras_head_
    table,    \* offsets of the states that are intersections, 0 if not placed
    work      \* calls of build_from_dawg or build_from_keyset still to make

buildVars == <<input, stage, n, dawg, array, table, work>>

-----------------------------------------------------------------------------
(* Units. *)

Blank == [label |-> 0, isLeaf |-> FALSE, value |-> 0, hasLeaf |-> FALSE, offset |-> 0]
Untouched == [prev |-> 0, next |-> 0, fixed |-> FALSE, used |-> FALSE]

Slot(id) == id % Extras
Extra(a, id) == a.extras[Slot(id)]
InitArray == [size |-> 0, units |-> <<>>,
              extras |-> [s \in 0 .. Extras - 1 |-> Untouched], head |-> 0]

\* Unlink id from the ring and fix it: reserve_id, for an id that is there.
Fix(a, id) ==
    LET prev == Extra(a, id).prev
        next == Extra(a, id).next
    IN  [a EXCEPT !.head = IF id # @ THEN @ ELSE IF next = id THEN a.size ELSE next,
                  !.extras = [[[@ EXCEPT ![Slot(prev)].next = next]
                                  EXCEPT ![Slot(next)].prev = prev]
                                  EXCEPT ![Slot(id)].fixed = TRUE]]

Ids(b) == b * BlockSize .. b * BlockSize + BlockSize - 1

\* fix_block: what is not fixed in block b gets a label no search asks for.
FixUnit(a, id, unused) ==
    IF Extra(a, id).fixed THEN a
    ELSE [Fix(a, id) EXCEPT !.units[id].label = Low(XorOf(id, unused))]

FixBlock(a, b) ==
    LET free == {id \in Ids(b) : ~Extra(a, id).used}
        unused == IF free = {} THEN 0 ELSE CHOOSE id \in free : \A other \in free : id <= other
        fixed[m \in 0 .. BlockSize] ==
            IF m = 0 THEN a ELSE FixUnit(fixed[m - 1], b * BlockSize + m - 1, unused)
    IN  fixed[BlockSize]

\* A block more, from id first on: its ids are linked to one another.
Fresh(extras, first) ==
    [s \in DOMAIN extras |->
        LET id == first + s - Slot(first)
            last == first + BlockSize - 1
        IN  IF id \notin first .. last THEN extras[s]
            ELSE [prev |-> IF id = first THEN last ELSE id - 1,
                  next |-> IF id = last THEN first ELSE id + 1,
                  fixed |-> FALSE, used |-> FALSE]]

\* Mutant: the head of the ring keeps the id before it.
JoinOneWay(extras, head, first, last) ==
    LET x == [[extras EXCEPT ![Slot(first)].prev = extras[Slot(head)].prev]
                      EXCEPT ![Slot(last)].next = head]
    IN  [x EXCEPT ![Slot(x[Slot(head)].prev)].next = first]

\* The ids from first to last are linked into the ring before its head.
Join(extras, head, first, last) ==
    LET x == [[extras EXCEPT ![Slot(first)].prev = extras[Slot(head)].prev]
                      EXCEPT ![Slot(last)].next = head]
    IN  [[x EXCEPT ![Slot(x[Slot(head)].prev)].next = first] EXCEPT ![Slot(head)].prev = last]

\* expand_units: where all extras are in use, the first block they tell of is closed.
Expand(a) ==
    LET blocks == Block(a.size)
        c == IF blocks >= ExtraBlocks THEN FixBlock(a, blocks - ExtraBlocks) ELSE a
        last == a.size + BlockSize - 1
    IN  [size |-> a.size + BlockSize, head |-> c.head,
         units |-> [id \in 0 .. last |-> IF id < a.size THEN c.units[id] ELSE Blank],
         extras |-> Join(Fresh(c.extras, a.size), c.head, a.size, last)]

\* reserve_id
Reserve(a, id) == Fix(IF id >= a.size THEN Expand(a) ELSE a, id)

\* The ids of the ring, from its head on.
Ring(a) ==
    IF a.head >= a.size THEN <<>>
    ELSE LET walk[m \in 0 .. Extras] == IF m = 0 THEN a.head ELSE Extra(a, walk[m - 1]).next
             back == {m \in 1 .. Extras : walk[m] = a.head}
             length == IF back = {} THEN Extras ELSE CHOOSE m \in back : \A k \in back : m <= k
         IN  [m \in 1 .. length |-> walk[m - 1]]

\* Mutant: an offset another state has is taken.
ValidOffsetShared(a, id, offset, labels) ==
    /\ LET relative == XorOf(id, offset) IN Low(relative) = 0 \/ High(relative) = 0
    /\ \A m \in 2 .. Len(labels) : ~Extra(a, XorOf(offset, labels[m])).fixed

\* is_valid_offset
ValidOffset(a, id, offset, labels) ==
    /\ ~Extra(a, offset).used
    /\ LET relative == XorOf(id, offset) IN Low(relative) = 0 \/ High(relative) = 0
    /\ \A m \in 2 .. Len(labels) : ~Extra(a, XorOf(offset, labels[m])).fixed

\* find_valid_offset
FindOffset(a, id, labels) ==
    LET ids == Ring(a)
        valid == {m \in 1 .. Len(ids) : ValidOffset(a, id, XorOf(ids[m], labels[1]), labels)}
    IN  IF valid = {} THEN a.size + Low(id)
        ELSE XorOf(ids[CHOOSE m \in valid : \A k \in valid : m <= k], labels[1])

\* Mutant: the unit of a child is not reserved where there is a block for it.
PlaceFree(a, id, offset, label, value) ==
    LET child == XorOf(offset, label)
        c == IF child >= a.size THEN Reserve(a, child) ELSE a
    IN  IF label = 0
          THEN [[c EXCEPT !.units[id].hasLeaf = TRUE]
                   EXCEPT !.units[child] = [@ EXCEPT !.isLeaf = TRUE, !.value = value]]
          ELSE [c EXCEPT !.units[child].label = label]

\* A child of unit id at an offset: a leaf with its value, or a labelled unit.
Place(a, id, offset, label, value) ==
    LET child == XorOf(offset, label)
        c == Reserve(a, child)
    IN  IF label = 0
          THEN [[c EXCEPT !.units[id].hasLeaf = TRUE]
                   EXCEPT !.units[child] = [@ EXCEPT !.isLeaf = TRUE, !.value = value]]
          ELSE [c EXCEPT !.units[child].label = label]

\* arrange_from_dawg and arrange_from_keyset, after the labels are collected.
Arrange(a, id, offset, labels, values) ==
    LET placed[m \in 0 .. Len(labels)] ==
            IF m = 0 THEN [a EXCEPT !.units[id].offset = XorOf(id, offset)]
            ELSE Place(placed[m - 1], id, offset, labels[m], values[m])
    IN  [placed[Len(labels)] EXCEPT !.extras[Slot(offset)].used = TRUE]

-----------------------------------------------------------------------------
(* build *)

BuildInit ==
    /\ input \in Inputs
    /\ stage = IF Len(input.values) > 0 THEN "insert" ELSE "start"
    /\ n = 0
    /\ dawg = InitDawg
    /\ array = InitArray
    /\ table = <<>>
    /\ work = <<>>

\* build_dawg, for one key.
InsertKey ==
    /\ stage = "insert" /\ n < Len(input.keys)
    /\ n' = n + 1
    /\ LET k == input.keys[n'] v == input.values[n']
       IN  IF Refused(dawg, k, v, input.tail)
             THEN stage' = "error" /\ UNCHANGED dawg
             ELSE dawg' = Insert(dawg, k, v, input.tail) /\ UNCHANGED stage
    /\ UNCHANGED <<input, array, table, work>>

FinishDawg ==
    /\ stage = "insert" /\ n = Len(input.keys)
    /\ stage' = "start"
    /\ dawg' = Finish(dawg)
    /\ table' = [s \in dawg'.crossed |-> 0]
    /\ UNCHANGED <<input, n, array, work>>

\* The call for the root of the automaton, or for all keys.
RootCall ==
    IF Len(input.values) > 0
      THEN IF Root(dawg) = 0 THEN <<>> ELSE <<[state |-> Root(dawg), id |-> 0]>>
      ELSE IF Len(input.keys) = 0 THEN <<>>
           ELSE <<[begin |-> 1, end |-> Len(input.keys) + 1, depth |-> 1, id |-> 0]>>

\* The head of build_from_dawg and build_from_keyset: the root, which may be
\* all there is.
PlaceRoot ==
    /\ stage = "start"
    /\ stage' = "arrange"
    /\ array' = [Reserve(array, 0) EXCEPT !.extras[0].used = TRUE, !.units[0].offset = 1]
    /\ work' = RootCall
    /\ UNCHANGED <<input, n, dawg, table>>

Call == work[1]
Done(calls) == work' = calls \o Tail(work)
Offset == IF Call.state \in DOMAIN table THEN table[Call.state] ELSE 0

\* A state that has its place is referred to, if its offset from here can be.
Reusable ==
    Offset # 0 /\ LET relative == XorOf(Offset, Call.id) IN Low(relative) = 0 \/ High(relative) = 0

\* build_from_dawg, for a state that is in the array.
ReuseState ==
    /\ stage = "arrange" /\ work # <<>> /\ "state" \in DOMAIN Call
    /\ Reusable
    /\ array' = [[array EXCEPT !.units[Call.id].hasLeaf =
                                  @ \/ dawg.states[Call.state][1].label = 0]
                        EXCEPT !.units[Call.id].offset = XorOf(Offset, Call.id)]
    /\ Done(<<>>)
    /\ UNCHANGED <<input, stage, n, dawg, table>>

\* The places of labels other than 0.
Where(labels) ==
    LET places[m \in 0 .. Len(labels)] ==
            IF m = 0 THEN <<>>
            ELSE IF labels[m] = 0 THEN places[m - 1] ELSE Append(places[m - 1], m)
    IN  places[Len(labels)]

\* build_from_dawg, for a state that is arranged here.
ArrangeState ==
    /\ stage = "arrange" /\ work # <<>> /\ "state" \in DOMAIN Call
    /\ ~Reusable
    /\ LET arcs == dawg.states[Call.state]
           labels == [m \in 1 .. Len(arcs) |-> arcs[m].label]
           offset == FindOffset(array, Call.id, labels)
           deeper == Where(labels)
       IN  IF XorOf(Call.id, offset) >= MaxOffset
             THEN stage' = "error" /\ UNCHANGED <<array, table, work>>
             ELSE /\ array' = Arrange(array, Call.id, offset, labels,
                                      [m \in 1 .. Len(arcs) |-> arcs[m].to])
                  /\ table' = IF Call.state \in DOMAIN table
                                THEN [table EXCEPT ![Call.state] = offset] ELSE table
                  /\ Done([m \in 1 .. Len(deeper) |->
                             [state |-> arcs[deeper[m]].to, id |-> XorOf(offset, labels[deeper[m]])]])
                  /\ UNCHANGED stage
    /\ UNCHANGED <<input, n, dawg>>

\* Where the labels of an interval of keys at a depth change: the first key of
\* each group with one label.
Groups(call) ==
    LET First(k) == \/ k = call.begin
                    \/ LabelAt(input.keys[k], call.depth) # LabelAt(input.keys[k - 1], call.depth)
        firsts[m \in 0 .. call.end - call.begin] ==
            IF m = 0 THEN <<>>
            ELSE LET k == call.begin + m - 1
                 IN  IF First(k) THEN Append(firsts[m - 1], k) ELSE firsts[m - 1]
    IN  firsts[call.end - call.begin]

\* build_from_keyset: keys in the wrong order are seen where two labels are.
ArrangeKeys ==
    /\ stage = "arrange" /\ work # <<>> /\ "begin" \in DOMAIN Call
    /\ LET groups == Groups(Call)
           labels == [m \in 1 .. Len(groups) |-> LabelAt(input.keys[groups[m]], Call.depth)]
           offset == FindOffset(array, Call.id, labels)
           deeper == Where(labels)
           End(m) == IF m = Len(groups) THEN Call.end ELSE groups[m + 1]
       IN  IF \/ \E m \in 2 .. Len(labels) : labels[m] < labels[m - 1]
              \/ XorOf(Call.id, offset) >= MaxOffset
             THEN stage' = "error" /\ UNCHANGED <<array, work>>
             ELSE /\ array' = Arrange(array, Call.id, offset, labels,
                                      [m \in 1 .. Len(groups) |-> groups[m] - 1])
                  /\ Done([m \in 1 .. Len(deeper) |->
                             [begin |-> groups[deeper[m]], end |-> End(deeper[m]),
                              depth |-> Call.depth + 1,
                              id |-> XorOf(offset, labels[deeper[m]])]])
                  /\ UNCHANGED stage
    /\ UNCHANGED <<input, n, dawg, table>>

\* fix_all_blocks; the array is copied, and takes the place of the old one.
FixAll ==
    /\ stage = "arrange" /\ work = <<>>
    /\ stage' = "done"
    /\ LET blocks == Block(array.size)
           begin == IF blocks > ExtraBlocks THEN blocks - ExtraBlocks ELSE 0
           fixed[m \in 0 .. blocks - begin] ==
               IF m = 0 THEN array ELSE FixBlock(fixed[m - 1], begin + m - 1)
       IN  array' = fixed[blocks - begin]
    /\ UNCHANGED <<input, n, dawg, table, work>>

BuildNext == InsertKey \/ FinishDawg \/ PlaceRoot \/ ReuseState \/ ArrangeState \/ ArrangeKeys \/ FixAll

BuildSpec == BuildInit /\ [][BuildNext]_buildVars

-----------------------------------------------------------------------------
(* The searches. *)

Miss == -1

\* Where a search from the root is after each label of k, or that it missed one.
Path(k) ==
    LET at[m \in 0 .. Len(k)] ==
            IF m = 0 THEN 0 ELSE
            IF at[m - 1] = Miss THEN Miss ELSE
            LET id == XorOf(at[m - 1], XorOf(array.units[at[m - 1]].offset, k[m]))
            IN  IF array.units[id].isLeaf \/ array.units[id].label # k[m] THEN Miss ELSE id
    IN  at

ValueAt(id) ==
    IF id = Miss THEN -1 ELSE
    IF ~array.units[id].hasLeaf THEN -1
    ELSE array.units[XorOf(id, array.units[id].offset)].value

ExactMatchSearch(k) == ValueAt(Path(k)[Len(k)])

\* The matches of commonPrefixSearch, by length.
CommonPrefixSearch(k) ==
    [m \in {m \in 1 .. Len(k) : Path(k)[m] # Miss /\ array.units[Path(k)[m]].hasLeaf} |->
        ValueAt(Path(k)[m])]

\* traverse from the root: its result, and the labels it passed.
Traverse(k) ==
    IF Path(k)[Len(k)] # Miss THEN <<ValueAt(Path(k)[Len(k)]), Len(k)>>
    ELSE <<-2, Cardinality({m \in 1 .. Len(k) : Path(k)[m] # Miss})>>

-----------------------------------------------------------------------------
(* Properties. *)

\* Every variable keeps its type, and what is still to be called belongs to a
\* unit that is fixed.
BuildTypeOK ==
    /\ stage \in {"insert", "start", "arrange", "done", "error"}
    /\ n \in 0 .. Len(input.keys)
    /\ array.size % BlockSize = 0 /\ DOMAIN array.units = 0 .. array.size - 1
    /\ \A id \in DOMAIN array.units :
          array.units[id] \in [label : 0 .. MaxLabel, isLeaf : BOOLEAN, value : Nat,
                              hasLeaf : BOOLEAN, offset : 0 .. MaxOffset - 1]
    /\ \A s \in DOMAIN table : table[s] = 0 \/ table[s] < array.size
    /\ \A m \in 1 .. Len(work) :
          work[m].id >= array.size - Extras => Extra(array, work[m].id).fixed

\* The keys are in order; a repeated key is in order.
Before(j, k) ==
    \E m \in 1 .. Len(j) + 1 :
        /\ \A l \in 1 .. m - 1 : LabelAt(j, l) = LabelAt(k, l)
        /\ LabelAt(j, m) < LabelAt(k, m)

Sorted == \A m \in 2 .. Len(input.keys) : ~Before(input.keys[m], input.keys[m - 1])

\* What follows the keys can mislead insert only where a key is repeated or out
\* of order, and is not looked at otherwise.
Misled ==
    /\ Len(input.values) > 0 /\ input.tail # 0
    /\ \E m \in 2 .. Len(input.keys) : ~Before(input.keys[m - 1], input.keys[m])

\* "There must not be the same unit": the automaton of the keys so far is
\* minimal and acyclic, and knows the states it reuses.
DawgMinimal == Minimal(dawg)

\* While units are being placed, the ring links all ids of the blocks not yet
\* closed that are not fixed, both ways, and nothing else.
RingIsFree ==
    stage = "arrange" /\ ~Misled =>
        LET open == {id \in 0 .. array.size - 1 : id >= array.size - Extras}
            ids == Ring(array)
        IN  /\ ToSet(ids) = {id \in open : ~Extra(array, id).fixed}
            /\ \A m \in 1 .. Len(ids) :
                  Extra(array, Extra(array, ids[m]).next).prev = ids[m]

\* An offset too wide for its field is one whose low bits are clear, which is
\* how it is stored.
OffsetsFit ==
    \A id \in DOMAIN array.units :
        High(array.units[id].offset) # 0 => Low(array.units[id].offset) = 0

\* At every step of build units are free, used and referred to as its records
\* of them say.
ArraySound == RingIsFree /\ OffsetsFit

\* "the key-value pairs must be arranged in key order and the values must not
\* be negative": build throws for that, for an empty key with a value and for
\* an offset that is too large, and for nothing else.
ThrowsRightly ==
    ~Misled =>
        LET wrong == \/ ~Sorted
                     \/ \E m \in 1 .. Len(input.values) :
                           input.values[m] < 0 \/ Len(input.keys[m]) = 0
        IN  /\ stage = "error" => wrong \/ array.size >= MaxOffset
            /\ stage = "done" => ~wrong

\* What the dictionary is to hold: of a repeated key the first value.
ValueOf(k) ==
    LET at == {m \in 1 .. Len(input.keys) : input.keys[m] = k}
        first == CHOOSE m \in at : \A l \in at : m <= l
    IN  IF at = {} THEN -1
        ELSE IF Len(input.values) > 0 THEN input.values[first] ELSE first - 1

Strings == UNION {[1 .. m -> 1 .. MaxLabel] : m \in 0 .. MaxLength}

\* Every search for every string finds what the keys say, whichever way the
\* dictionary was built and however far its blocks are apart, and leaves the
\* array at no step.
AnswersRight ==
    stage = "done" /\ ~Misled =>
        \A k \in Strings :
            /\ \A m \in 0 .. Len(k) - 1 :
                  Path(k)[m] # Miss =>
                     XorOf(Path(k)[m], XorOf(array.units[Path(k)[m]].offset, k[m + 1])) < array.size
            /\ ExactMatchSearch(k) = ValueOf(k)
            /\ CommonPrefixSearch(k) =
                  [m \in {m \in 1 .. Len(k) : ValueOf(SubSeq(k, 1, m)) # -1} |->
                      ValueOf(SubSeq(k, 1, m))]

\* "If there is not a transition labeled key[key_pos + i], traverse() terminates
\* the transitions at that state and returns -2": so it does, but in a
\* dictionary without keys, whose root refers to an offset nothing was put at.
TraversesRight ==
    stage = "done" /\ ~Misled /\ Len(input.keys) > 0 =>
        \A k \in Strings :
            LET Begun(m) == \E j \in 1 .. Len(input.keys) : IsPrefix(SubSeq(k, 1, m), input.keys[j])
            IN  Traverse(k) =
                  IF Begun(Len(k)) THEN <<ValueOf(k), Len(k)>>
                  ELSE <<-2, Cardinality({m \in 1 .. Len(k) : Begun(m)})>>

\* All three searches answer what the keys say.
SearchesRight == AnswersRight /\ TraversesRight
=============================================================================
