---------------------------- MODULE MCDoubleArray ----------------------------
(* Arguments of build for checking DoubleArray with labels of two bits. *)
EXTENDS DoubleArray, Bitwise

XorTable == [x \in 0 .. 4 * MaxOffset - 1 |-> [y \in 0 .. 4 * MaxOffset - 1 |-> x ^^ y]]
MCXorOf(x, y) == XorTable[x][y]

\* Like hash_node, the hash of a state is made of those of its transitions.
MCHash(state) == FoldSeq(LAMBDA a, h : h ^^ (a.label + 3 * a.to), 0, state)

Words(labels, length) == UNION {[1 .. m -> labels] : m \in 0 .. length}
NoValues == <<>>

\* Any three keys in any order, with values, with and without a byte behind, and
\* without values.
Short == {<<>>, <<1>>, <<1, 1>>, <<2>>, <<2, 1>>, <<3, 1>>}
Unsorted ==
    UNION {[keys : [1 .. m -> Short], values : [1 .. m -> {0, 1}] \cup {NoValues}, tail : {0, 1}] :
              m \in 0 .. 3}

\* Keys in order.
InOrder(j, k) ==
    \E m \in 1 .. Len(j) + 1 :
        /\ \A l \in 1 .. m - 1 : LabelAt(j, l) = LabelAt(k, l)
        /\ LabelAt(j, m) < LabelAt(k, m)
AsSequence(words) ==
    [m \in 1 .. Cardinality(words) |->
        CHOOSE w \in words : Cardinality({v \in words : InOrder(v, w)}) = m - 1]

\* Every set of words of at most two labels, without those of one label but the
\* first, and without values.
TrieInputs ==
    {[keys |-> AsSequence(s), values |-> NoValues, tail |-> 0] :
        s \in SUBSET (Words({1, 2, 3}, 2) \ {<<2>>, <<3>>})}

\* Eighteen keys with values of their own, but where their first two labels are
\* shared: the states below are one, and more than a block apart.
Long == [m \in 1 .. 18 |-> <<(m + 5) \div 6, (((m + 1) \div 2 - 1) % 3) + 1, ((m + 1) % 2) + 1>>]
DawgInputs ==
    {[keys |-> Long,
      values |-> [m \in 1 .. Len(Long) |->
                     IF <<Long[m][1], Long[m][2]>> \in shared THEN 0 ELSE m],
      tail |-> 0] : shared \in SUBSET ({1, 2, 3} \X {1, 2, 3})}

MCInputs == Unsorted \cup TrieInputs \cup DawgInputs
=============================================================================
