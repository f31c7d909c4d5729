------------------------- MODULE DoubleArrayProofs --------------------------
(* Why, whatever the keys, the ring of free units and the offsets in the     *)
(* array of a dictionary are right, build throws for what it says it does    *)
(* and for nothing else, and the searches answer what the keys say.          *)
EXTENDS DawgProofs

-----------------------------------------------------------------------------
(* Labels: the groups of keys, and the places of those that are not 0. *)

PickedTo(f, T, base, N) ==
    f = [m \in 0 .. N |->
            IF m = 0 THEN <<>>
            ELSE IF base + m \in T THEN Append(f[m - 1], base + m) ELSE f[m - 1]]

LEMMA PickedExists ==
    ASSUME NEW T, NEW base, NEW N \in Nat
    PROVE  \E f : PickedTo(f, T, base, N)
  <1> DEFINE Filled(x, m) == IF base + m \in T THEN Append(x, base + m) ELSE x
             To == {M \in Nat : \E f : PickedTo(f, T, base, M)}
  <1>1. 0 \in To
    <2> DEFINE f == [m \in 0 .. 0 |-> <<>>]
    <2>1. PickedTo(f, T, base, 0)
      <3>1. \A m \in 0 .. 0 : m = 0
        OBVIOUS
      <3> QED
        BY <3>1 DEF PickedTo
    <2> QED
      BY <2>1
  <1>2. ASSUME NEW M \in 0 .. N - 1, M \in To PROVE M + 1 \in To
    <2>1. PICK f : PickedTo(f, T, base, M)
      BY <1>2
    <2> DEFINE g == [m \in 0 .. M + 1 |-> IF m = 0 THEN <<>> ELSE Filled(f[m - 1], m)]
    <2>2. \A m \in 0 .. M : f[m] = g[m]
      <3>1. \A m \in 0 .. M : f[m] = IF m = 0 THEN <<>> ELSE Filled(f[m - 1], m)
        BY <2>1 DEF PickedTo
      <3>2. \A m \in 0 .. M : g[m] = IF m = 0 THEN <<>> ELSE Filled(f[m - 1], m)
        OBVIOUS
      <3> HIDE DEF g, Filled
      <3> QED
        BY <3>1, <3>2
    <2>3. \A m \in 0 .. M + 1 : m # 0 => m - 1 \in 0 .. M
      OBVIOUS
    <2>4. \A m \in 0 .. M + 1 : g[m] = IF m = 0 THEN <<>> ELSE Filled(g[m - 1], m)
      <3> HIDE DEF Filled
      <3> QED
        BY <2>2, <2>3
    <2>5. PickedTo(g, T, base, M + 1)
      <3>1. g = [m \in 0 .. M + 1 |-> g[m]]
        OBVIOUS
      <3> HIDE DEF g
      <3> QED
        BY <2>4, <3>1 DEF PickedTo
    <2> QED
      BY <2>5
  <1> HIDE DEF To
  <1>3. N \in To
    BY <1>1, <1>2, UpTo
  <1> QED
    BY <1>3 DEF To

\* Sequence s lists what of T lies from lo to hi, in order.
Lists(s, T, lo, hi) ==
    /\ s \in Seq(Nat)
    /\ \A i \in 1 .. Len(s) : s[i] \in T /\ s[i] \in lo .. hi
    /\ \A k \in lo .. hi : k \in T => \E i \in 1 .. Len(s) : s[i] = k
    /\ \A i, j \in 1 .. Len(s) : i < j => s[i] < s[j]

LEMMA PickedLists ==
    ASSUME NEW T, NEW base \in Nat, NEW N \in Nat, NEW f, PickedTo(f, T, base, N)
    PROVE  Lists(f[N], T, base + 1, base + N)
  <1> DEFINE Listed == {m \in 0 .. N : Lists(f[m], T, base + 1, base + m)}
  <1>1. /\ f[0] = <<>>
        /\ \A m \in 1 .. N : f[m] = IF base + m \in T THEN Append(f[m - 1], base + m) ELSE f[m - 1]
    <2>1. f[0] = <<>>
      BY DEF PickedTo
    <2>2. \A m \in 1 .. N : m \in 0 .. N /\ m # 0
      OBVIOUS
    <2> QED
      BY <2>1, <2>2 DEF PickedTo
  <1>2. 0 \in Listed
    <2>1. \A k \in base + 1 .. base + 0 : FALSE
      OBVIOUS
    <2>2. f[0] \in Seq(Nat) /\ Len(f[0]) = 0
      BY <1>1
    <2> QED
      BY <2>1, <2>2 DEF Lists
  <1>3. ASSUME NEW m \in 0 .. N - 1, m \in Listed PROVE m + 1 \in Listed
    <2> DEFINE s == f[m]
               new == base + (m + 1)
    <2>1. m + 1 \in 1 .. N /\ (m + 1) - 1 = m /\ new \in Nat /\ new = (base + m) + 1 /\ base + m \in Nat
      OBVIOUS
    <2>2. f[m + 1] = IF new \in T THEN Append(s, new) ELSE s
      BY <1>1, <2>1
    <2>3. Lists(s, T, base + 1, base + m)
      BY <1>3
    <2> HIDE DEF s, new
    <2>4. Lists(f[m + 1], T, base + 1, new)
      <3>1. /\ s \in Seq(Nat) /\ Len(s) \in Nat
            /\ \A i \in 1 .. Len(s) : s[i] \in T /\ s[i] \in Nat /\ s[i] \in base + 1 .. base + m
            /\ \A k \in base + 1 .. base + m : k \in T => \E i \in 1 .. Len(s) : s[i] = k
            /\ \A i, j \in 1 .. Len(s) : i < j => s[i] < s[j]
        BY <2>3 DEF Lists
      <3>2. /\ \A x \in base + 1 .. base + m : x \in base + 1 .. new /\ x < new
            /\ \A x \in base + 1 .. new : x \in base + 1 .. base + m \/ x = new
            /\ new \in base + 1 .. new
        BY <2>1
      <3>3. CASE new \notin T
        <4>1. f[m + 1] = s
          BY <2>2, <3>3
        <4>2. \A k \in base + 1 .. new : k \in T => \E i \in 1 .. Len(s) : s[i] = k
          BY <3>1, <3>2, <3>3
        <4> QED
          BY <3>1, <3>2, <4>1, <4>2 DEF Lists
      <3>4. CASE new \in T
        <4> DEFINE e == Append(s, new)
        <4>1. /\ e \in Seq(Nat) /\ Len(e) = Len(s) + 1
              /\ \A i \in 1 .. Len(s) : e[i] = s[i]
              /\ e[Len(s) + 1] = new
          BY <2>1, <3>1, AppendProperties
        <4>2. f[m + 1] = e
          BY <2>2, <3>4
        <4> HIDE DEF e
        <4>3. \A i \in 1 .. Len(e) : i \in 1 .. Len(s) \/ i = Len(s) + 1
          BY <3>1, <4>1
        <4>4. \A i \in 1 .. Len(s) : i \in 1 .. Len(e)
          BY <3>1, <4>1
        <4>5. Len(s) + 1 \in 1 .. Len(e)
          BY <3>1, <4>1
        <4>6. \A i \in 1 .. Len(e) : e[i] \in T /\ e[i] \in base + 1 .. new
          BY <3>1, <3>2, <3>4, <4>1, <4>3
        <4>7. \A k \in base + 1 .. new : k \in T => \E i \in 1 .. Len(e) : e[i] = k
          BY <3>1, <3>2, <4>1, <4>4, <4>5
        <4>8. ASSUME NEW i \in 1 .. Len(e), NEW j \in 1 .. Len(e), i < j PROVE e[i] < e[j]
          <5>1. i \in 1 .. Len(s)
            BY <3>1, <4>1, <4>8
          <5> QED
            BY <3>1, <3>2, <4>1, <4>3, <4>8, <5>1
        <4> QED
          BY <4>1, <4>2, <4>6, <4>7, <4>8 DEF Lists
      <3> QED
        BY <3>3, <3>4
    <2> QED
      BY <2>1, <2>4 DEF new
  <1> HIDE DEF Listed
  <1>4. N \in Listed
    <2>1. \A m \in 0 .. N : m \in Listed
      BY <1>2, <1>3, UpTo
    <2> QED
      BY <2>1
  <1> QED
    BY <1>4 DEF Listed

LEMMA WhereLists ==
    ASSUME NEW labels, Len(labels) \in Nat
    PROVE  Lists(Where(labels), {m \in Nat : labels[m] # 0}, 1, Len(labels))
  <1> DEFINE N == Len(labels)
             T == {m \in Nat : labels[m] # 0}
             f == CHOOSE f : f = [m \in 0 .. N |->
                     IF m = 0 THEN <<>>
                     ELSE IF labels[m] = 0 THEN f[m - 1] ELSE Append(f[m - 1], m)]
  <1>1. Where(labels) = f[N]
    BY DEF Where
  <1>2. ASSUME NEW g
        PROVE  PickedTo(g, T, 0, N) <=>
                 g = [m \in 0 .. N |->
                     IF m = 0 THEN <<>>
                     ELSE IF labels[m] = 0 THEN g[m - 1] ELSE Append(g[m - 1], m)]
    <2>1. \A m \in 0 .. N : 0 + m = m /\ (m \in T <=> labels[m] # 0)
      OBVIOUS
    <2> QED
      BY <2>1 DEF PickedTo
  <1>3. PickedTo(f, T, 0, N)
    <2>1. PICK g : PickedTo(g, T, 0, N)
      BY PickedExists
    <2> QED
      BY <1>2, <2>1
  <1> HIDE DEF f, T
  <1>4. Lists(f[N], T, 0 + 1, 0 + N)
    BY <1>3, PickedLists
  <1> QED
    BY <1>1, <1>4 DEF T

\* The label of a key at the depth of a call.
Label(call, k) == LabelAt(input.keys[k], call.depth)
GroupEnd(call, s, i) == IF i = Len(s) THEN call.end ELSE s[i + 1]
FirstsOf(call) == {k \in Nat : k = call.begin \/ Label(call, k) # Label(call, k - 1)}

LEMMA GroupsLists ==
    ASSUME NEW call, call.begin \in Nat \ {0}, call.end \in Nat, call.begin < call.end
    PROVE  Lists(Groups(call), FirstsOf(call), call.begin, call.end - 1)
  <1> DEFINE N == call.end - call.begin
             base == call.begin - 1
             T == FirstsOf(call)
             First(k) == \/ k = call.begin
                         \/ LabelAt(input.keys[k], call.depth) # LabelAt(input.keys[k - 1], call.depth)
             f == CHOOSE f : f = [m \in 0 .. N |->
                     IF m = 0 THEN <<>>
                     ELSE IF First(call.begin + m - 1)
                            THEN Append(f[m - 1], call.begin + m - 1) ELSE f[m - 1]]
  <1>1. Groups(call) = f[N]
    BY DEF Groups
  <1>2. N \in Nat /\ base \in Nat /\ base + 1 = call.begin /\ base + N = call.end - 1
    OBVIOUS
  <1>3. ASSUME NEW g
        PROVE  PickedTo(g, T, base, N) <=>
                 g = [m \in 0 .. N |->
                     IF m = 0 THEN <<>>
                     ELSE IF First(call.begin + m - 1)
                            THEN Append(g[m - 1], call.begin + m - 1) ELSE g[m - 1]]
    <2>1. \A m \in 0 .. N : /\ base + m = call.begin + m - 1
                            /\ m # 0 => (base + m \in T <=> First(base + m))
      BY DEF FirstsOf, Label
    <2> HIDE DEF First, T, N, base
    <2>2. \A m \in 0 .. N :
             (IF m = 0 THEN <<>> ELSE IF base + m \in T THEN Append(g[m - 1], base + m) ELSE g[m - 1])
           = (IF m = 0 THEN <<>>
              ELSE IF First(call.begin + m - 1)
                     THEN Append(g[m - 1], call.begin + m - 1) ELSE g[m - 1])
      BY <2>1
    <2> QED
      BY <2>2 DEF PickedTo
  <1> HIDE DEF First
  <1>4. PickedTo(f, T, base, N)
    <2>1. PICK g : PickedTo(g, T, base, N)
      BY <1>2, PickedExists
    <2> QED
      BY <1>3, <2>1
  <1> HIDE DEF f, T, N, base
  <1>5. Lists(f[N], T, base + 1, base + N)
    BY <1>2, <1>4, PickedLists
  <1> QED
    BY <1>1, <1>2, <1>5 DEF T

\* Keys of one group have one label, and the groups cover the interval.
Grouped(call, s) ==
    /\ s \in Seq(Nat) /\ Len(s) >= 1 /\ s[1] = call.begin
    /\ \A i \in 1 .. Len(s) : /\ s[i] \in call.begin .. call.end - 1
                              /\ s[i] < GroupEnd(call, s, i)
                              /\ GroupEnd(call, s, i) \in call.begin .. call.end
    /\ \A i \in 2 .. Len(s) : /\ s[i] - 1 \in s[i - 1] .. GroupEnd(call, s, i - 1) - 1
                              /\ Label(call, s[i]) # Label(call, s[i] - 1)
    /\ \A k \in call.begin .. call.end - 1 :
          \E i \in 1 .. Len(s) : k \in s[i] .. GroupEnd(call, s, i) - 1
    /\ \A i \in 1 .. Len(s) : \A k \in s[i] .. GroupEnd(call, s, i) - 1 :
          Label(call, k) = Label(call, s[i])

LEMMA GroupsAre ==
    ASSUME NEW call, call.begin \in Nat \ {0}, call.end \in Nat, call.begin < call.end
    PROVE  Grouped(call, Groups(call))
  <1> DEFINE s == Groups(call)
             T == FirstsOf(call)
             begin == call.begin
             end == call.end
  <1>1. begin \in Nat /\ begin # 0 /\ end \in Nat /\ begin < end
    OBVIOUS
  <1>2. /\ s \in Seq(Nat) /\ Len(s) \in Nat
        /\ \A i \in 1 .. Len(s) : s[i] \in T /\ s[i] \in Nat /\ s[i] >= begin /\ s[i] < end
        /\ \A k \in begin .. end - 1 : k \in T => \E i \in 1 .. Len(s) : s[i] = k
        /\ \A i, j \in 1 .. Len(s) : i < j => s[i] < s[j]
    <2>1. Lists(s, T, begin, end - 1)
      BY GroupsLists
    <2> HIDE DEF s, T, begin, end
    <2> QED
      BY <1>1, <2>1 DEF Lists
  <1>3. begin \in T /\ \A k \in T : k = begin \/ Label(call, k) # Label(call, k - 1)
    BY <1>1 DEF FirstsOf
  <1>4. \A k \in Nat : k \notin T => Label(call, k) = Label(call, k - 1)
    BY DEF FirstsOf
  <1>5. \A i : GroupEnd(call, s, i) = IF i = Len(s) THEN end ELSE s[i + 1]
    BY DEF GroupEnd
  <1> HIDE DEF s, T, begin, end
  <1>6. Len(s) >= 1 /\ s[1] = begin
    <2>1. begin \in begin .. end - 1
      BY <1>1
    <2>2. PICK i \in 1 .. Len(s) : s[i] = begin
      BY <1>2, <1>3, <2>1
    <2>3. 1 \in 1 .. Len(s) /\ (i # 1 => 1 < i)
      BY <1>2, <2>2
    <2> QED
      BY <1>1, <1>2, <2>2, <2>3
  <1>7. \A i \in 1 .. Len(s) : i # Len(s) => i + 1 \in 1 .. Len(s) /\ s[i] < s[i + 1]
    BY <1>2
  <1>8. ASSUME NEW i \in 1 .. Len(s)
        PROVE  /\ s[i] \in begin .. end - 1 /\ s[i] < GroupEnd(call, s, i)
               /\ GroupEnd(call, s, i) \in begin .. end
    <2>1. s[i] \in Nat /\ s[i] >= begin /\ s[i] < end
      BY <1>2
    <2>2. CASE i = Len(s)
      <3>1. GroupEnd(call, s, i) = end
        BY <1>5, <2>2
      <3> QED
        BY <1>1, <2>1, <3>1
    <2>3. CASE i # Len(s)
      <3>1. GroupEnd(call, s, i) = s[i + 1] /\ i + 1 \in 1 .. Len(s) /\ s[i] < s[i + 1]
        BY <1>5, <1>7, <2>3
      <3>2. s[i + 1] \in Nat /\ s[i + 1] >= begin /\ s[i + 1] < end
        BY <1>2, <3>1
      <3> QED
        BY <1>1, <2>1, <3>1, <3>2
    <2> QED
      BY <2>2, <2>3
  <1>9. ASSUME NEW i \in 2 .. Len(s)
        PROVE  /\ s[i] - 1 \in s[i - 1] .. GroupEnd(call, s, i - 1) - 1
               /\ Label(call, s[i]) # Label(call, s[i] - 1)
    <2>1. i - 1 \in 1 .. Len(s) /\ i \in 1 .. Len(s) /\ 1 \in 1 .. Len(s) /\ (i - 1) + 1 = i
          /\ i - 1 # Len(s) /\ i - 1 < i /\ 1 < i
      BY <1>2
    <2>2. GroupEnd(call, s, i - 1) = s[i]
      BY <1>5, <2>1
    <2>3. s[i - 1] < s[i] /\ s[1] < s[i] /\ s[i - 1] \in Nat /\ s[i] \in Nat
      BY <1>2, <2>1
    <2>4. s[i] # begin
      BY <1>1, <1>6, <2>3
    <2> QED
      BY <1>2, <1>3, <2>1, <2>2, <2>3, <2>4
  <1>10. ASSUME NEW k \in begin .. end - 1
         PROVE  \E i \in 1 .. Len(s) : k \in s[i] .. GroupEnd(call, s, i) - 1
    <2> DEFINE Later == {i \in 1 .. Len(s) : s[i] > k}
    <2>1. CASE Later = {}
      <3>1. Len(s) \in 1 .. Len(s)
        BY <1>2, <1>6
      <3>2. s[Len(s)] \in Nat /\ ~ (s[Len(s)] > k)
        BY <1>2, <2>1, <3>1
      <3>3. GroupEnd(call, s, Len(s)) = end
        BY <1>5
      <3>4. k \in s[Len(s)] .. GroupEnd(call, s, Len(s)) - 1
        BY <1>1, <3>2, <3>3
      <3> QED
        BY <3>1, <3>4
    <2>2. CASE Later # {}
      <3>1. PICK j \in Later : \A i \in Later : j <= i
        <4>1. Later \subseteq 0 .. Len(s)
          BY <1>2
        <4> HIDE DEF Later
        <4> QED
          BY <1>2, <2>2, <4>1, FirstOf
      <3>2. j # 1 /\ j \in 1 .. Len(s) /\ s[j] > k
        BY <1>1, <1>6
      <3>3. j - 1 \in 1 .. Len(s) /\ j - 1 # Len(s) /\ (j - 1) + 1 = j /\ ~ (j <= j - 1)
        BY <1>2, <3>2
      <3>4. ~ (s[j - 1] > k) /\ s[j - 1] \in Nat /\ s[j] \in Nat
        BY <1>2, <3>1, <3>2, <3>3
      <3>5. k \in s[j - 1] .. GroupEnd(call, s, j - 1) - 1
        BY <1>1, <1>5, <3>2, <3>3, <3>4
      <3> QED
        BY <3>3, <3>5
    <2> QED
      BY <2>1, <2>2
  <1>11. ASSUME NEW i \in 1 .. Len(s), NEW k \in s[i] .. GroupEnd(call, s, i) - 1
         PROVE  Label(call, k) = Label(call, s[i])
    <2> DEFINE N == GroupEnd(call, s, i) - 1 - s[i]
               Same == {d \in 0 .. N : Label(call, s[i] + d) = Label(call, s[i])}
    <2>1. N \in Nat /\ s[i] \in Nat /\ GroupEnd(call, s, i) \in Nat /\ GroupEnd(call, s, i) <= end
      BY <1>1, <1>2, <1>8, SMTT(30)
    <2>2. 0 \in Same
      <3>1. s[i] + 0 = s[i]
        BY <2>1
      <3> HIDE DEF N
      <3> QED
        BY <2>1, <3>1
    <2>3. ASSUME NEW d \in 0 .. N - 1, d \in Same PROVE d + 1 \in Same
      <3> DEFINE k1 == s[i] + (d + 1)
      <3>1. k1 \in Nat /\ k1 - 1 = s[i] + d /\ s[i] < k1 /\ k1 < GroupEnd(call, s, i)
            /\ k1 \in begin .. end - 1 /\ d + 1 \in 0 .. N
        <4>1. s[i] >= begin /\ d \in Nat /\ d + 1 <= N /\ s[i] + N + 1 = GroupEnd(call, s, i)
          <5>1. s[i] >= begin
            BY <1>2
          <5>2. s[i] + N + 1 = GroupEnd(call, s, i)
            BY <2>1
          <5> HIDE DEF N
          <5> QED
            BY <2>1, <5>1, <5>2
        <4> HIDE DEF N
        <4>2. k1 \in Nat /\ k1 - 1 = s[i] + d /\ s[i] < k1 /\ d + 1 \in 0 .. N
          BY <2>1, <4>1
        <4>3. k1 < GroupEnd(call, s, i)
          BY <2>1, <4>1
        <4> HIDE DEF k1
        <4>4. k1 >= begin /\ k1 < end
          BY <1>1, <2>1, <4>1, <4>2, <4>3
        <4> QED
          BY <1>1, <4>2, <4>3, <4>4
      <3> HIDE DEF k1, N
      <3>2. k1 \notin T
        <4> SUFFICES ASSUME k1 \in T PROVE FALSE
          OBVIOUS
        <4>1. PICK j \in 1 .. Len(s) : s[j] = k1
          BY <1>2, <3>1
        <4>2. i < j
          <5>1. s[i] < s[j] /\ s[i] \in Nat /\ s[j] \in Nat /\ i \in Nat /\ j \in Nat
            BY <1>2, <2>1, <3>1, <4>1
          <5>2. ~ (j < i)
            <6>1. j < i => s[j] < s[i]
              BY <1>2
            <6> QED
              BY <5>1, <6>1
          <5>3. j # i
            BY <5>1
          <5> QED
            BY <5>1, <5>2, <5>3
        <4>3. i # Len(s) /\ i + 1 \in 1 .. Len(s) /\ (i + 1 < j \/ i + 1 = j)
          BY <1>2, <4>2
        <4>4. GroupEnd(call, s, i) = s[i + 1] /\ s[i + 1] \in Nat
          BY <1>2, <1>5, <4>3
        <4>5. s[i + 1] <= s[j]
          <5>1. i + 1 < j => s[i + 1] < s[j]
            BY <1>2, <4>3
          <5> QED
            BY <3>1, <4>1, <4>3, <4>4, <5>1
        <4> QED
          BY <3>1, <4>1, <4>4, <4>5
      <3>3. Label(call, k1) = Label(call, s[i] + d)
        BY <1>4, <3>1, <3>2
      <3> QED
        BY <2>3, <3>1, <3>3 DEF k1
    <2>4. \A d \in 0 .. N : d \in Same
      <3> HIDE DEF N, Same
      <3> QED
        BY <2>1, <2>2, <2>3, UpTo
    <2>5. k - s[i] \in 0 .. N /\ s[i] + (k - s[i]) = k
      BY <2>1
    <2> HIDE DEF N
    <2>6. Label(call, s[i] + (k - s[i])) = Label(call, s[i])
      BY <2>4, <2>5
    <2> QED
      BY <2>5, <2>6
  <1> QED
    BY <1>2, <1>6, <1>8, <1>9, <1>10, <1>11 DEF Grouped, s, begin, end

-----------------------------------------------------------------------------
(* The array while it is built. *)

Fits(offset) == Low(offset) = 0 \/ High(offset) = 0
StateCalls == [state : 1 .. Len(dawg.states), id : Nat]
KeyCalls ==
    {c \in [begin : Nat \ {0}, end : 1 .. Len(input.keys) + 1, depth : Nat \ {0}, id : Nat] :
        c.begin < c.end}
Calls == IF Len(input.values) > 0 THEN StateCalls ELSE KeyCalls

\* The array is what its parts say, each offset fits its field, a state's place
\* is in the array, what is still to be called has a unit that is fixed, and
\* while units are placed the free ones are a ring.
ArrayInv ==
    /\ KeysInv
    /\ stage \in {"insert", "start", "arrange", "done", "error"}
    /\ ArrayOK(array)
    /\ \A id \in 0 .. array.size - 1 : Fits(array.units[id].offset)
    /\ stage \in {"insert", "start"} => array = InitArray /\ work = <<>>
    /\ \A s \in DOMAIN table : table[s] \in Nat /\ (table[s] = 0 \/ table[s] < array.size)
    /\ work \in Seq(Calls)
    /\ \A m \in 1 .. Len(work) : Held(array, work[m].id)
    /\ stage = "arrange" /\ ~Misled => HasRing(array)

\* What is still to be called after a call: the calls it makes, then those before.
Resumed(S, calls, w, e) ==
    /\ e \in Seq(S)
    /\ \A m \in 1 .. Len(e) : \/ \E i \in 1 .. Len(calls) : e[m] = calls[i]
                              \/ \E i \in 2 .. Len(w) : e[m] = w[i]
    /\ \A i \in 1 .. Len(calls) : \E m \in 1 .. Len(e) : e[m] = calls[i]
    /\ \A i \in 2 .. Len(w) : \E m \in 1 .. Len(e) : e[m] = w[i]

LEMMA DoneEffect ==
    ASSUME NEW S, NEW calls \in Seq(S), NEW w \in Seq(S), w # <<>>
    PROVE  Resumed(S, calls, w, calls \o Tail(w))
  <1> DEFINE t == Tail(w)
             e == calls \o t
  <1>1. /\ t \in Seq(S) /\ Len(t) = Len(w) - 1
        /\ \A i \in 1 .. Len(t) : t[i] = w[i + 1]
    BY HeadTailProperties
  <1>2. Len(calls) \in Nat /\ Len(w) \in Nat /\ Len(t) \in Nat
    BY <1>1, LenProperties
  <1> HIDE DEF t
  <1>3. /\ e \in Seq(S) /\ Len(e) = Len(calls) + Len(t)
        /\ \A i \in 1 .. Len(calls) + Len(t) :
              e[i] = IF i <= Len(calls) THEN calls[i] ELSE t[i - Len(calls)]
    BY <1>1, ConcatProperties
  <1> HIDE DEF e
  <1>4. ASSUME NEW m \in 1 .. Len(e)
        PROVE  \/ \E i \in 1 .. Len(calls) : e[m] = calls[i]
               \/ \E i \in 2 .. Len(w) : e[m] = w[i]
    <2>1. CASE m <= Len(calls)
      <3>1. m \in 1 .. Len(calls) /\ m \in 1 .. Len(calls) + Len(t)
        BY <1>2, <1>3, <2>1
      <3> QED
        BY <1>3, <2>1, <3>1
    <2>2. CASE ~ (m <= Len(calls))
      <3>1. /\ m - Len(calls) \in 1 .. Len(t) /\ m \in 1 .. Len(calls) + Len(t)
            /\ (m - Len(calls)) + 1 \in 2 .. Len(w)
        BY <1>1, <1>2, <1>3, <2>2
      <3> QED
        BY <1>1, <1>3, <2>2, <3>1
    <2> QED
      BY <2>1, <2>2
  <1>5. ASSUME NEW i \in 1 .. Len(calls) PROVE \E m \in 1 .. Len(e) : e[m] = calls[i]
    <2>1. i \in 1 .. Len(e) /\ i \in 1 .. Len(calls) + Len(t) /\ i <= Len(calls)
      BY <1>2, <1>3
    <2> QED
      BY <1>3, <2>1
  <1>6. ASSUME NEW i \in 2 .. Len(w) PROVE \E m \in 1 .. Len(e) : e[m] = w[i]
    <2> DEFINE m == Len(calls) + (i - 1)
    <2>1. /\ m \in 1 .. Len(calls) + Len(t) /\ m \in 1 .. Len(e) /\ ~ (m <= Len(calls))
          /\ m - Len(calls) = i - 1 /\ i - 1 \in 1 .. Len(t) /\ (i - 1) + 1 = i
      BY <1>1, <1>2, <1>3
    <2> HIDE DEF m
    <2>2. e[m] = t[i - 1] /\ t[i - 1] = w[i]
      BY <1>1, <1>3, <2>1
    <2> QED
      BY <2>1, <2>2
  <1> QED
    BY <1>3, <1>4, <1>5, <1>6 DEF Resumed, e, t

LEMMA FitsFirst == Fits(0) /\ Fits(1)
  <1>1. /\ 2 ^ OffsetBits \in Nat /\ 2 ^ OffsetBits >= 2
    BY DoubleArrayAssumption
  <1> DEFINE p == 2 ^ OffsetBits
  <1>2. p \in Nat /\ p >= 2
    BY <1>1
  <1> HIDE DEF p
  <1>3. 0 \div p = 0 /\ 1 \div p = 0
    BY <1>2
  <1> QED
    BY <1>3 DEF Fits, High, p

\* Children of a unit at the offset that was found.
Arranged(a, e, offset, labels) ==
    /\ ArrayOK(e) /\ a.size <= e.size
    /\ \A id \in 0 .. e.size - 1 : Fits(e.units[id].offset)
    /\ \A id \in 0 .. a.size - 1 : Held(a, id) => Held(e, id)
    /\ \A m \in 1 .. Len(labels) : Held(e, XorOf(offset, labels[m])) /\ XorOf(offset, labels[m]) \in Nat
    /\ offset \in Nat /\ offset < e.size
    /\ HasRing(a) /\ Distinct(labels) => HasRing(e)

LEMMA ArrangedThere ==
    ASSUME NEW a, ArrayOK(a), \A id \in 0 .. a.size - 1 : Fits(a.units[id].offset),
           NEW id \in 0 .. a.size - 1,
           NEW labels \in Seq(0 .. MaxLabel), Len(labels) >= 1, NEW values,
           \A m \in 1 .. Len(labels) : labels[m] = 0 => values[m] \in Nat,
           NEW offset, offset = FindOffset(a, id, labels), ~ (XorOf(id, offset) >= MaxOffset),
           NEW e, e = Arrange(a, id, offset, labels, values)
    PROVE  Arranged(a, e, offset, labels)
  <1>1. /\ offset \in Numbers /\ offset < a.size + BlockSize
        /\ Fits(XorOf(id, offset))
        /\ HasRing(a) => \A child \in Children(offset, labels) : Open(a, child)
    BY OffsetFound DEF Fits
  <1>2. /\ a.size \in Nat /\ a.size % BlockSize = 0 /\ a.size <= MaxOffset /\ MaxOffset \in Nat
        /\ id \in Nat /\ id < a.size /\ offset \in Nat /\ id \in Numbers /\ id < MaxOffset
    <2>1. MaxOffset \in Nat
      BY Sizes
    <2>2. a.size \in Nat /\ a.size % BlockSize = 0 /\ a.size <= MaxOffset
      BY DEF ArrayOK
    <2>3. id \in Nat /\ id < a.size
      BY <2>2
    <2> QED
      BY <1>1, <2>1, <2>2, <2>3 DEF Numbers
  <1>3. offset < MaxOffset
    <2> DEFINE relative == XorOf(id, offset)
    <2>1. relative \in Numbers /\ XorOf(id, relative) = offset
      BY <1>1, <1>2, XorLaws, XorBack
    <2>2. relative < MaxOffset
      BY <1>2, <2>1 DEF Numbers
    <2> HIDE DEF relative
    <2>3. XorOf(id, relative) < MaxOffset
      BY <1>2, <2>1, <2>2, XorLaws
    <2> QED
      BY <2>1, <2>3
  <1>4. /\ ArrayOK(e) /\ a.size <= e.size
        /\ \A k \in 0 .. a.size - 1 : Held(a, k) => Held(e, k)
        /\ \A k \in 0 .. e.size - 1 :
              e.units[k].offset = IF k = id THEN XorOf(id, offset)
                                  ELSE IF k < a.size THEN a.units[k].offset ELSE 0
        /\ \A child \in Children(offset, labels) : Held(e, child)
        /\ /\ HasRing(a) /\ Distinct(labels)
           /\ \A child \in Children(offset, labels) : Open(a, child)
           => HasRing(e)
    BY <1>1, <1>3, ArrangeGrows
  <1>5. \A k \in 0 .. e.size - 1 : Fits(e.units[k].offset)
    <2> SUFFICES ASSUME NEW k \in 0 .. e.size - 1 PROVE Fits(e.units[k].offset)
      OBVIOUS
    <2>1. CASE k = id
      BY <1>1, <1>4, <2>1
    <2>2. CASE k # id /\ k < a.size
      <3>1. k \in 0 .. a.size - 1
        BY <1>2, <2>2
      <3> QED
        BY <1>4, <2>2, <3>1
    <2>3. CASE k # id /\ ~ (k < a.size)
      BY <1>4, <2>3, FitsFirst
    <2> QED
      BY <2>1, <2>2, <2>3
  <1>6. \A m \in 1 .. Len(labels) :
           Held(e, XorOf(offset, labels[m])) /\ XorOf(offset, labels[m]) \in Nat
    <2> SUFFICES ASSUME NEW m \in 1 .. Len(labels)
                 PROVE  Held(e, XorOf(offset, labels[m])) /\ XorOf(offset, labels[m]) \in Nat
      OBVIOUS
    <2>1. XorOf(offset, labels[m]) \in Children(offset, labels)
      BY DEF Children
    <2>2. labels[m] \in 0 .. MaxLabel
      BY ElementOfSeq
    <2> QED
      BY <1>1, <1>4, <2>1, <2>2, ChildBlock
  <1>7. offset < e.size
    <2> DEFINE child == XorOf(offset, labels[1])
    <2>0. 1 \in 1 .. Len(labels)
      BY LenProperties
    <2>1. labels[1] \in 0 .. MaxLabel
      BY <2>0, ElementOfSeq
    <2>2. child \in Nat /\ Block(child) = Block(offset)
      BY <1>1, <2>1, ChildBlock
    <2>3. e.size \in Nat /\ e.size % BlockSize = 0
      BY <1>4 DEF ArrayOK
    <2>4. child < e.size
      BY <1>6, <2>0, <2>3 DEF Held
    <2> HIDE DEF child
    <2> QED
      BY <1>2, <2>2, <2>3, <2>4, SameBlock
  <1> QED
    BY <1>1, <1>2, <1>4, <1>5, <1>6, <1>7 DEF Arranged

LEMMA InitRing == HasRing(InitArray)
  <1>1. InitArray.size = 0 /\ InitArray.head = 0
    BY DEF InitArray
  <1>2. Free(InitArray) = {}
    <2>1. \A id \in 0 .. InitArray.size - 1 : FALSE
      BY <1>1
    <2> QED
      BY <2>1 DEF Free, Window
  <1>3. Chained(InitArray, <<>>)
    <2>1. <<>> \in Seq(Nat) /\ Len(<<>>) = 0
      BY EmptySeq
    <2>2. \A i \in 1 .. Len(<<>>) : FALSE
      BY <2>1
    <2> QED
      BY <1>1, <1>2, <2>1, <2>2 DEF Chained
  <1> QED
    BY <1>3 DEF HasRing

\* The root unit.
LEMMA RootPlaced ==
    ASSUME NEW e, e = [Reserve(InitArray, 0) EXCEPT !.extras[0].used = TRUE, !.units[0].offset = 1]
    PROVE  /\ ArrayOK(e) /\ HasRing(e) /\ Held(e, 0)
           /\ \A id \in 0 .. e.size - 1 : Fits(e.units[id].offset)
  <1> DEFINE r == Reserve(InitArray, 0)
             u == [r EXCEPT !.extras[0].used = TRUE]
  <1>1. InitArray.size = 0 /\ ArrayOK(InitArray) /\ HasRing(InitArray)
    BY InitArrayOK, InitRing DEF InitArray
  <1>2. 0 < MaxOffset /\ 1 \in 0 .. MaxOffset - 1 /\ 0 < 0 + BlockSize /\ Slot(0) = 0 /\ 0 \in Slots
    <2>1. /\ MaxOffset \in Nat /\ BlockSize \in Nat /\ BlockSize >= 2
          /\ MaxOffset >= BlockSize + BlockSize /\ Extras \in Nat /\ Extras > 0
      BY Sizes
    <2> HIDE DEF Extras, BlockSize, MaxOffset
    <2> QED
      BY <2>1 DEF Slot, Slots
  <1>3. Open(InitArray, 0)
    BY <1>1 DEF Open
  <1>4. Grows(InitArray, r) /\ Held(r, 0) /\ HasRing(r)
    BY <1>1, <1>2, <1>3, ReserveGrows
  <1>5. ArrayOK(r) /\ r.size \in Nat /\ \A id \in 0 .. r.size - 1 : r.units[id].offset = 0
    BY <1>1, <1>4 DEF Grows, ArrayOK
  <1>6. e = [u EXCEPT !.units[0].offset = 1]
    BY DEF ArrayOK
  <1> HIDE DEF r
  <1>7. /\ Grows(r, u) /\ HasRing(u) /\ u.units = r.units /\ u.size = r.size /\ Held(u, 0)
    BY <1>2, <1>4, <1>5, UsedGrows
  <1> HIDE DEF u
  <1>8. ArrayOK(u) /\ 0 \in 0 .. u.size - 1
    BY <1>7 DEF Grows, Held
  <1>9. Refers(u, e, 0, 1)
    BY <1>2, <1>6, <1>8, OffsetSet
  <1>10. ASSUME NEW id \in 0 .. e.size - 1 PROVE Fits(e.units[id].offset)
    <2>1. e.units[id].offset = 1 \/ e.units[id].offset = 0
      BY <1>5, <1>7, <1>9 DEF Refers
    <2> QED
      BY <2>1, FitsFirst
  <1> QED
    BY <1>7, <1>9, <1>10 DEF Refers

\* A unit that refers to a place of its state.
Keeps(a, e) ==
    /\ ArrayOK(e) /\ e.size = a.size /\ (HasRing(a) => HasRing(e))
    /\ \A k \in Nat : Held(a, k) => Held(e, k)
    /\ \A k \in 0 .. e.size - 1 : Fits(e.units[k].offset)

LEMMA Reused ==
    ASSUME NEW a, ArrayOK(a), \A id \in 0 .. a.size - 1 : Fits(a.units[id].offset),
           NEW id \in 0 .. a.size - 1, NEW offset \in Nat, offset < a.size,
           Fits(XorOf(offset, id)), NEW leaf \in BOOLEAN,
           NEW e, e = [[a EXCEPT !.units[id].hasLeaf = leaf]
                           EXCEPT !.units[id].offset = XorOf(offset, id)]
    PROVE  Keeps(a, e)
  <1> DEFINE c == [a EXCEPT !.units[id].hasLeaf = leaf]
             to == XorOf(offset, id)
  <1>1. Relabels(a, c)
    <2> DEFINE u == [a.units EXCEPT ![id].hasLeaf = leaf]
    <2>1. /\ DOMAIN c = DOMAIN a /\ c.size = a.size /\ c.head = a.head
          /\ c.extras = a.extras /\ c.units = u
      BY DEF ArrayOK
    <2>2. /\ DOMAIN u = 0 .. a.size - 1
          /\ \A k \in 0 .. a.size - 1 :
                u[k] = IF k = id THEN [a.units[k] EXCEPT !.hasLeaf = leaf] ELSE a.units[k]
      BY DEF ArrayOK
    <2>3. \A k \in 0 .. a.size - 1 : a.units[k] \in Units
      BY DEF ArrayOK
    <2>4. \A k \in 0 .. a.size - 1 : u[k] \in Units /\ u[k].offset = a.units[k].offset
      BY <2>2, <2>3 DEF Units
    <2>5. DOMAIN a.units = 0 .. a.size - 1
      BY DEF ArrayOK
    <2> HIDE DEF u, c
    <2> QED
      BY <2>1, <2>2, <2>4, <2>5 DEF Relabels
  <1>2. /\ Grows(a, c) /\ (HasRing(a) => HasRing(c)) /\ c.size = a.size
        /\ \A k \in Nat : Held(a, k) => Held(c, k)
        /\ \A k \in 0 .. a.size - 1 : c.units[k].offset = a.units[k].offset
    BY <1>1, RelabelsGrows DEF Relabels
  <1>3. to \in 0 .. MaxOffset - 1
    <2>1. /\ a.size \in Nat /\ a.size <= MaxOffset /\ MaxOffset \in Nat
      BY Sizes DEF ArrayOK
    <2>2. offset \in Numbers /\ id \in Numbers /\ offset < MaxOffset /\ id < MaxOffset
      BY <2>1 DEF Numbers
    <2>3. to \in Numbers /\ to < MaxOffset
      BY <2>2, XorLaws
    <2> QED
      BY <2>1, <2>3 DEF Numbers
  <1>4. e = [c EXCEPT !.units[id].offset = to]
    OBVIOUS
  <1>5. Fits(to)
    OBVIOUS
  <1> HIDE DEF c, to
  <1>6. ArrayOK(c)
    BY <1>2 DEF Grows
  <1>7. Refers(c, e, id, to)
    BY <1>2, <1>3, <1>4, <1>6, OffsetSet
  <1> QED
    BY <1>2, <1>5, <1>7 DEF Refers, Keeps

-----------------------------------------------------------------------------
(* Every step of build keeps the array right. *)

\* What a step that inserts no key leaves alone.
Placing == UNCHANGED <<input, n, dawg>>

LEMMA PlacingKeeps ==
    ASSUME Placing
    PROVE  /\ Calls' = Calls /\ (Misled' <=> Misled)
  BY DEF Placing, Calls, StateCalls, KeyCalls, Misled

\* What the automaton's states offer for the calls.
LEMMA StatesOffer ==
    ASSUME KeysInv, NEW s \in 1 .. Len(dawg.states)
    PROVE  /\ dawg.states[s] \in Seq(Arc) /\ Len(dawg.states[s]) >= 1
           /\ \A m \in 1 .. Len(dawg.states[s]) :
                 /\ dawg.states[s][m].label \in 0 .. MaxLabel
                 /\ dawg.states[s][m].label = 0 => dawg.states[s][m].to \in Nat
                 /\ dawg.states[s][m].label # 0 => dawg.states[s][m].to \in 1 .. Len(dawg.states)
           /\ ~Misled /\ Len(input.values) > 0 => Rising(dawg.states[s])
  <1>1. DawgInv(dawg) /\ Valued(dawg)
    BY DEF KeysInv, AutomatonInv
  <1>2. dawg.states \in Seq(Seq(Arc))
    BY <1>1 DEF DawgInv, Shaped, Automata
  <1>3. dawg.states[s] \in Seq(Arc)
    BY <1>2, ElementOfSeq
  <1>4. ASSUME NEW m \in 1 .. Len(dawg.states[s])
        PROVE  /\ dawg.states[s][m].label \in 0 .. MaxLabel
               /\ dawg.states[s][m].label = 0 => dawg.states[s][m].to \in Nat
               /\ dawg.states[s][m].label # 0 => dawg.states[s][m].to \in 1 .. Len(dawg.states)
    <2>1. dawg.states[s][m] \in Arc
      BY <1>3, ElementOfSeq
    <2>2. dawg.states[s][m].label = 0 => dawg.states[s][m].to \in Nat
      BY <1>1 DEF Valued
    <2>3. dawg.states[s][m].label # 0 => dawg.states[s][m].to \in 1 .. s - 1
      BY <1>1 DEF DawgInv, ArcsBack
    <2>4. Len(dawg.states) \in Nat
      BY <1>2, LenProperties
    <2> QED
      BY <2>1, <2>2, <2>3, <2>4 DEF Arc
  <1>5. ~Misled /\ Len(input.values) > 0 => Rising(dawg.states[s])
    BY DEF KeysInv, Ascends
  <1>6. Len(dawg.states[s]) >= 1
    BY <1>1 DEF Valued
  <1> QED
    BY <1>3, <1>4, <1>5, <1>6

LEMMA RootType ==
    ASSUME KeysInv
    PROVE  Root(dawg) \in 0 .. Len(dawg.states)
  <1>1. Valued(dawg) /\ ArcsDown(dawg) /\ Shaped(dawg)
    BY DEF KeysInv, AutomatonInv, DawgInv
  <1>2. dawg.levels \in Seq(Seq(Arc)) /\ Len(dawg.levels) >= 1
    BY <1>1 DEF Shaped, Automata
  <1>3. 1 \in 1 .. Len(dawg.levels)
    BY <1>2, LenProperties
  <1>4. Len(dawg.levels[1]) >= 1 /\ dawg.levels[1] \in Seq(Arc)
    BY <1>1, <1>2, <1>3, ElementOfSeq DEF Shaped
  <1>5. 1 \in 1 .. Len(dawg.levels[1])
    BY <1>4, LenProperties
  <1>6. dawg.levels[1][1].label # 0
    BY <1>1 DEF Valued
  <1> QED
    BY <1>1, <1>3, <1>5, <1>6 DEF ArcsDown, Root

LEMMA PlaceRootKeeps ==
    ASSUME ArrayInv, PlaceRoot, KeysInv'
    PROVE  ArrayInv'
  <1>1. /\ Placing /\ stage = "start" /\ stage' = "arrange" /\ table' = table /\ work' = RootCall
        /\ array = InitArray /\ array' = [Reserve(array, 0) EXCEPT !.extras[0].used = TRUE,
                                                                   !.units[0].offset = 1]
    BY DEF PlaceRoot, Placing, ArrayInv
  <1>2. /\ ArrayOK(array') /\ HasRing(array') /\ Held(array', 0)
        /\ \A id \in 0 .. array'.size - 1 : Fits(array'.units[id].offset)
    BY <1>1, RootPlaced
  <1>3. Calls' = Calls
    BY <1>1, PlacingKeeps
  <1>4. RootCall \in Seq(Calls) /\ \A m \in 1 .. Len(RootCall) : RootCall[m].id = 0
    <2>1. RootCall = <<>> \/ \E c \in Calls : RootCall = <<c>> /\ c.id = 0
      <3>1. CASE Len(input.values) > 0 /\ Root(dawg) # 0
        <4> DEFINE c == [state |-> Root(dawg), id |-> 0]
        <4>1. Root(dawg) \in 1 .. Len(dawg.states)
          BY <3>1, RootType DEF ArrayInv
        <4>2. c \in Calls /\ RootCall = <<c>>
          BY <3>1, <4>1 DEF Calls, StateCalls, RootCall
        <4> QED
          BY <4>2
      <3>2. CASE ~ (Len(input.values) > 0) /\ Len(input.keys) # 0
        <4> DEFINE c == [begin |-> 1, end |-> Len(input.keys) + 1, depth |-> 1, id |-> 0]
        <4>1. Len(input.keys) \in Nat
          BY InputTypes DEF ArrayInv, KeysInv, AutomatonInv
        <4>2. c \in KeyCalls
          BY <3>2, <4>1 DEF KeyCalls
        <4>3. c \in Calls /\ RootCall = <<c>>
          BY <3>2, <4>2 DEF Calls, RootCall
        <4> QED
          BY <4>3
      <3> QED
        BY <3>1, <3>2 DEF RootCall
    <2>2. ASSUME NEW c \in Calls, RootCall = <<c>>, c.id = 0
          PROVE  RootCall \in Seq(Calls) /\ \A m \in 1 .. Len(RootCall) : RootCall[m].id = 0
      <3>1. <<c>> \in Seq(Calls) /\ Len(<<c>>) = 1 /\ <<c>>[1] = c
        OBVIOUS
      <3>2. \A m \in 1 .. 1 : m = 1
        OBVIOUS
      <3> QED
        BY <2>2, <3>1, <3>2
    <2>3. CASE RootCall = <<>>
      BY <2>3, EmptySeq
    <2> QED
      BY <2>1, <2>2, <2>3
  <1>5. \A s \in DOMAIN table' : table'[s] \in Nat /\ (table'[s] = 0 \/ table'[s] < array'.size)
    <2>1. \A s \in DOMAIN table : table[s] \in Nat /\ (table[s] = 0 \/ table[s] < 0)
      BY <1>1 DEF ArrayInv, InitArray
    <2> QED
      BY <1>1, <2>1
  <1>6. \A m \in 1 .. Len(work') : Held(array', work'[m].id)
    BY <1>1, <1>2, <1>4
  <1>7. work' \in Seq(Calls')
    BY <1>1, <1>3, <1>4
  <1> QED
    BY <1>1, <1>2, <1>5, <1>6, <1>7 DEF ArrayInv

LEMMA ReuseStateKeeps ==
    ASSUME ArrayInv, ReuseState, KeysInv'
    PROVE  ArrayInv'
  <1> DEFINE c == Call
             leaf == array.units[c.id].hasLeaf \/ dawg.states[c.state][1].label = 0
             offset == Offset
  <1>1. /\ Placing /\ stage = "arrange" /\ stage' = "arrange" /\ table' = table
        /\ work # <<>> /\ work' = <<>> \o Tail(work) /\ Reusable
    BY DEF ReuseState, Placing, Done
  <1>2. array' = [[array EXCEPT !.units[c.id].hasLeaf = leaf]
                       EXCEPT !.units[c.id].offset = XorOf(offset, c.id)]
    BY DEF ReuseState
  <1>3. c = work[1] /\ 1 \in 1 .. Len(work) /\ work \in Seq(Calls)
    BY <1>1, EmptySeq DEF Call, ArrayInv
  <1>4. ArrayOK(array) /\ \A id \in 0 .. array.size - 1 : Fits(array.units[id].offset)
    BY DEF ArrayInv
  <1>5. c.id \in 0 .. array.size - 1
    BY <1>3 DEF ArrayInv, Held
  <1>6. offset \in Nat /\ offset < array.size /\ Fits(XorOf(offset, c.id))
    <2>1. offset # 0 /\ Fits(XorOf(offset, c.id))
      BY <1>1 DEF Reusable, Fits
    <2>2. c.state \in DOMAIN table /\ offset = table[c.state]
      BY <2>1 DEF Offset
    <2> QED
      BY <2>1, <2>2 DEF ArrayInv
  <1>7. leaf \in BOOLEAN
    OBVIOUS
  <1> HIDE DEF c, leaf, offset
  <1>8. /\ ArrayOK(array') /\ array'.size = array.size /\ (HasRing(array) => HasRing(array'))
        /\ \A k \in Nat : Held(array, k) => Held(array', k)
        /\ \A k \in 0 .. array'.size - 1 : Fits(array'.units[k].offset)
    <2>1. Keeps(array, array')
      BY <1>2, <1>4, <1>5, <1>6, <1>7, Reused
    <2> QED
      BY <2>1 DEF Keeps
  <1>9. Resumed(Calls, <<>>, work, work')
    BY <1>1, <1>3, EmptySeq, DoneEffect
  <1>10. ASSUME NEW m \in 1 .. Len(work') PROVE Held(array', work'[m].id)
    <2>1. \A i \in 1 .. Len(<<>>) : FALSE
      BY EmptySeq
    <2>2. PICK i \in 2 .. Len(work) : work'[m] = work[i]
      BY <1>9, <2>1 DEF Resumed
    <2>3. i \in 1 .. Len(work)
      OBVIOUS
    <2>4. Held(array, work[i].id)
      BY <2>3 DEF ArrayInv
    <2>5. work[i].id \in Nat
      BY <2>4 DEF Held
    <2> QED
      BY <1>8, <2>2, <2>4, <2>5
  <1>11. Calls' = Calls /\ (Misled' <=> Misled)
    BY <1>1, PlacingKeeps
  <1>12. \A s \in DOMAIN table' : table'[s] \in Nat /\ (table'[s] = 0 \/ table'[s] < array'.size)
    BY <1>1, <1>8 DEF ArrayInv
  <1>13. work' \in Seq(Calls')
    BY <1>9, <1>11 DEF Resumed
  <1>14. ~Misled' => HasRing(array')
    BY <1>1, <1>8, <1>11 DEF ArrayInv
  <1> QED
    BY <1>1, <1>8, <1>10, <1>12, <1>13, <1>14 DEF ArrayInv

\* The calls a call makes are for units that are fixed, and the others' still are.
LEMMA HeldOn ==
    ASSUME ArrayInv, NEW e, NEW offset, NEW labels, Arranged(array, e, offset, labels),
           NEW calls, NEW w, Resumed(Calls, calls, work, w),
           \A i \in 1 .. Len(calls) :
              \E m \in 1 .. Len(labels) : calls[i].id = XorOf(offset, labels[m])
    PROVE  \A m \in 1 .. Len(w) : Held(e, w[m].id)
  <1> SUFFICES ASSUME NEW m \in 1 .. Len(w) PROVE Held(e, w[m].id)
    OBVIOUS
  <1>1. CASE \E i \in 1 .. Len(calls) : w[m] = calls[i]
    BY <1>1 DEF Arranged
  <1>2. ASSUME NEW i \in 2 .. Len(work), w[m] = work[i] PROVE Held(e, w[m].id)
    <2>1. i \in 1 .. Len(work)
      OBVIOUS
    <2>2. Held(array, work[i].id)
      BY <2>1 DEF ArrayInv
    <2>3. work[i].id \in 0 .. array.size - 1
      BY <2>2 DEF Held
    <2> QED
      BY <1>2, <2>2, <2>3 DEF Arranged
  <1> QED
    BY <1>1, <1>2 DEF Resumed

\* A call that arranges its unit's children keeps the invariant.
LEMMA ArrangedKeeps ==
    ASSUME ArrayInv, KeysInv', Placing, stage = "arrange", stage' = "arrange",
           NEW offset, NEW labels, Arranged(array, array', offset, labels),
           ~Misled => Distinct(labels),
           NEW calls, Resumed(Calls, calls, work, work'),
           \A i \in 1 .. Len(calls) :
              \E m \in 1 .. Len(labels) : calls[i].id = XorOf(offset, labels[m]),
           \/ table' = table
           \/ \E s : table' = [table EXCEPT ![s] = offset]
    PROVE  ArrayInv'
  <1>1. Calls' = Calls /\ (Misled' <=> Misled)
    BY PlacingKeeps
  <1>2. \A m \in 1 .. Len(work') : Held(array', work'[m].id)
    BY HeldOn
  <1>3. /\ ArrayOK(array') /\ array.size <= array'.size
        /\ \A id \in 0 .. array'.size - 1 : Fits(array'.units[id].offset)
        /\ offset \in Nat /\ offset < array'.size
        /\ HasRing(array) /\ Distinct(labels) => HasRing(array')
    BY DEF Arranged
  <1>4. \A s \in DOMAIN table' : table'[s] \in Nat /\ (table'[s] = 0 \/ table'[s] < array'.size)
    <2> SUFFICES ASSUME NEW s \in DOMAIN table'
                 PROVE  table'[s] \in Nat /\ (table'[s] = 0 \/ table'[s] < array'.size)
      OBVIOUS
    <2>1. s \in DOMAIN table /\ (table'[s] = table[s] \/ table'[s] = offset)
      OBVIOUS
    <2>2. table[s] \in Nat /\ (table[s] = 0 \/ table[s] < array.size)
      BY <2>1 DEF ArrayInv
    <2>3. array.size \in Nat /\ array'.size \in Nat
      BY <1>3 DEF ArrayInv, ArrayOK
    <2> QED
      BY <1>3, <2>1, <2>2, <2>3
  <1>5. work' \in Seq(Calls')
    BY <1>1 DEF Resumed
  <1>6. ~Misled' => HasRing(array')
    BY <1>1, <1>3 DEF ArrayInv
  <1> QED
    BY <1>2, <1>3, <1>4, <1>5, <1>6 DEF ArrayInv

\* A step that throws.
LEMMA ThrownKeeps ==
    ASSUME ArrayInv, KeysInv', Placing, stage = "arrange", stage' = "error",
           UNCHANGED <<array, table, work>>
    PROVE  ArrayInv'
  <1>1. Calls' = Calls
    BY PlacingKeeps
  <1> QED
    BY <1>1 DEF ArrayInv

\* What build_from_dawg has before it places anything: the call, the arcs of its
\* state and their labels.
ArcLabels(arcs) == [m \in 1 .. Len(arcs) |-> arcs[m].label]

StateReady(c, arcs, labels) ==
    /\ Len(input.values) > 0 /\ Calls = StateCalls
    /\ c.state \in 1 .. Len(dawg.states) /\ c.id \in 0 .. array.size - 1
    /\ arcs \in Seq(Arc) /\ Len(arcs) >= 1 /\ Len(arcs) \in Nat
    /\ \A m \in 1 .. Len(arcs) :
          /\ arcs[m].label \in 0 .. MaxLabel
          /\ arcs[m].label = 0 => arcs[m].to \in Nat
          /\ arcs[m].label # 0 => arcs[m].to \in 1 .. Len(dawg.states)
    /\ ~Misled => Rising(arcs)
    /\ labels \in Seq(0 .. MaxLabel) /\ Len(labels) = Len(arcs)
    /\ \A m \in 1 .. Len(arcs) : labels[m] = arcs[m].label

LEMMA StateCallReady ==
    ASSUME ArrayInv, work # <<>>, "state" \in DOMAIN Call
    PROVE  StateReady(Call, dawg.states[Call.state], ArcLabels(dawg.states[Call.state]))
  <1> DEFINE c == Call
             arcs == dawg.states[c.state]
             labels == ArcLabels(arcs)
  <1>1. c = work[1] /\ 1 \in 1 .. Len(work) /\ work \in Seq(Calls)
    BY EmptySeq DEF Call, ArrayInv
  <1>2. c \in Calls /\ Held(array, c.id)
    BY <1>1, ElementOfSeq DEF ArrayInv
  <1>3. Len(input.values) > 0 /\ Calls = StateCalls
    BY <1>2 DEF Calls, KeyCalls
  <1>4. c.state \in 1 .. Len(dawg.states) /\ c.id \in 0 .. array.size - 1
    BY <1>2, <1>3 DEF StateCalls, Held
  <1>5. /\ arcs \in Seq(Arc) /\ Len(arcs) >= 1 /\ Len(arcs) \in Nat
        /\ \A m \in 1 .. Len(arcs) :
              /\ arcs[m].label \in 0 .. MaxLabel
              /\ arcs[m].label = 0 => arcs[m].to \in Nat
              /\ arcs[m].label # 0 => arcs[m].to \in 1 .. Len(dawg.states)
        /\ ~Misled => Rising(arcs)
    BY <1>3, <1>4, StatesOffer, LenProperties DEF ArrayInv
  <1>6. /\ labels \in Seq(0 .. MaxLabel) /\ Len(labels) = Len(arcs)
        /\ \A m \in 1 .. Len(arcs) : labels[m] = arcs[m].label
    <2> HIDE DEF arcs
    <2> QED
      BY <1>5 DEF ArcLabels
  <1> HIDE DEF c, arcs, labels
  <1>7. StateReady(c, arcs, labels)
    BY <1>3, <1>4, <1>5, <1>6 DEF StateReady
  <1> QED
    BY <1>7 DEF c, arcs, labels

LEMMA ArrangeStateKeeps ==
    ASSUME ArrayInv, ArrangeState, KeysInv'
    PROVE  ArrayInv'
  <1> DEFINE c == Call
             arcs == dawg.states[c.state]
             labels == ArcLabels(arcs)
             values == [m \in 1 .. Len(arcs) |-> arcs[m].to]
             offset == FindOffset(array, c.id, labels)
             deeper == Where(labels)
             calls == [m \in 1 .. Len(deeper) |->
                         [state |-> arcs[deeper[m]].to, id |-> XorOf(offset, labels[deeper[m]])]]
  <1>1. Placing /\ stage = "arrange" /\ work # <<>> /\ "state" \in DOMAIN c
    BY DEF ArrangeState, Placing
  <1>2. \/ stage' = "error" /\ UNCHANGED <<array, table, work>>
        \/ /\ ~ (XorOf(c.id, offset) >= MaxOffset)
           /\ array' = Arrange(array, c.id, offset, labels, values)
           /\ \/ table' = table
              \/ table' = [table EXCEPT ![c.state] = offset]
           /\ work' = calls \o Tail(work)
           /\ stage' = stage
    BY DEF ArrangeState, Done, ArcLabels
  <1>3. work \in Seq(Calls)
    BY DEF ArrayInv
  <1>4. StateReady(c, arcs, labels)
    BY <1>1, StateCallReady
  <1>5. \A m \in 1 .. Len(arcs) : values[m] = arcs[m].to
    OBVIOUS
  <1> HIDE DEF c, arcs, labels, values, offset, deeper, calls
  <1>6. Calls = StateCalls /\ c.id \in 0 .. array.size - 1
    BY <1>4 DEF StateReady
  <1>7. /\ Len(arcs) >= 1 /\ Len(arcs) \in Nat
        /\ \A m \in 1 .. Len(arcs) :
              /\ arcs[m].label \in 0 .. MaxLabel
              /\ arcs[m].label = 0 => arcs[m].to \in Nat
              /\ arcs[m].label # 0 => arcs[m].to \in 1 .. Len(dawg.states)
        /\ ~Misled => Rising(arcs)
    BY <1>4 DEF StateReady
  <1>8. /\ labels \in Seq(0 .. MaxLabel) /\ Len(labels) = Len(arcs)
        /\ \A m \in 1 .. Len(arcs) : labels[m] = arcs[m].label /\ values[m] = arcs[m].to
    BY <1>4, <1>5 DEF StateReady
  <1>9. CASE stage' = "error" /\ UNCHANGED <<array, table, work>>
    BY <1>1, <1>9, ThrownKeeps
  <1>10. CASE /\ ~ (XorOf(c.id, offset) >= MaxOffset)
              /\ array' = Arrange(array, c.id, offset, labels, values)
              /\ \/ table' = table
                 \/ table' = [table EXCEPT ![c.state] = offset]
              /\ work' = calls \o Tail(work)
              /\ stage' = stage
    <2>1. Arranged(array, array', offset, labels)
      <3>1. ArrayOK(array) /\ \A id \in 0 .. array.size - 1 : Fits(array.units[id].offset)
        BY DEF ArrayInv
      <3>2. \A m \in 1 .. Len(labels) : labels[m] = 0 => values[m] \in Nat
        BY <1>7, <1>8
      <3>3. offset = FindOffset(array, c.id, labels)
        BY DEF offset
      <3> QED
        BY <1>6, <1>7, <1>8, <1>10, <3>1, <3>2, <3>3, ArrangedThere
    <2>2. ~Misled => Distinct(labels)
      <3> SUFFICES ASSUME Rising(arcs), NEW m \in 1 .. Len(labels), NEW k \in 1 .. Len(labels),
                          labels[m] = labels[k]
                   PROVE  m = k
        BY <1>7 DEF Distinct
      <3>1. m \in 1 .. Len(arcs) /\ k \in 1 .. Len(arcs) /\ m \in Nat /\ k \in Nat
        BY <1>8
      <3>2. arcs[m].label = arcs[k].label /\ arcs[m].label \in Int
        BY <1>7, <1>8, <3>1, MaxLabelAssumption
      <3>3. ~ (m < k) /\ ~ (k < m)
        <4>1. m < k => arcs[m].label < arcs[k].label
          BY <3>1 DEF Rising
        <4>2. k < m => arcs[k].label < arcs[m].label
          BY <3>1 DEF Rising
        <4> QED
          BY <3>2, <4>1, <4>2
      <3> QED
        BY <3>1, <3>3
    <2>3. /\ deeper \in Seq(Nat) /\ Len(deeper) \in Nat
          /\ \A i \in 1 .. Len(deeper) : deeper[i] \in 1 .. Len(labels) /\ labels[deeper[i]] # 0
      <3>1. Lists(deeper, {m \in Nat : labels[m] # 0}, 1, Len(labels))
        BY <1>7, <1>8, WhereLists DEF deeper
      <3> QED
        BY <3>1 DEF Lists
    <2>4. ASSUME NEW i \in 1 .. Len(deeper)
          PROVE  [state |-> arcs[deeper[i]].to, id |-> XorOf(offset, labels[deeper[i]])] \in Calls
      <3>1. deeper[i] \in 1 .. Len(labels) /\ labels[deeper[i]] # 0 /\ deeper[i] \in 1 .. Len(arcs)
        BY <1>8, <2>3
      <3>2. arcs[deeper[i]].to \in 1 .. Len(dawg.states)
        BY <1>7, <1>8, <3>1
      <3>3. XorOf(offset, labels[deeper[i]]) \in Nat
        BY <2>1, <3>1 DEF Arranged
      <3> QED
        BY <1>6, <3>2, <3>3 DEF StateCalls
    <2>5. calls \in Seq(Calls) /\ Len(calls) = Len(deeper)
          /\ \A i \in 1 .. Len(deeper) : calls[i].id = XorOf(offset, labels[deeper[i]])
      BY <2>3, <2>4 DEF calls
    <2>6. Resumed(Calls, calls, work, work')
      BY <1>1, <1>3, <1>10, <2>5, DoneEffect
    <2>7. \A i \in 1 .. Len(calls) :
             \E m \in 1 .. Len(labels) : calls[i].id = XorOf(offset, labels[m])
      BY <2>3, <2>5
    <2>8. stage' = "arrange"
      BY <1>1, <1>10
    <2>9. table' = table \/ \E s : table' = [table EXCEPT ![s] = offset]
      BY <1>10
    <2> QED
      BY <1>1, <2>1, <2>2, <2>6, <2>7, <2>8, <2>9, ArrangedKeeps
  <1> QED
    BY <1>2, <1>9, <1>10

LEMMA LabelType ==
    ASSUME NEW k \in Seq(1 .. MaxLabel), NEW m \in Nat \ {0}
    PROVE  LabelAt(k, m) \in 0 .. MaxLabel /\ (m <= Len(k) => LabelAt(k, m) # 0)
  <1>1. Len(k) \in Nat /\ MaxLabel \in Nat
    BY LenProperties, MaxLabelAssumption
  <1>2. CASE m <= Len(k)
    <2>1. m \in 1 .. Len(k)
      BY <1>1, <1>2
    <2>2. k[m] \in 1 .. MaxLabel
      BY <2>1, ElementOfSeq
    <2> QED
      BY <1>1, <1>2, <2>2 DEF LabelAt, Read
  <1>3. CASE ~ (m <= Len(k))
    BY <1>1, <1>3 DEF LabelAt, Read
  <1> QED
    BY <1>2, <1>3

\* Where each label is more than the one before, each is more than all before.
LEMMA StepsRise ==
    ASSUME NEW L \in Nat, NEW s, \A m \in 1 .. L : s[m] \in Nat,
           \A m \in 2 .. L : s[m - 1] < s[m]
    PROVE  \A i, j \in 1 .. L : i < j => s[i] < s[j]
  <1> SUFFICES ASSUME NEW i \in 1 .. L, NEW j \in 1 .. L, i < j PROVE s[i] < s[j]
    OBVIOUS
  <1> DEFINE N == L - i - 1
             T == {d \in 0 .. N : s[i] < s[i + 1 + d]}
  <1>1. i \in Nat /\ N \in Nat /\ j - i - 1 \in 0 .. N /\ i + 1 + (j - i - 1) = j
    OBVIOUS
  <1>2. 0 \in T
    <2>1. i + 1 \in 2 .. L /\ (i + 1) - 1 = i /\ i + 1 + 0 = i + 1
      OBVIOUS
    <2> QED
      BY <1>1, <2>1
  <1>3. ASSUME NEW d \in 0 .. N - 1, d \in T PROVE d + 1 \in T
    <2> DEFINE m == i + 1 + (d + 1)
    <2>1. m \in 2 .. L /\ m - 1 = i + 1 + d /\ m - 1 \in 1 .. L /\ m \in 1 .. L /\ d + 1 \in 0 .. N
      OBVIOUS
    <2> HIDE DEF m, N
    <2>2. s[m - 1] < s[m] /\ s[i] < s[m - 1]
      BY <1>3, <2>1
    <2>3. s[i] < s[m]
      BY <2>1, <2>2
    <2> QED
      BY <2>1, <2>3 DEF m
  <1> HIDE DEF N
  <1>4. \A d \in 0 .. N : d \in T
    <2> HIDE DEF T
    <2> QED
      BY <1>1, <1>2, <1>3, UpTo
  <1> QED
    BY <1>1, <1>4

\* What build_from_keyset has before it places anything: the call, where its
\* groups of keys begin, and their labels.
GroupLabels(call) ==
    [m \in 1 .. Len(Groups(call)) |-> LabelAt(input.keys[Groups(call)[m]], call.depth)]

KeysReady(c, groups, labels) ==
    /\ Len(input.values) = 0 /\ Calls = KeyCalls /\ c \in KeyCalls
    /\ c.begin \in Nat \ {0} /\ c.end \in Nat /\ c.begin < c.end /\ c.depth \in Nat \ {0}
    /\ c.end <= Len(input.keys) + 1 /\ c.id \in 0 .. array.size - 1 /\ Len(input.keys) \in Nat
    /\ Grouped(c, groups)
    /\ labels \in Seq(0 .. MaxLabel) /\ Len(labels) = Len(groups) /\ Len(groups) \in Nat
    /\ \A m \in 1 .. Len(groups) :
          labels[m] = Label(c, groups[m]) /\ labels[m] \in Nat /\ groups[m] - 1 \in Nat

LEMMA KeysCallReady ==
    ASSUME ArrayInv, work # <<>>, "begin" \in DOMAIN Call
    PROVE  KeysReady(Call, Groups(Call), GroupLabels(Call))
  <1> DEFINE c == Call
             groups == Groups(c)
             labels == GroupLabels(c)
  <1>1. c = work[1] /\ 1 \in 1 .. Len(work) /\ work \in Seq(Calls)
    BY EmptySeq DEF Call, ArrayInv
  <1>2. c \in Calls /\ Held(array, c.id)
    BY <1>1, ElementOfSeq DEF ArrayInv
  <1>3. ~ (Len(input.values) > 0) /\ Calls = KeyCalls
    <2>1. c \in StateCalls => DOMAIN c = {"state", "id"}
      BY DEF StateCalls
    <2>2. c \notin StateCalls
      BY <2>1
    <2> QED
      BY <1>2, <2>2 DEF Calls
  <1>4. Len(input.keys) \in Nat /\ Len(input.values) = 0
    <2>1. input \in Inputs
      BY DEF ArrayInv, KeysInv, AutomatonInv
    <2>2. Len(input.values) \in Nat
      BY <2>1, InputsAssumption, LenProperties
    <2> QED
      BY <1>3, <2>1, <2>2, InputTypes
  <1>5. /\ c.begin \in Nat \ {0} /\ c.end \in Nat /\ c.begin < c.end /\ c.depth \in Nat \ {0}
        /\ c.end <= Len(input.keys) + 1 /\ c.id \in 0 .. array.size - 1
    <2>1. c \in KeyCalls
      BY <1>2, <1>3
    <2> QED
      BY <1>2, <1>4, <2>1 DEF KeyCalls, Held
  <1>6. Grouped(c, groups)
    BY <1>5, GroupsAre
  <1>7. labels = [m \in 1 .. Len(groups) |-> LabelAt(input.keys[groups[m]], c.depth)]
    BY DEF GroupLabels
  <1> HIDE DEF groups, c, labels
  <1>8. Len(groups) \in Nat /\ \A m \in 1 .. Len(groups) : groups[m] \in c.begin .. c.end - 1
    BY <1>6, LenProperties DEF Grouped
  <1>9. ASSUME NEW m \in 1 .. Len(groups)
        PROVE  LabelAt(input.keys[groups[m]], c.depth) \in 0 .. MaxLabel
    <2>1. groups[m] \in 1 .. Len(input.keys)
      BY <1>4, <1>5, <1>8
    <2>2. input.keys[groups[m]] \in Seq(1 .. MaxLabel)
      BY <2>1, InputTypes DEF ArrayInv, KeysInv, AutomatonInv
    <2> QED
      BY <1>5, <2>2, LabelType
  <1>10. labels \in Seq(0 .. MaxLabel) /\ Len(labels) = Len(groups)
    BY <1>7, <1>8, <1>9
  <1>11. ASSUME NEW m \in 1 .. Len(groups)
         PROVE  labels[m] = Label(c, groups[m]) /\ labels[m] \in Nat /\ groups[m] - 1 \in Nat
    <2>1. labels[m] = Label(c, groups[m]) /\ labels[m] \in Nat
      BY <1>7, <1>9, MaxLabelAssumption DEF Label
    <2>2. groups[m] - 1 \in Nat
      BY <1>5, <1>8
    <2> QED
      BY <2>1, <2>2
  <1> QED
    BY <1>2, <1>3, <1>4, <1>5, <1>6, <1>8, <1>10, <1>11 DEF KeysReady, c, groups, labels

\* Neighbouring groups differ in their labels.
LEMMA GroupsDiffer ==
    ASSUME NEW c, NEW groups, NEW labels, KeysReady(c, groups, labels), NEW m \in 2 .. Len(labels)
    PROVE  /\ labels[m] # labels[m - 1] /\ labels[m] \in Nat /\ labels[m - 1] \in Nat
           /\ labels[m] = Label(c, groups[m]) /\ labels[m - 1] = Label(c, groups[m] - 1)
           /\ groups[m] \in c.begin .. c.end - 1 /\ groups[m] - 1 \in c.begin .. c.end - 1
  <1>1. /\ m \in 1 .. Len(groups) /\ m - 1 \in 1 .. Len(groups) /\ m \in 2 .. Len(groups)
        /\ Grouped(c, groups) /\ c.begin \in Nat /\ c.end \in Nat
    BY DEF KeysReady
  <1>2. /\ groups[m] - 1 \in groups[m - 1] .. GroupEnd(c, groups, m - 1) - 1
        /\ Label(c, groups[m] - 1) = Label(c, groups[m - 1])
        /\ Label(c, groups[m]) # Label(c, groups[m] - 1)
    BY <1>1 DEF Grouped
  <1>3. /\ groups[m] \in c.begin .. c.end - 1 /\ groups[m - 1] \in c.begin .. c.end - 1
        /\ GroupEnd(c, groups, m - 1) \in c.begin .. c.end
    BY <1>1 DEF Grouped
  <1>4. groups[m] - 1 \in c.begin .. c.end - 1
    BY <1>1, <1>2, <1>3
  <1>5. /\ labels[m] = Label(c, groups[m]) /\ labels[m - 1] = Label(c, groups[m - 1])
        /\ labels[m] \in Nat /\ labels[m - 1] \in Nat
    BY <1>1 DEF KeysReady
  <1> QED
    BY <1>2, <1>3, <1>4, <1>5

LEMMA ArrangeKeysKeeps ==
    ASSUME ArrayInv, ArrangeKeys, KeysInv'
    PROVE  ArrayInv'
  <1> DEFINE c == Call
             groups == Groups(c)
             labels == GroupLabels(c)
             values == [m \in 1 .. Len(groups) |-> groups[m] - 1]
             offset == FindOffset(array, c.id, labels)
             deeper == Where(labels)
             calls == [m \in 1 .. Len(deeper) |->
                         [begin |-> groups[deeper[m]],
                          end |-> IF deeper[m] = Len(groups) THEN c.end ELSE groups[deeper[m] + 1],
                          depth |-> c.depth + 1,
                          id |-> XorOf(offset, labels[deeper[m]])]]
             Wrong == \E m \in 2 .. Len(labels) : labels[m] < labels[m - 1]
  <1>1. Placing /\ stage = "arrange" /\ work # <<>> /\ "begin" \in DOMAIN c
    BY DEF ArrangeKeys, Placing
  <1>2. \/ stage' = "error" /\ UNCHANGED <<array, table, work>>
        \/ /\ ~Wrong /\ ~ (XorOf(c.id, offset) >= MaxOffset)
           /\ array' = Arrange(array, c.id, offset, labels, values)
           /\ table' = table
           /\ work' = calls \o Tail(work)
           /\ stage' = stage
    BY DEF ArrangeKeys, Done, GroupLabels
  <1>3. work \in Seq(Calls)
    BY DEF ArrayInv
  <1>4. KeysReady(c, groups, labels)
    BY <1>1, KeysCallReady
  <1> HIDE DEF c, groups, labels, offset, deeper, calls
  <1>5. Len(input.values) = 0 /\ Calls = KeyCalls
    BY <1>4 DEF KeysReady
  <1>6. /\ c.begin \in Nat \ {0} /\ c.end \in Nat /\ c.begin < c.end /\ c.depth \in Nat \ {0}
        /\ c.end <= Len(input.keys) + 1 /\ c.id \in 0 .. array.size - 1 /\ Len(input.keys) \in Nat
    BY <1>4 DEF KeysReady
  <1>7. Grouped(c, groups)
    BY <1>4 DEF KeysReady
  <1>8. /\ labels \in Seq(0 .. MaxLabel) /\ Len(labels) = Len(groups) /\ Len(groups) \in Nat
        /\ \A m \in 1 .. Len(groups) : /\ labels[m] = Label(c, groups[m]) /\ labels[m] \in Nat
                                       /\ values[m] = groups[m] - 1 /\ values[m] \in Nat
    BY <1>4 DEF KeysReady
  <1> HIDE DEF values
  <1>9. CASE stage' = "error" /\ UNCHANGED <<array, table, work>>
    BY <1>1, <1>9, ThrownKeeps
  <1>10. CASE /\ ~Wrong /\ ~ (XorOf(c.id, offset) >= MaxOffset)
              /\ array' = Arrange(array, c.id, offset, labels, values)
              /\ table' = table
              /\ work' = calls \o Tail(work)
              /\ stage' = stage
    <2>1. Arranged(array, array', offset, labels)
      <3>1. ArrayOK(array) /\ \A id \in 0 .. array.size - 1 : Fits(array.units[id].offset)
        BY DEF ArrayInv
      <3>2. \A m \in 1 .. Len(labels) : labels[m] = 0 => values[m] \in Nat
        BY <1>8
      <3>3. offset = FindOffset(array, c.id, labels)
        BY DEF offset
      <3>4. Len(labels) >= 1
        BY <1>7, <1>8 DEF Grouped
      <3> QED
        BY <1>6, <1>8, <1>10, <3>1, <3>2, <3>3, <3>4, ArrangedThere
    <2>2. Distinct(labels)
      <3>1. ASSUME NEW m \in 2 .. Len(labels) PROVE labels[m - 1] < labels[m]
        <4>1. labels[m] # labels[m - 1] /\ labels[m] \in Nat /\ labels[m - 1] \in Nat
          BY <1>4, GroupsDiffer
        <4>2. ~ (labels[m] < labels[m - 1])
          BY <1>10
        <4> QED
          BY <4>1, <4>2
      <3>2. \A i, j \in 1 .. Len(labels) : i < j => labels[i] < labels[j]
        BY <1>8, <3>1, StepsRise
      <3>3. ASSUME NEW i \in 1 .. Len(labels), NEW j \in 1 .. Len(labels), labels[i] = labels[j]
            PROVE  i = j
        <4>1. labels[i] \in Nat /\ i \in Nat /\ j \in Nat
          BY <1>8
        <4>2. ~ (i < j) /\ ~ (j < i)
          BY <3>2, <3>3, <4>1
        <4> QED
          BY <4>1, <4>2
      <3> QED
        BY <3>3 DEF Distinct
    <2>3. /\ deeper \in Seq(Nat) /\ Len(deeper) \in Nat
          /\ \A i \in 1 .. Len(deeper) : deeper[i] \in 1 .. Len(labels)
      <3>1. Lists(deeper, {m \in Nat : labels[m] # 0}, 1, Len(labels))
        BY <1>8, WhereLists DEF deeper
      <3> QED
        BY <3>1 DEF Lists
    <2>4. ASSUME NEW i \in 1 .. Len(deeper)
          PROVE  [begin |-> groups[deeper[i]],
                  end |-> IF deeper[i] = Len(groups) THEN c.end ELSE groups[deeper[i] + 1],
                  depth |-> c.depth + 1,
                  id |-> XorOf(offset, labels[deeper[i]])] \in Calls
      <3> DEFINE end == IF deeper[i] = Len(groups) THEN c.end ELSE groups[deeper[i] + 1]
                 begin == groups[deeper[i]]
      <3>1. deeper[i] \in 1 .. Len(labels) /\ deeper[i] \in 1 .. Len(groups)
        BY <1>8, <2>3
      <3>2. begin = groups[deeper[i]] /\ end = GroupEnd(c, groups, deeper[i])
        BY DEF GroupEnd
      <3>3. XorOf(offset, labels[deeper[i]]) \in Nat
        BY <2>1, <3>1 DEF Arranged
      <3> HIDE DEF begin, end
      <3>4. begin \in c.begin .. c.end - 1 /\ begin < end /\ end \in c.begin .. c.end
        BY <1>7, <3>1, <3>2 DEF Grouped
      <3>5. begin \in Nat \ {0}
        BY <1>6, <3>4
      <3>6. end \in 1 .. Len(input.keys) + 1
        BY <1>6, <3>4
      <3>7. c.depth + 1 \in Nat \ {0}
        BY <1>6
      <3> QED
        BY <1>5, <3>3, <3>4, <3>5, <3>6, <3>7 DEF KeyCalls, begin, end
    <2>5. calls \in Seq(Calls) /\ Len(calls) = Len(deeper)
          /\ \A i \in 1 .. Len(deeper) : calls[i].id = XorOf(offset, labels[deeper[i]])
      BY <2>3, <2>4 DEF calls
    <2>6. Resumed(Calls, calls, work, work')
      BY <1>1, <1>3, <1>10, <2>5, DoneEffect
    <2>7. \A i \in 1 .. Len(calls) :
             \E m \in 1 .. Len(labels) : calls[i].id = XorOf(offset, labels[m])
      BY <2>3, <2>5
    <2>8. stage' = "arrange"
      BY <1>1, <1>10
    <2> QED
      BY <1>1, <1>10, <2>1, <2>2, <2>6, <2>7, <2>8, ArrangedKeeps
  <1> QED
    BY <1>2, <1>9, <1>10

AllFixedTo(f, a, begin, N) ==
    f = [m \in 0 .. N |-> IF m = 0 THEN a ELSE FixBlock(f[m - 1], begin + m - 1)]

LEMMA AllFixedExists ==
    ASSUME NEW a, NEW begin, NEW N \in Nat
    PROVE  \E f : AllFixedTo(f, a, begin, N)
  <1> DEFINE Filled(x, m) == FixBlock(x, begin + m - 1)
             To == {M \in Nat : \E f : AllFixedTo(f, a, begin, M)}
  <1>1. 0 \in To
    <2> DEFINE f == [m \in 0 .. 0 |-> a]
    <2>1. AllFixedTo(f, a, begin, 0)
      <3>1. \A m \in 0 .. 0 : m = 0
        OBVIOUS
      <3> QED
        BY <3>1 DEF AllFixedTo
    <2> QED
      BY <2>1
  <1>2. ASSUME NEW M \in 0 .. N - 1, M \in To PROVE M + 1 \in To
    <2>1. PICK f : AllFixedTo(f, a, begin, M)
      BY <1>2
    <2> DEFINE g == [m \in 0 .. M + 1 |-> IF m = 0 THEN a ELSE Filled(f[m - 1], m)]
    <2>2. \A m \in 0 .. M : f[m] = g[m]
      <3>1. \A m \in 0 .. M : f[m] = IF m = 0 THEN a ELSE Filled(f[m - 1], m)
        BY <2>1 DEF AllFixedTo
      <3>2. \A m \in 0 .. M : g[m] = IF m = 0 THEN a ELSE Filled(f[m - 1], m)
        OBVIOUS
      <3> HIDE DEF g, Filled
      <3> QED
        BY <3>1, <3>2
    <2>3. \A m \in 0 .. M + 1 : m # 0 => m - 1 \in 0 .. M
      OBVIOUS
    <2>4. \A m \in 0 .. M + 1 : g[m] = IF m = 0 THEN a ELSE Filled(g[m - 1], m)
      <3> HIDE DEF Filled
      <3> QED
        BY <2>2, <2>3
    <2>5. AllFixedTo(g, a, begin, M + 1)
      <3>1. g = [m \in 0 .. M + 1 |-> g[m]]
        OBVIOUS
      <3> HIDE DEF g
      <3> QED
        BY <2>4, <3>1 DEF AllFixedTo
    <2> QED
      BY <2>5
  <1> HIDE DEF To
  <1>3. N \in To
    BY <1>1, <1>2, UpTo
  <1> QED
    BY <1>3 DEF To

LEMMA FixAllKeeps ==
    ASSUME ArrayInv, FixAll, KeysInv'
    PROVE  ArrayInv'
  <1> DEFINE a == array
             blocks == Block(a.size)
             begin == IF blocks > ExtraBlocks THEN blocks - ExtraBlocks ELSE 0
             N == blocks - begin
             f == CHOOSE f : f = [m \in 0 .. N |-> IF m = 0 THEN a ELSE FixBlock(f[m - 1], begin + m - 1)]
             T == {m \in 0 .. N : /\ ArrayOK(f[m]) /\ f[m].size = a.size
                                  /\ \A id \in 0 .. a.size - 1 :
                                        f[m].units[id].offset = a.units[id].offset}
  <1>1. /\ Placing /\ stage = "arrange" /\ stage' = "done" /\ work = <<>> /\ work' = work
        /\ table' = table /\ array' = f[N]
    BY DEF FixAll, Placing
  <1>2. ArrayOK(a) /\ a.size \in Nat /\ a.size % BlockSize = 0
    BY DEF ArrayInv, ArrayOK
  <1>3. /\ blocks \in Nat /\ begin \in Nat /\ N \in Nat /\ begin + N = blocks
        /\ BlockSize \in Nat /\ a.size = blocks * BlockSize
    <2>1. blocks \in Nat /\ a.size = BlockSize * blocks + Low(a.size)
      BY <1>2, LowBlock
    <2>2. Low(a.size) = 0
      BY <1>2 DEF Low
    <2>3. BlockSize \in Nat /\ ExtraBlocks \in Nat
      BY Sizes
    <2> HIDE DEF blocks
    <2> QED
      BY <2>1, <2>2, <2>3
  <1>4. AllFixedTo(f, a, begin, N)
    <2>1. \E g : AllFixedTo(g, a, begin, N)
      BY <1>3, AllFixedExists
    <2> QED
      BY <2>1 DEF AllFixedTo
  <1> HIDE DEF f, a, blocks, begin, N
  <1>5. f[0] = a
    BY <1>3, <1>4 DEF AllFixedTo
  <1>6. ASSUME NEW m \in 0 .. N - 1 PROVE f[m + 1] = FixBlock(f[m], begin + m)
    <2>1. m + 1 \in 0 .. N /\ m + 1 # 0 /\ (m + 1) - 1 = m /\ begin + (m + 1) - 1 = begin + m
      BY <1>3
    <2> QED
      BY <1>4, <2>1 DEF AllFixedTo
  <1>7. 0 \in T
    BY <1>2, <1>3, <1>5
  <1>8. ASSUME NEW m \in 0 .. N - 1, m \in T PROVE m + 1 \in T
    <2> DEFINE b == begin + m
    <2>1. m + 1 \in 0 .. N /\ b \in Nat /\ b + 1 <= blocks
      BY <1>3
    <2> HIDE DEF b
    <2>2. \A id \in Ids(b) : id \in 0 .. a.size - 1
      <3>1. (b + 1) * BlockSize <= blocks * BlockSize
        BY <1>3, <2>1
      <3>2. b * BlockSize \in Nat /\ (b + 1) * BlockSize = b * BlockSize + BlockSize
        BY <1>3, <2>1
      <3> QED
        BY <1>2, <1>3, <3>1, <3>2 DEF Ids
    <2>3. /\ ArrayOK(f[m]) /\ f[m].size = a.size
          /\ \A id \in 0 .. a.size - 1 : f[m].units[id].offset = a.units[id].offset
      BY <1>8
    <2>4. Fixes(f[m], FixBlock(f[m], b))
      BY <2>1, <2>2, <2>3, FixBlockFixes
    <2>5. f[m + 1] = FixBlock(f[m], b)
      BY <1>6 DEF b
    <2> QED
      BY <2>1, <2>3, <2>4, <2>5 DEF Fixes
  <1>9. N \in T
    <2> HIDE DEF T
    <2>1. \A m \in 0 .. N : m \in T
      BY <1>3, <1>7, <1>8, UpTo
    <2> QED
      BY <1>3, <2>1
  <1>10. /\ ArrayOK(array') /\ array'.size = array.size
         /\ \A id \in 0 .. array.size - 1 : array'.units[id].offset = array.units[id].offset
    BY <1>1, <1>9 DEF a
  <1>11. Calls' = Calls
    BY <1>1, PlacingKeeps
  <1>12. \A m \in 1 .. Len(work') : FALSE
    BY <1>1, EmptySeq
  <1>13. \A id \in 0 .. array'.size - 1 : Fits(array'.units[id].offset)
    BY <1>10 DEF ArrayInv
  <1>14. \A s \in DOMAIN table' : table'[s] \in Nat /\ (table'[s] = 0 \/ table'[s] < array'.size)
    BY <1>1, <1>10 DEF ArrayInv
  <1>15. work' \in Seq(Calls')
    BY <1>1, <1>11 DEF ArrayInv
  <1> QED
    BY <1>1, <1>10, <1>12, <1>13, <1>14, <1>15 DEF ArrayInv

LEMMA BuildInitArray == BuildInit => ArrayInv
  <1> SUFFICES ASSUME BuildInit PROVE ArrayInv
    OBVIOUS
  <1>1. KeysInv
    BY BuildInitKeys
  <1>2. /\ array = InitArray /\ work = <<>> /\ table = <<>> /\ stage \in {"insert", "start"}
    BY DEF BuildInit
  <1>3. work \in Seq(Calls) /\ \A m \in 1 .. Len(work) : FALSE
    BY <1>2, EmptySeq
  <1>4. \A s \in DOMAIN table : FALSE
    BY <1>2
  <1>5. \A id \in 0 .. array.size - 1 : FALSE
    BY <1>2 DEF InitArray
  <1> QED
    BY <1>1, <1>2, <1>3, <1>4, <1>5, InitArrayOK DEF ArrayInv

LEMMA ArrayKept == ArrayInv /\ [BuildNext]_buildVars => ArrayInv'
  <1> SUFFICES ASSUME ArrayInv, [BuildNext]_buildVars PROVE ArrayInv'
    OBVIOUS
  <1>0. KeysInv'
    BY KeysKept DEF ArrayInv
  <1>1. CASE InsertKey \/ FinishDawg
    <2>1. /\ stage = "insert" /\ stage' \in {"insert", "start", "error"}
          /\ array' = array /\ work' = work
          /\ table' = table \/ table' = [s \in dawg'.crossed |-> 0]
      BY <1>1 DEF InsertKey, FinishDawg
    <2>2. array = InitArray /\ work = <<>>
      BY <2>1 DEF ArrayInv
    <2>3. work' \in Seq(Calls') /\ \A m \in 1 .. Len(work') : FALSE
      BY <2>1, <2>2, EmptySeq
    <2>4. \A s \in DOMAIN table' : table'[s] \in Nat /\ (table'[s] = 0 \/ table'[s] < array'.size)
      BY <2>1 DEF ArrayInv
    <2> QED
      BY <1>0, <2>1, <2>2, <2>3, <2>4 DEF ArrayInv
  <1>2. CASE PlaceRoot
    BY <1>0, <1>2, PlaceRootKeeps
  <1>3. CASE ReuseState
    BY <1>0, <1>3, ReuseStateKeeps
  <1>4. CASE ArrangeState
    BY <1>0, <1>4, ArrangeStateKeeps
  <1>5. CASE ArrangeKeys
    BY <1>0, <1>5, ArrangeKeysKeeps
  <1>6. CASE FixAll
    BY <1>0, <1>6, FixAllKeeps
  <1>7. CASE UNCHANGED buildVars
    <2>1. UNCHANGED <<stage, array, table, work>> /\ Placing
      BY <1>7 DEF buildVars, Placing
    <2>2. Calls' = Calls /\ (Misled' <=> Misled)
      BY <2>1, PlacingKeeps
    <2> QED
      BY <1>0, <2>1, <2>2 DEF ArrayInv
  <1> QED
    BY <1>1, <1>2, <1>3, <1>4, <1>5, <1>6, <1>7 DEF BuildNext

LEMMA ArrayAlways == BuildSpec => []ArrayInv
  BY BuildInitArray, ArrayKept, PTL DEF BuildSpec

\* Every variable of build keeps its type, and the unit of each call still to be
\* made is fixed.
THEOREM BuildTypeCorrect == BuildSpec => []BuildTypeOK
  <1>1. ArrayInv => BuildTypeOK
    <2> SUFFICES ASSUME ArrayInv PROVE BuildTypeOK
      OBVIOUS
    <2>1. ArrayOK(array)
      BY DEF ArrayInv
    <2>2. /\ array.size % BlockSize = 0 /\ DOMAIN array.units = 0 .. array.size - 1
          /\ \A id \in DOMAIN array.units : array.units[id] \in Units
      BY <2>1 DEF ArrayOK
    <2>3. n \in 0 .. Len(input.keys)
      BY DEF ArrayInv, KeysInv, AutomatonInv
    <2>4. ASSUME NEW m \in 1 .. Len(work), work[m].id >= array.size - Extras
          PROVE  Extra(array, work[m].id).fixed
      <3>1. Held(array, work[m].id)
        BY DEF ArrayInv
      <3>2. work[m].id \in Window(array)
        BY <2>4, <3>1 DEF Held, Window
      <3> QED
        BY <3>1, <3>2 DEF Held
    <2>5. \A s \in DOMAIN table : table[s] = 0 \/ table[s] < array.size
      BY DEF ArrayInv
    <2> QED
      BY <2>2, <2>3, <2>4, <2>5 DEF ArrayInv, BuildTypeOK, Units
  <1> QED
    BY <1>1, ArrayAlways, PTL

\* While units are placed the ring links just the units that are free, both ways
\* (find_valid_offset walks it and reserve_id unlinks from it), and an offset of
\* more than 21 bits, which set_offset stores without its low 8 bits, has none
\* of them set.
THEOREM ArrayRight == BuildSpec => []ArraySound
  <1>1. ArrayInv => ArraySound
    <2> SUFFICES ASSUME ArrayInv PROVE ArraySound
      OBVIOUS
    <2>1. ArrayOK(array)
      BY DEF ArrayInv
    <2>2. RingIsFree
      <3> SUFFICES ASSUME stage = "arrange", ~Misled
                   PROVE  LET open == {id \in 0 .. array.size - 1 : id >= array.size - Extras}
                              ids == Ring(array)
                          IN  /\ ToSet(ids) = {id \in open : ~Extra(array, id).fixed}
                              /\ \A m \in 1 .. Len(ids) :
                                    Extra(array, Extra(array, ids[m]).next).prev = ids[m]
        BY DEF RingIsFree
      <3>1. HasRing(array)
        BY DEF ArrayInv
      <3> QED
        BY <2>1, <3>1, RingFree
    <2>3. OffsetsFit
      <3>1. DOMAIN array.units = 0 .. array.size - 1
        BY <2>1 DEF ArrayOK
      <3>2. \A id \in 0 .. array.size - 1 : Fits(array.units[id].offset)
        BY DEF ArrayInv
      <3> QED
        BY <3>1, <3>2 DEF OffsetsFit, Fits
    <2> QED
      BY <2>2, <2>3 DEF ArraySound
  <1> QED
    BY <1>1, ArrayAlways, PTL

-----------------------------------------------------------------------------
(* What build throws for. *)

\* What the keys of a call have in common: the labels before its depth, none of
\* which is the end of a key.
Agreed(keys, c) ==
    \A k \in c.begin .. c.end - 1 :
        /\ c.depth <= Len(keys[k]) + 1
        /\ \A l \in 1 .. c.depth - 1 : LabelAt(keys[k], l) = LabelAt(keys[c.begin], l)

\* Key m lies within a call, and so does the one before it.
Within(c, m) == c.begin < m /\ m < c.end

\* Two neighbours were found to be in order, or are to be compared in a call.
Compared(keys, calls) ==
    \A m \in 2 .. Len(keys) :
        ~Before(keys[m], keys[m - 1]) \/ \E i \in 1 .. Len(calls) : Within(calls[i], m)

Wrong ==
    \/ ~Sorted
    \/ \E m \in 1 .. Len(input.values) : input.values[m] < 0 \/ Len(input.keys[m]) = 0

\* What is thrown is thrown for a reason; and without values the keys in a call are
\* known to agree before its depth, and no two neighbours are passed over.
OrderInv ==
    /\ ArrayInv
    /\ stage = "error" /\ ~Misled => Wrong \/ array.size >= MaxOffset
    /\ stage = "done" => work = <<>>
    /\ Len(input.values) = 0 =>
          /\ \A i \in 1 .. Len(work) : Agreed(input.keys, work[i])
          /\ stage \in {"arrange", "done"} => Compared(input.keys, work)

LEMMA WrongKept ==
    ASSUME input' = input
    PROVE  (Wrong' <=> Wrong) /\ (Misled' <=> Misled)
  BY DEF Wrong, Sorted, Misled

\* Where the offset that is found is too large the array is as large as it may be.
LEMMA TooLarge ==
    ASSUME NEW a, ArrayOK(a), NEW id \in 0 .. a.size - 1,
           NEW labels \in Seq(0 .. MaxLabel), Len(labels) >= 1,
           NEW offset, offset = FindOffset(a, id, labels), XorOf(id, offset) >= MaxOffset
    PROVE  a.size >= MaxOffset
  <1>1. /\ a.size \in Nat /\ a.size <= MaxOffset /\ MaxOffset \in Nat /\ id \in Nat /\ id < a.size
    <2>1. a.size \in Nat /\ a.size <= MaxOffset
      BY DEF ArrayOK
    <2> QED
      BY <2>1, Sizes
  <1>2. offset \in Numbers /\ (a.size < MaxOffset => offset < MaxOffset)
    BY OffsetFound
  <1>3. id \in Numbers /\ id < MaxOffset
    BY <1>1 DEF Numbers
  <1>4. offset < MaxOffset => XorOf(id, offset) < MaxOffset
    BY <1>2, <1>3, XorLaws
  <1>5. XorOf(id, offset) \in Nat
    BY <1>2, <1>3, XorLaws DEF Numbers
  <1>6. ~ (XorOf(id, offset) < MaxOffset)
    BY <1>1, <1>5
  <1> QED
    BY <1>1, <1>2, <1>4, <1>6

\* Keys of a call are in the order of their labels at its depth.
LEMMA AgreedBefore ==
    ASSUME NEW c, c.begin \in Nat \ {0}, c.end <= Len(input.keys) + 1, c.end \in Nat,
           c.depth \in Nat \ {0}, input \in Inputs, Agreed(input.keys, c),
           NEW j \in c.begin .. c.end - 1, NEW k \in c.begin .. c.end - 1,
           Label(c, j) < Label(c, k)
    PROVE  Before(input.keys[j], input.keys[k]) /\ ~Before(input.keys[k], input.keys[j])
  <1>1. Len(input.keys) \in Nat
    BY InputTypes
  <1>2. j \in 1 .. Len(input.keys) /\ k \in 1 .. Len(input.keys)
    BY <1>1
  <1>3. input.keys[j] \in Seq(1 .. MaxLabel) /\ input.keys[k] \in Seq(1 .. MaxLabel)
    BY <1>2, InputTypes
  <1>4. Len(input.keys[j]) \in Nat
    BY <1>3, LenProperties
  <1>5. c.depth \in 1 .. Len(input.keys[j]) + 1
    BY <1>4 DEF Agreed
  <1>6. \A l \in 1 .. c.depth - 1 : LabelAt(input.keys[j], l) = LabelAt(input.keys[k], l)
    BY DEF Agreed
  <1>7. Before(input.keys[j], input.keys[k])
    BY <1>5, <1>6 DEF Before, Label
  <1> QED
    BY <1>3, <1>7, BeforeOneWay

\* Keys of a call that both end at its depth are the same.
LEMMA EndsAlike ==
    ASSUME NEW c, c.begin \in Nat \ {0}, c.end <= Len(input.keys) + 1, c.end \in Nat,
           c.depth \in Nat \ {0}, input \in Inputs, Agreed(input.keys, c),
           NEW j \in c.begin .. c.end - 1, NEW k \in c.begin .. c.end - 1,
           Label(c, j) = 0, Label(c, k) = 0
    PROVE  ~Before(input.keys[j], input.keys[k])
  <1>1. Len(input.keys) \in Nat
    BY InputTypes
  <1>2. j \in 1 .. Len(input.keys) /\ k \in 1 .. Len(input.keys)
    BY <1>1
  <1>3. input.keys[j] \in Seq(1 .. MaxLabel) /\ input.keys[k] \in Seq(1 .. MaxLabel)
    BY <1>2, InputTypes
  <1>4. Len(input.keys[j]) \in Nat
    BY <1>3, LenProperties
  <1>5. ~ (c.depth <= Len(input.keys[j])) /\ c.depth <= Len(input.keys[j]) + 1
    BY <1>3, LabelType DEF Agreed, Label
  <1>6. Len(input.keys[j]) + 1 = c.depth
    BY <1>4, <1>5
  <1>7. ASSUME NEW m \in 1 .. Len(input.keys[j]) + 1
        PROVE  LabelAt(input.keys[j], m) = LabelAt(input.keys[k], m) /\ LabelAt(input.keys[j], m) \in Nat
    <2>1. LabelAt(input.keys[j], m) \in Nat
      <3>1. m \in Nat \ {0}
        BY <1>4
      <3>2. LabelAt(input.keys[j], m) \in 0 .. MaxLabel
        BY <1>3, <3>1, LabelType
      <3> QED
        BY <3>2, MaxLabelAssumption
    <2>2. CASE m = c.depth
      BY <2>1, <2>2 DEF Label
    <2>3. CASE m # c.depth
      <3>1. m \in 1 .. c.depth - 1
        BY <1>4, <1>6, <2>3
      <3> QED
        BY <2>1, <3>1 DEF Agreed
    <2> QED
      BY <2>2, <2>3
  <1>8. ASSUME NEW m \in 1 .. Len(input.keys[j]) + 1,
               LabelAt(input.keys[j], m) < LabelAt(input.keys[k], m)
        PROVE  FALSE
    BY <1>7, <1>8
  <1> QED
    BY <1>8 DEF Before

\* The keys of a group with a label agree to the depth of the call for them.
LEMMA CallsAgree ==
    ASSUME NEW c, NEW groups, NEW labels, KeysReady(c, groups, labels), input \in Inputs,
           Agreed(input.keys, c), NEW d \in 1 .. Len(groups), labels[d] # 0,
           NEW e, e.begin = groups[d], e.end = GroupEnd(c, groups, d), e.depth = c.depth + 1
    PROVE  Agreed(input.keys, e)
  <1>1. /\ c.begin \in Nat \ {0} /\ c.end \in Nat /\ c.depth \in Nat \ {0}
        /\ c.end <= Len(input.keys) + 1 /\ Len(input.keys) \in Nat
        /\ labels[d] = Label(c, groups[d]) /\ Grouped(c, groups)
    BY DEF KeysReady
  <1>2. /\ e.begin \in c.begin .. c.end - 1 /\ e.begin < e.end /\ e.end \in c.begin .. c.end
        /\ \A k \in e.begin .. e.end - 1 : Label(c, k) = Label(c, e.begin)
    BY <1>1 DEF Grouped
  <1> SUFFICES ASSUME NEW k \in e.begin .. e.end - 1
               PROVE  /\ c.depth + 1 <= Len(input.keys[k]) + 1
                      /\ \A l \in 1 .. c.depth :
                            LabelAt(input.keys[k], l) = LabelAt(input.keys[e.begin], l)
    BY <1>1 DEF Agreed
  <1>3. k \in c.begin .. c.end - 1 /\ k \in 1 .. Len(input.keys)
    BY <1>1, <1>2, SMTT(30)
  <1>4. Label(c, k) = Label(c, e.begin) /\ Label(c, k) # 0
    BY <1>1, <1>2
  <1>5. c.depth + 1 <= Len(input.keys[k]) + 1
    <2>1. input.keys[k] \in Seq(1 .. MaxLabel)
      BY <1>3, InputTypes
    <2>2. Len(input.keys[k]) \in Nat
      BY <2>1, LenProperties
    <2>3. c.depth <= Len(input.keys[k])
      BY <1>1, <1>4, <2>2 DEF Label, LabelAt, Read
    <2> QED
      BY <1>1, <2>2, <2>3
  <1>6. ASSUME NEW l \in 1 .. c.depth
        PROVE  LabelAt(input.keys[k], l) = LabelAt(input.keys[e.begin], l)
    <2>1. CASE l = c.depth
      BY <1>4, <2>1 DEF Label
    <2>2. CASE l # c.depth
      <3>1. l \in 1 .. c.depth - 1
        BY <1>1, <2>2
      <3> QED
        BY <1>2, <1>3, <3>1 DEF Agreed
    <2> QED
      BY <2>1, <2>2
  <1> QED
    BY <1>5, <1>6

\* Neighbours within a call are in order, or within the call for a group.
LEMMA CallsCompare ==
    ASSUME NEW c, NEW groups, NEW labels, KeysReady(c, groups, labels), input \in Inputs,
           Agreed(input.keys, c), \A m \in 2 .. Len(labels) : ~ (labels[m] < labels[m - 1]),
           NEW m \in Nat, Within(c, m)
    PROVE  \/ ~Before(input.keys[m], input.keys[m - 1])
           \/ \E d \in 1 .. Len(groups) :
                 labels[d] # 0 /\ groups[d] < m /\ m < GroupEnd(c, groups, d)
  <1>1. /\ c.begin \in Nat \ {0} /\ c.end \in Nat /\ c.depth \in Nat \ {0}
        /\ c.end <= Len(input.keys) + 1 /\ Len(input.keys) \in Nat
        /\ Grouped(c, groups) /\ Len(labels) = Len(groups) /\ Len(groups) \in Nat
    BY DEF KeysReady
  <1>2. m \in c.begin .. c.end - 1 /\ m - 1 \in c.begin .. c.end - 1 /\ m # c.begin
    BY <1>1 DEF Within
  <1>3. PICK d \in 1 .. Len(groups) : m \in groups[d] .. GroupEnd(c, groups, d) - 1
    BY <1>1, <1>2 DEF Grouped
  <1>4. /\ groups[d] \in Nat /\ GroupEnd(c, groups, d) \in Nat /\ labels[d] = Label(c, groups[d])
        /\ Label(c, m) = Label(c, groups[d])
    <2>1. /\ groups[d] \in c.begin .. c.end - 1 /\ GroupEnd(c, groups, d) \in c.begin .. c.end
          /\ Label(c, m) = Label(c, groups[d])
      BY <1>1, <1>3 DEF Grouped
    <2>2. labels[d] = Label(c, groups[d])
      BY DEF KeysReady
    <2> QED
      BY <1>1, <2>1, <2>2
  <1>5. CASE m = groups[d]
    <2>1. d # 1
      BY <1>1, <1>2, <1>5 DEF Grouped
    <2>2. d \in 2 .. Len(labels)
      BY <1>1, <2>1
    <2>3. /\ labels[d] # labels[d - 1] /\ labels[d] \in Nat /\ labels[d - 1] \in Nat
          /\ labels[d - 1] = Label(c, groups[d] - 1)
      BY <2>2, GroupsDiffer
    <2>4. labels[d - 1] < labels[d]
      BY <2>2, <2>3
    <2>5. Label(c, m - 1) < Label(c, m)
      BY <1>4, <1>5, <2>3, <2>4
    <2> QED
      BY <1>1, <1>2, <2>5, AgreedBefore
  <1>6. CASE m # groups[d] /\ labels[d] = 0
    <2>1. m - 1 \in groups[d] .. GroupEnd(c, groups, d) - 1
      BY <1>1, <1>3, <1>4, <1>6
    <2>2. Label(c, m) = 0 /\ Label(c, m - 1) = 0
      BY <1>1, <1>4, <1>6, <2>1 DEF Grouped
    <2> QED
      BY <1>1, <1>2, <2>2, EndsAlike
  <1>7. CASE m # groups[d] /\ labels[d] # 0
    BY <1>3, <1>4, <1>7
  <1> QED
    BY <1>5, <1>6, <1>7

\* What build_from_keyset throws for is a key out of order.
LEMMA SeenWrong ==
    ASSUME NEW c, NEW groups, NEW labels, KeysReady(c, groups, labels), input \in Inputs,
           Agreed(input.keys, c), NEW m \in 2 .. Len(labels), labels[m] < labels[m - 1]
    PROVE  ~Sorted
  <1> DEFINE j == groups[m]
  <1>1. /\ c.begin \in Nat \ {0} /\ c.end \in Nat /\ c.depth \in Nat \ {0}
        /\ c.end <= Len(input.keys) + 1 /\ Len(input.keys) \in Nat
    BY DEF KeysReady
  <1>2. /\ j \in c.begin .. c.end - 1 /\ j - 1 \in c.begin .. c.end - 1
        /\ Label(c, j) < Label(c, j - 1)
    BY GroupsDiffer
  <1> HIDE DEF j
  <1>3. Before(input.keys[j], input.keys[j - 1])
    BY <1>1, <1>2, AgreedBefore
  <1>4. j \in 2 .. Len(input.keys)
    BY <1>1, <1>2
  <1> QED
    BY <1>3, <1>4 DEF Sorted

LEMMA BuildInitOrder == BuildInit => OrderInv
  <1> SUFFICES ASSUME BuildInit PROVE OrderInv
    OBVIOUS
  <1>1. ArrayInv
    BY BuildInitArray
  <1>2. stage \in {"insert", "start"} /\ work = <<>>
    BY DEF BuildInit
  <1>3. \A i \in 1 .. Len(work) : FALSE
    BY <1>2, EmptySeq
  <1> QED
    BY <1>1, <1>2, <1>3 DEF OrderInv

LEMMA InsertKeyOrders ==
    ASSUME OrderInv, InsertKey, ArrayInv'
    PROVE  OrderInv'
  <1>1. /\ stage = "insert" /\ stage' \in {"insert", "error"} /\ input' = input
        /\ n + 1 \in 1 .. Len(input.keys) /\ n \in Nat
    BY InputTypes DEF InsertKey, OrderInv, ArrayInv, KeysInv, AutomatonInv
  <1>2. KeysInv /\ input \in Inputs /\ Len(input.values) > 0
    BY <1>1 DEF OrderInv, ArrayInv, KeysInv, AutomatonInv
  <1>3. Len(input.values) = Len(input.keys)
    <2>1. Len(input.values) \in {0, Len(input.keys)}
      BY <1>2, InputsAssumption
    <2> QED
      BY <1>2, <2>1
  <1>4. ASSUME stage' = "error", ~Misled PROVE Wrong
    <2>1. ~Fine(n + 1)
      BY <1>1, <1>2, <1>4, InsertsRightly
    <2>2. input.values[n + 1] \in Int
      BY <1>1, <1>2, InputTypes
    <2>3. CASE ~ (input.values[n + 1] >= 0) \/ Len(input.keys[n + 1]) = 0
      BY <1>1, <1>3, <2>2, <2>3 DEF Wrong
    <2>4. CASE n + 1 >= 2 /\ Before(input.keys[n + 1], input.keys[(n + 1) - 1])
      <3>1. n + 1 \in 2 .. Len(input.keys)
        BY <1>1, <2>4
      <3> QED
        BY <2>4, <3>1 DEF Wrong, Sorted
    <2> QED
      BY <2>1, <2>3, <2>4 DEF Fine
  <1>5. (Wrong' <=> Wrong) /\ (Misled' <=> Misled)
    BY <1>1, WrongKept
  <1>6. ~ (Len(input'.values) = 0)
    BY <1>1, <1>2
  <1> QED
    BY <1>1, <1>4, <1>5, <1>6 DEF OrderInv

LEMMA PlaceRootOrders ==
    ASSUME OrderInv, PlaceRoot, ArrayInv'
    PROVE  OrderInv'
  <1>1. stage' = "arrange" /\ input' = input /\ work' = RootCall
    BY DEF PlaceRoot
  <1>2. input \in Inputs /\ Len(input.keys) \in Nat
    BY InputTypes DEF OrderInv, ArrayInv, KeysInv, AutomatonInv
  <1>3. ASSUME Len(input.values) = 0
        PROVE  /\ \A i \in 1 .. Len(RootCall) : Agreed(input.keys, RootCall[i])
               /\ Compared(input.keys, RootCall)
    <2>1. CASE Len(input.keys) = 0
      <3>1. RootCall = <<>>
        BY <1>3, <2>1 DEF RootCall
      <3>2. \A i \in 1 .. Len(RootCall) : FALSE
        BY <3>1, EmptySeq
      <3>3. \A m \in 2 .. Len(input.keys) : FALSE
        BY <2>1
      <3> QED
        BY <3>2, <3>3 DEF Compared
    <2>2. CASE Len(input.keys) # 0
      <3> DEFINE c == [begin |-> 1, end |-> Len(input.keys) + 1, depth |-> 1, id |-> 0]
      <3>1. RootCall = <<c>>
        BY <1>3, <2>2 DEF RootCall
      <3>2. c.begin = 1 /\ c.end = Len(input.keys) + 1 /\ c.depth = 1
        OBVIOUS
      <3> HIDE DEF c
      <3>3. Agreed(input.keys, c)
        <4> SUFFICES ASSUME NEW k \in 1 .. Len(input.keys)
                     PROVE  1 <= Len(input.keys[k]) + 1
          BY <1>2, <3>2 DEF Agreed
        <4>1. input.keys[k] \in Seq(1 .. MaxLabel)
          BY <1>2, InputTypes
        <4>2. Len(input.keys[k]) \in Nat
          BY <4>1, LenProperties
        <4> QED
          BY <4>2
      <3>4. \A m \in 2 .. Len(input.keys) : Within(c, m)
        BY <1>2, <3>2 DEF Within
      <3>5. Len(RootCall) = 1 /\ RootCall[1] = c /\ 1 \in 1 .. 1 /\ \A i \in 1 .. 1 : i = 1
        BY <3>1
      <3> QED
        BY <3>3, <3>4, <3>5 DEF Compared
    <2> QED
      BY <2>1, <2>2
  <1> QED
    BY <1>1, <1>3 DEF OrderInv

LEMMA ArrangeStateOrders ==
    ASSUME OrderInv, ArrangeState, ArrayInv'
    PROVE  OrderInv'
  <1> DEFINE c == Call
             arcs == dawg.states[c.state]
             labels == ArcLabels(arcs)
             offset == FindOffset(array, c.id, labels)
  <1>1. /\ work # <<>> /\ "state" \in DOMAIN c /\ input' = input /\ stage = "arrange"
        /\ stage' = "arrange" \/ /\ stage' = "error" /\ array' = array
                                 /\ XorOf(c.id, offset) >= MaxOffset
    BY DEF ArrangeState, ArcLabels
  <1>2. StateReady(c, arcs, labels) /\ ArrayOK(array)
    BY <1>1, StateCallReady DEF OrderInv, ArrayInv
  <1>3. offset = FindOffset(array, c.id, labels)
    OBVIOUS
  <1> HIDE DEF c, arcs, labels, offset
  <1>4. ~ (Len(input'.values) = 0)
    BY <1>1, <1>2 DEF StateReady
  <1>5. stage' = "error" => array'.size >= MaxOffset
    BY <1>1, <1>2, <1>3, TooLarge DEF StateReady
  <1>6. stage' # "done"
    BY <1>1
  <1> QED
    BY <1>4, <1>5, <1>6 DEF OrderInv

LEMMA ArrangeKeysOrders ==
    ASSUME OrderInv, ArrangeKeys, ArrayInv'
    PROVE  OrderInv'
  <1> DEFINE c == Call
             groups == Groups(c)
             labels == GroupLabels(c)
             offset == FindOffset(array, c.id, labels)
             deeper == Where(labels)
             CallAt(i) == [begin |-> groups[deeper[i]],
                           end |-> IF deeper[i] = Len(groups) THEN c.end ELSE groups[deeper[i] + 1],
                           depth |-> c.depth + 1,
                           id |-> XorOf(offset, labels[deeper[i]])]
             calls == [m \in 1 .. Len(deeper) |-> CallAt(m)]
             Falls == \E m \in 2 .. Len(labels) : labels[m] < labels[m - 1]
  <1>1. work # <<>> /\ "begin" \in DOMAIN c /\ input' = input /\ stage = "arrange"
    BY DEF ArrangeKeys
  <1>2. \/ /\ stage' = "error" /\ array' = array /\ work' = work
           /\ Falls \/ XorOf(c.id, offset) >= MaxOffset
        \/ /\ ~Falls
           /\ work' = calls \o Tail(work)
           /\ stage' = stage
    BY DEF ArrangeKeys, Done, GroupLabels
  <1>3. ArrayInv /\ input \in Inputs /\ ArrayOK(array) /\ work \in Seq(Calls)
    BY DEF OrderInv, ArrayInv, KeysInv, AutomatonInv
  <1>4. KeysReady(c, groups, labels)
    BY <1>1, <1>3, KeysCallReady
  <1>5. c = work[1] /\ 1 \in 1 .. Len(work)
    BY <1>1, <1>3, EmptySeq DEF Call
  <1>6. offset = FindOffset(array, c.id, labels) /\ deeper = Where(labels)
    OBVIOUS
  <1>7. \A i : /\ CallAt(i).begin = groups[deeper[i]] /\ CallAt(i).depth = c.depth + 1
               /\ CallAt(i).end = GroupEnd(c, groups, deeper[i])
    BY DEF GroupEnd
  <1> HIDE DEF c, groups, labels, offset, deeper, CallAt
  <1>8. /\ Len(input.values) = 0 /\ c.id \in 0 .. array.size - 1 /\ Grouped(c, groups)
        /\ labels \in Seq(0 .. MaxLabel) /\ Len(labels) = Len(groups) /\ Len(groups) \in Nat
        /\ Len(input.keys) \in Nat
    BY <1>4 DEF KeysReady
  <1>9. /\ \A i \in 1 .. Len(work) : Agreed(input.keys, work[i])
        /\ Compared(input.keys, work)
    BY <1>1, <1>8 DEF OrderInv
  <1>10. Agreed(input.keys, c)
    BY <1>5, <1>9
  <1>11. CASE /\ stage' = "error" /\ array' = array /\ work' = work
              /\ Falls \/ XorOf(c.id, offset) >= MaxOffset
    <2>1. Wrong \/ array'.size >= MaxOffset
      <3>1. CASE Falls
        BY <1>3, <1>4, <1>10, <3>1, SeenWrong DEF Wrong
      <3>2. CASE XorOf(c.id, offset) >= MaxOffset
        <4>1. Len(labels) >= 1
          BY <1>8 DEF Grouped
        <4> QED
          BY <1>3, <1>6, <1>8, <1>11, <3>2, <4>1, TooLarge
      <3> QED
        BY <1>11, <3>1, <3>2
    <2>2. Wrong' <=> Wrong
      BY <1>1, WrongKept
    <2> QED
      BY <1>1, <1>9, <1>11, <2>1, <2>2 DEF OrderInv
  <1>12. CASE /\ ~Falls
              /\ work' = calls \o Tail(work)
              /\ stage' = stage
    <2>1. /\ Len(deeper) \in Nat
          /\ \A i \in 1 .. Len(deeper) : deeper[i] \in 1 .. Len(groups) /\ labels[deeper[i]] # 0
          /\ \A d \in 1 .. Len(groups) : labels[d] # 0 => \E i \in 1 .. Len(deeper) : deeper[i] = d
      <3>1. Lists(deeper, {m \in Nat : labels[m] # 0}, 1, Len(labels))
        BY <1>6, <1>8, WhereLists
      <3> QED
        BY <1>8, <3>1 DEF Lists
    <2>2. Len(calls) = Len(deeper) /\ \A i \in 1 .. Len(deeper) : calls[i] = CallAt(i)
      BY <2>1
    <2>3. /\ \A m \in 1 .. Len(work') : \/ \E i \in 1 .. Len(calls) : work'[m] = calls[i]
                                        \/ \E i \in 2 .. Len(work) : work'[m] = work[i]
          /\ \A i \in 1 .. Len(calls) : \E m \in 1 .. Len(work') : work'[m] = calls[i]
          /\ \A i \in 2 .. Len(work) : \E m \in 1 .. Len(work') : work'[m] = work[i]
      <3>1. calls \in Seq({calls[i] : i \in 1 .. Len(deeper)} \cup Calls)
        BY <2>1
      <3>2. work \in Seq({calls[i] : i \in 1 .. Len(deeper)} \cup Calls)
        <4>1. \A i \in 1 .. Len(work) : work[i] \in Calls
          BY <1>3, ElementOfSeq
        <4>2. work = [i \in 1 .. Len(work) |-> work[i]] /\ Len(work) \in Nat
          BY <1>3, LenProperties
        <4> QED
          BY <4>1, <4>2
      <3>3. Resumed({calls[i] : i \in 1 .. Len(deeper)} \cup Calls, calls, work, work')
        BY <1>1, <1>12, <3>1, <3>2, DoneEffect
      <3> QED
        BY <3>3 DEF Resumed
    <2> HIDE DEF calls
    <2>4. ASSUME NEW m \in 1 .. Len(work') PROVE Agreed(input.keys, work'[m])
      <3>1. ASSUME NEW i \in 1 .. Len(calls), work'[m] = calls[i]
            PROVE  Agreed(input.keys, work'[m])
        <4>1. /\ i \in 1 .. Len(deeper) /\ calls[i] = CallAt(i)
              /\ deeper[i] \in 1 .. Len(groups) /\ labels[deeper[i]] # 0
          BY <2>1, <2>2
        <4>2. Agreed(input.keys, calls[i])
          BY <1>3, <1>4, <1>7, <1>10, <4>1, CallsAgree
        <4> QED
          BY <3>1, <4>2
      <3>2. ASSUME NEW i \in 2 .. Len(work), work'[m] = work[i]
            PROVE  Agreed(input.keys, work'[m])
        <4>1. i \in 1 .. Len(work)
          OBVIOUS
        <4> QED
          BY <1>9, <3>2, <4>1
      <3> QED
        BY <2>3, <3>1, <3>2
    <2>5. Compared(input.keys, work')
      <3> SUFFICES ASSUME NEW m \in 2 .. Len(input.keys), Before(input.keys[m], input.keys[m - 1])
                   PROVE  \E i \in 1 .. Len(work') : Within(work'[i], m)
        BY DEF Compared
      <3>1. PICK i \in 1 .. Len(work) : Within(work[i], m)
        BY <1>9 DEF Compared
      <3>2. CASE i = 1
        <4>1. Within(c, m) /\ m \in Nat
          BY <1>5, <1>8, <3>1, <3>2
        <4>2. PICK d \in 1 .. Len(groups) :
                 labels[d] # 0 /\ groups[d] < m /\ m < GroupEnd(c, groups, d)
          BY <1>3, <1>4, <1>10, <1>12, <4>1, CallsCompare
        <4>3. PICK j \in 1 .. Len(deeper) : deeper[j] = d
          BY <2>1, <4>2
        <4>4. j \in 1 .. Len(calls) /\ Within(calls[j], m)
          BY <1>7, <2>2, <4>2, <4>3 DEF Within
        <4> QED
          BY <2>3, <4>4
      <3>3. CASE i # 1
        <4>1. i \in 2 .. Len(work)
          BY <3>3
        <4> QED
          BY <2>3, <3>1, <4>1
      <3> QED
        BY <3>2, <3>3
    <2> QED
      BY <1>1, <1>12, <2>4, <2>5 DEF OrderInv
  <1> QED
    BY <1>2, <1>11, <1>12

LEMMA OrderKept == OrderInv /\ [BuildNext]_buildVars => OrderInv'
  <1> SUFFICES ASSUME OrderInv, [BuildNext]_buildVars PROVE OrderInv'
    OBVIOUS
  <1>0. ArrayInv'
    BY ArrayKept DEF OrderInv
  <1>1. CASE InsertKey
    BY <1>0, <1>1, InsertKeyOrders
  <1>2. CASE FinishDawg
    <2>1. stage = "insert" /\ stage' = "start" /\ input' = input
      BY <1>2 DEF FinishDawg
    <2>2. Len(input.values) > 0
      BY <2>1 DEF OrderInv, ArrayInv, KeysInv, AutomatonInv
    <2>3. ~ (Len(input'.values) = 0)
      BY <2>1, <2>2
    <2> QED
      BY <1>0, <2>1, <2>3 DEF OrderInv
  <1>3. CASE PlaceRoot
    BY <1>0, <1>3, PlaceRootOrders
  <1>4. CASE ReuseState
    <2>1. work # <<>> /\ "state" \in DOMAIN Call /\ stage' = "arrange" /\ input' = input
      BY <1>4 DEF ReuseState
    <2>2. Len(input.values) > 0
      BY <2>1, StateCallReady DEF StateReady, OrderInv
    <2>3. ~ (Len(input'.values) = 0)
      BY <2>1, <2>2
    <2> QED
      BY <1>0, <2>1, <2>3 DEF OrderInv
  <1>5. CASE ArrangeState
    BY <1>0, <1>5, ArrangeStateOrders
  <1>6. CASE ArrangeKeys
    BY <1>0, <1>6, ArrangeKeysOrders
  <1>7. CASE FixAll
    <2>1. stage = "arrange" /\ stage' = "done" /\ work = <<>> /\ work' = work /\ input' = input
      BY <1>7 DEF FixAll
    <2> QED
      BY <1>0, <2>1 DEF OrderInv
  <1>8. CASE UNCHANGED buildVars
    <2>1. UNCHANGED <<stage, work, input, array>>
      BY <1>8 DEF buildVars
    <2>2. (Wrong' <=> Wrong) /\ (Misled' <=> Misled)
      BY <2>1, WrongKept
    <2> QED
      BY <1>0, <2>1, <2>2 DEF OrderInv
  <1> QED
    BY <1>1, <1>2, <1>3, <1>4, <1>5, <1>6, <1>7, <1>8 DEF BuildNext

\* build throws for keys out of order, a value below 0, an empty key with a value
\* and an array that is full, and for nothing else; and what it finishes had none
\* of them.
THEOREM ThrowsRight == BuildSpec => []ThrowsRightly
  <1>1. OrderInv => ThrowsRightly
    <2> SUFFICES ASSUME OrderInv, ~Misled
                 PROVE  /\ stage = "error" => Wrong \/ array.size >= MaxOffset
                        /\ stage = "done" => ~Wrong
      BY DEF ThrowsRightly, Wrong
    <2>1. input \in Inputs /\ KeysInv
      BY DEF OrderInv, ArrayInv, KeysInv, AutomatonInv
    <2>2. Len(input.values) \in {0, Len(input.keys)} /\ Len(input.values) \in Nat
      BY <2>1, InputsAssumption, LenProperties
    <2>3. ASSUME stage = "done" PROVE ~Wrong
      <3>1. CASE Len(input.values) = 0
        <4>1. \A i \in 1 .. Len(work) : FALSE
          BY <2>3, EmptySeq DEF OrderInv
        <4>2. Compared(input.keys, work)
          BY <2>3, <3>1 DEF OrderInv
        <4>3. Sorted
          BY <4>1, <4>2 DEF Compared, Sorted
        <4>4. \A m \in 1 .. Len(input.values) : FALSE
          BY <3>1
        <4> QED
          BY <4>3, <4>4 DEF Wrong
      <3>2. CASE Len(input.values) # 0
        <4>1. Len(input.values) > 0 /\ Len(input.values) = Len(input.keys)
          BY <2>2, <3>2
        <4>2. \A m \in 1 .. Len(input.keys) : Fine(m)
          BY <2>1, <2>3, <4>1 DEF KeysInv
        <4>3. Sorted
          <5>1. \A m \in 2 .. Len(input.keys) : m \in 1 .. Len(input.keys) /\ m >= 2
            BY <2>2, <4>1
          <5> QED
            BY <4>2, <5>1 DEF Sorted, Fine
        <4>4. ASSUME NEW m \in 1 .. Len(input.values)
              PROVE  ~ (input.values[m] < 0 \/ Len(input.keys[m]) = 0)
          <5>1. m \in 1 .. Len(input.keys)
            BY <4>1
          <5>2. input.values[m] \in Int
            BY <2>1, <4>1, <5>1, InputTypes
          <5> QED
            BY <4>2, <5>1, <5>2 DEF Fine
        <4> QED
          BY <4>3, <4>4 DEF Wrong
      <3> QED
        BY <3>1, <3>2
    <2> QED
      BY <2>3 DEF OrderInv
  <1>2. BuildSpec => []OrderInv
    BY BuildInitOrder, OrderKept, PTL DEF BuildSpec
  <1> QED
    BY <1>1, <1>2, PTL

-----------------------------------------------------------------------------
(* What the array and its extras tell of the units, when K are those taken   *)
(* (the root and the children of the offsets) and P those used as offsets.   *)

\* The label no search asks for: it would come from an offset that is not used.
Filler(a, P, u) ==
    \E w \in 0 .. a.size - 1 : Block(w) = Block(u) /\ w \notin P /\ a.units[u].label = XorOf(u, w)

\* From unit lo on the extras tell, below it all units are taken or have such a label.
Told(a, lo, K, P) ==
    /\ ArrayOK(a)
    /\ lo \in 0 .. a.size /\ a.size <= lo + Extras
    /\ K \subseteq 0 .. a.size - 1 /\ P \subseteq 0 .. a.size - 1
    /\ \A u \in lo .. a.size - 1 :
          /\ Extra(a, u).fixed <=> u \in K
          /\ Extra(a, u).used <=> u \in P
          /\ u \notin K => ~a.units[u].isLeaf /\ ~a.units[u].hasLeaf
    /\ \A u \in 0 .. lo - 1 : u \in K \/ Filler(a, P, u)

\* Units of K are as they were, the others may have a new label.
Spares(a, e, K) ==
    /\ e.size = a.size
    /\ \A u \in 0 .. a.size - 1 :
          /\ u \in K => e.units[u] = a.units[u]
          /\ e.units[u].hasLeaf = a.units[u].hasLeaf
          /\ e.units[u].offset = a.units[u].offset

LEMMA ToldWindow ==
    ASSUME NEW a, NEW lo, NEW K, NEW P, Told(a, lo, K, P)
    PROVE  /\ a.size \in Nat /\ lo \in Nat
           /\ \A u \in lo .. a.size - 1 : u \in Nat /\ u \in Window(a) /\ Slot(u) \in Slots
           /\ \A u, v \in lo .. a.size - 1 : u # v => Slot(u) # Slot(v)
  <1>1. a.size \in Nat /\ lo \in Nat /\ a.size <= lo + Extras /\ Extras \in Nat
    BY Sizes DEF Told, ArrayOK
  <1>2. \A u \in lo .. a.size - 1 : u \in Nat /\ u \in Window(a)
    BY <1>1 DEF Window
  <1>3. \A u \in lo .. a.size - 1 : Slot(u) \in Slots
    BY <1>2, LowBlock DEF Slots
  <1>4. \A u, v \in lo .. a.size - 1 : u # v => Slot(u) # Slot(v)
    BY <1>1, <1>2, WindowSlots
  <1> QED
    BY <1>1, <1>2, <1>3, <1>4

\* Taking one unit.
LEMMA FixTold ==
    ASSUME NEW a, NEW lo, NEW K, NEW P, Told(a, lo, K, P), NEW u \in lo .. a.size - 1,
           NEW e, e = Fix(a, u)
    PROVE  /\ Told(e, lo, K \cup {u}, P)
           /\ e.size = a.size /\ e.units = a.units
  <1>1. /\ a.size \in Nat /\ lo \in Nat
        /\ \A x \in lo .. a.size - 1 : x \in Nat /\ x \in Window(a) /\ Slot(x) \in Slots
        /\ \A x, y \in lo .. a.size - 1 : x # y => Slot(x) # Slot(y)
    BY ToldWindow
  <1>2. ArrayOK(a) /\ u \in Nat /\ a.size > 0
    BY <1>1 DEF Told
  <1>3. ArrayOK(e)
    BY <1>2, FixOK
  <1>4. /\ e.size = a.size /\ e.units = a.units
        /\ \A s \in Slots :
             /\ e.extras[s].fixed <=> s = Slot(u) \/ a.extras[s].fixed
             /\ e.extras[s].used = a.extras[s].used
    BY <1>2, FixEffect
  <1>5. ASSUME NEW x \in lo .. a.size - 1
        PROVE  /\ Extra(e, x).fixed <=> x \in K \cup {u}
               /\ Extra(e, x).used <=> x \in P
               /\ x \notin K \cup {u} => ~e.units[x].isLeaf /\ ~e.units[x].hasLeaf
    <2>1. /\ Extra(a, x).fixed <=> x \in K
          /\ Extra(a, x).used <=> x \in P
          /\ x \notin K => ~a.units[x].isLeaf /\ ~a.units[x].hasLeaf
      BY DEF Told
    <2>2. Slot(x) \in Slots /\ (Slot(x) = Slot(u) <=> x = u)
      BY <1>1
    <2> QED
      BY <1>4, <2>1, <2>2 DEF Extra
  <1>6. \A x \in 0 .. lo - 1 : x \in K \cup {u} \/ Filler(e, P, x)
    BY <1>4 DEF Told, Filler
  <1>7. K \cup {u} \subseteq 0 .. e.size - 1 /\ P \subseteq 0 .. e.size - 1
    BY <1>1, <1>4 DEF Told
  <1>8. lo \in 0 .. e.size /\ e.size <= lo + Extras
    BY <1>4 DEF Told
  <1> QED
    BY <1>3, <1>4, <1>5, <1>6, <1>7, <1>8 DEF Told

\* Where only units of K change, the extras tell what they told.
LEMMA RelabelTold ==
    ASSUME NEW a, NEW lo, NEW K, NEW P, Told(a, lo, K, P), NEW e, ArrayOK(e),
           e.size = a.size, e.extras = a.extras,
           \A u \in 0 .. a.size - 1 : u \notin K => e.units[u] = a.units[u]
    PROVE  Told(e, lo, K, P)
  <1>1. lo \in 0 .. a.size /\ a.size \in Nat
    BY DEF Told, ArrayOK
  <1>2. \A u \in lo .. a.size - 1 : u \in 0 .. a.size - 1 /\ Extra(e, u) = Extra(a, u)
    BY <1>1 DEF Extra
  <1>3. \A u \in 0 .. lo - 1 : u \in 0 .. a.size - 1
    BY <1>1
  <1>4. \A u \in 0 .. lo - 1 : u \in K \/ Filler(e, P, u)
    BY <1>3 DEF Told, Filler
  <1> QED
    BY <1>2, <1>4 DEF Told

\* Using one unit as an offset.
Used(a, u) == [a EXCEPT !.extras[Slot(u)].used = TRUE]

LEMMA UsedTold ==
    ASSUME NEW a, NEW lo, NEW K, NEW P, Told(a, lo, K, P), lo % BlockSize = 0,
           NEW u \in lo .. a.size - 1, NEW e, e = Used(a, u)
    PROVE  /\ Told(e, lo, K, P \cup {u})
           /\ e.size = a.size /\ e.units = a.units
  <1>1. /\ a.size \in Nat /\ lo \in Nat
        /\ \A x \in lo .. a.size - 1 : x \in Nat /\ x \in Window(a) /\ Slot(x) \in Slots
        /\ \A x, y \in lo .. a.size - 1 : x # y => Slot(x) # Slot(y)
    BY ToldWindow
  <1>2. ArrayOK(a)
    BY DEF Told
  <1>3. ArrayOK(e) /\ e.units = a.units /\ e.size = a.size
    BY <1>1, <1>2, UsedGrows DEF Grows, Used
  <1>4. \A s \in Slots : /\ e.extras[s].fixed = a.extras[s].fixed
                         /\ e.extras[s].used = IF s = Slot(u) THEN TRUE ELSE a.extras[s].used
    <2>1. a.extras \in [Slots -> ExtraUnits] /\ "extras" \in DOMAIN a
      BY <1>2 DEF ArrayOK
    <2>2. e.extras = [a.extras EXCEPT ![Slot(u)].used = TRUE]
      BY <2>1 DEF Used
    <2>3. \A s \in Slots : e.extras[s] = IF s = Slot(u) THEN [a.extras[s] EXCEPT !.used = TRUE]
                                        ELSE a.extras[s]
      BY <2>1, <2>2
    <2>4. \A x \in ExtraUnits : LET y == [x EXCEPT !.used = TRUE]
                               IN  y.fixed = x.fixed /\ y.used = TRUE
      BY DEF ExtraUnits
    <2> QED
      BY <2>1, <2>3, <2>4
  <1>5. ASSUME NEW x \in lo .. a.size - 1
        PROVE  /\ Extra(e, x).fixed <=> x \in K
               /\ Extra(e, x).used <=> x \in P \cup {u}
               /\ x \notin K => ~e.units[x].isLeaf /\ ~e.units[x].hasLeaf
    <2>1. /\ Extra(a, x).fixed <=> x \in K
          /\ Extra(a, x).used <=> x \in P
          /\ x \notin K => ~a.units[x].isLeaf /\ ~a.units[x].hasLeaf
      BY DEF Told
    <2>2. Slot(x) \in Slots /\ (Slot(x) = Slot(u) <=> x = u)
      BY <1>1
    <2> QED
      BY <1>3, <1>4, <2>1, <2>2 DEF Extra
  <1>6. ASSUME NEW x \in 0 .. lo - 1, x \notin K PROVE Filler(e, P \cup {u}, x)
    <2>1. PICK w \in 0 .. a.size - 1 : Block(w) = Block(x) /\ w \notin P /\ a.units[x].label = XorOf(x, w)
      BY <1>6 DEF Told, Filler
    <2>2. w < lo
      <3>1. x \in Nat /\ w \in Nat /\ x < lo
        BY <1>1
      <3> QED
        BY <1>1, <2>1, <3>1, SameBlock
    <2>3. w # u
      BY <1>1, <2>2
    <2> QED
      BY <1>3, <2>1, <2>3 DEF Filler
  <1>7. P \cup {u} \subseteq 0 .. e.size - 1 /\ K \subseteq 0 .. e.size - 1
    BY <1>1, <1>3 DEF Told
  <1>8. lo \in 0 .. e.size /\ e.size <= lo + Extras
    BY <1>3 DEF Told
  <1> QED
    BY <1>3, <1>5, <1>6, <1>7, <1>8 DEF Told

\* fix_block, for one unit.
LEMMA FixUnitTold ==
    ASSUME NEW a, NEW lo, NEW K, NEW P, Told(a, lo, K, P), lo < a.size, NEW w \in Numbers,
           lo \in K \/ (w \in 0 .. a.size - 1 /\ Block(w) = Block(lo) /\ w \notin P),
           NEW e, e = FixUnit(a, lo, w)
    PROVE  Told(e, lo + 1, K, P) /\ Spares(a, e, K)
  <1>1. a.size \in Nat /\ lo \in Nat /\ lo \in lo .. a.size - 1 /\ lo \in 0 .. a.size - 1
    BY ToldWindow
  <1>2. Extra(a, lo).fixed <=> lo \in K
    BY <1>1 DEF Told
  <1>3. /\ lo + 1 \in 0 .. a.size /\ a.size <= (lo + 1) + Extras
        /\ \A u : u \in lo + 1 .. a.size - 1 => u \in lo .. a.size - 1 /\ u # lo
        /\ \A u : u \in 0 .. (lo + 1) - 1 => u \in 0 .. lo - 1 \/ u = lo
    <2>1. a.size <= lo + Extras /\ Extras \in Nat
      BY Sizes DEF Told
    <2> QED
      BY <1>1, <2>1
  <1>4. CASE lo \in K
    <2>1. e = a
      BY <1>2, <1>4 DEF FixUnit
    <2> QED
      BY <1>3, <1>4, <2>1 DEF Told, Spares
  <1>5. CASE lo \notin K
    <2> DEFINE c == Fix(a, lo)
               label == Low(XorOf(lo, w))
    <2>1. e = [c EXCEPT !.units[lo].label = label]
      BY <1>2, <1>5 DEF FixUnit
    <2>2. Told(c, lo, K \cup {lo}, P) /\ c.size = a.size /\ c.units = a.units
      BY <1>1, FixTold
    <2>3. ArrayOK(e)
      <3>1. ArrayOK(a)
        BY DEF Told
      <3> QED
        BY <1>1, <3>1, FixUnitFixes DEF Fixes
    <2> HIDE DEF c
    <2>4. ArrayOK(c) /\ DOMAIN c.units = 0 .. a.size - 1
      <3>1. ArrayOK(c)
        BY <2>2 DEF Told
      <3> QED
        BY <2>2, <3>1 DEF ArrayOK
    <2> HIDE DEF label
    <2>5b. /\ e.size = c.size /\ e.extras = c.extras
           /\ e.units = [c.units EXCEPT ![lo].label = label]
      BY <2>1, <2>4 DEF ArrayOK
    <2>5. /\ e.size = c.size /\ e.extras = c.extras
          /\ \A u \in 0 .. a.size - 1 :
                e.units[u] = IF u = lo THEN [c.units[u] EXCEPT !.label = label] ELSE c.units[u]
      BY <2>4, <2>5b
    <2>6a. \A u \in 0 .. a.size - 1 : c.units[u] \in Units
      BY <2>2, <2>4 DEF ArrayOK
    <2>6b. \A u \in Units : /\ [u EXCEPT !.label = label].hasLeaf = u.hasLeaf
                             /\ [u EXCEPT !.label = label].isLeaf = u.isLeaf
                             /\ [u EXCEPT !.label = label].offset = u.offset
      BY DEF Units
    <2>6. \A u \in 0 .. a.size - 1 :
             /\ u # lo => e.units[u] = a.units[u]
             /\ e.units[u].hasLeaf = a.units[u].hasLeaf
             /\ e.units[u].isLeaf = a.units[u].isLeaf
             /\ e.units[u].offset = a.units[u].offset
      <3> SUFFICES ASSUME NEW u \in 0 .. a.size - 1
                   PROVE  /\ u # lo => e.units[u] = a.units[u]
                          /\ e.units[u].hasLeaf = a.units[u].hasLeaf
                          /\ e.units[u].isLeaf = a.units[u].isLeaf
                          /\ e.units[u].offset = a.units[u].offset
        OBVIOUS
      <3>1. CASE u # lo
        BY <2>2, <2>5, <3>1
      <3>2. CASE u = lo
        <4> DEFINE v == c.units[lo]
        <4>1. v \in Units /\ e.units[u] = [v EXCEPT !.label = label] /\ v = a.units[u]
          BY <1>1, <2>2, <2>5, <2>6a, <3>2
        <4> HIDE DEF v
        <4> QED
          BY <2>6b, <3>2, <4>1
      <3> QED
        BY <3>1, <3>2
    <2>7. e.units[lo].label = label
      BY <1>1, <2>5, <2>6a DEF Units
    <2>8. Spares(a, e, K)
      BY <1>5, <2>2, <2>5, <2>6 DEF Spares
    <2>9. label = XorOf(lo, w)
      <3>1. lo \in Numbers /\ w \in Numbers /\ Block(lo) = Block(w)
        <4>1. lo < MaxOffset
          BY <1>1, Sizes DEF Told, ArrayOK
        <4> QED
          BY <1>1, <1>5, <4>1, Sizes DEF Numbers
      <3>2. XorOf(lo, w) \in Nat /\ Block(XorOf(lo, w)) = 0
        BY <3>1, XorLaws, Sizes DEF Numbers
      <3> DEFINE x == XorOf(lo, w)
      <3>3. x = BlockSize * Block(x) + Low(x) /\ Low(x) \in 0 .. BlockSize - 1 /\ BlockSize \in Nat
        BY <3>2, LowBlock, Sizes
      <3>4. x = BlockSize * 0 + Low(x)
        BY <3>2, <3>3
      <3> HIDE DEF x
      <3>5. x = Low(x)
        BY <3>3, <3>4
      <3> QED
        BY <3>5 DEF x, label
    <2>10. Filler(e, P, lo)
      BY <1>5, <2>2, <2>5, <2>7, <2>9 DEF Filler
    <2>11. \A u \in lo + 1 .. a.size - 1 :
              /\ Extra(e, u).fixed <=> u \in K
              /\ Extra(e, u).used <=> u \in P
              /\ u \notin K => ~e.units[u].isLeaf /\ ~e.units[u].hasLeaf
      <3> TAKE u \in lo + 1 .. a.size - 1
      <3>1. u \in lo .. a.size - 1 /\ u # lo /\ u \in 0 .. a.size - 1
        BY <1>1, <1>3
      <3>2. /\ Extra(c, u).fixed <=> u \in K \cup {lo}
            /\ Extra(c, u).used <=> u \in P
            /\ u \notin K => ~a.units[u].isLeaf /\ ~a.units[u].hasLeaf
        <4>1. /\ Extra(c, u).fixed <=> u \in K \cup {lo}
              /\ Extra(c, u).used <=> u \in P
          BY <2>2, <3>1 DEF Told
        <4>2. u \notin K => ~a.units[u].isLeaf /\ ~a.units[u].hasLeaf
          BY <3>1 DEF Told
        <4> QED
          BY <4>1, <4>2
      <3>3. Extra(e, u) = Extra(c, u)
        BY <2>5 DEF Extra
      <3> QED
        BY <2>6, <3>1, <3>2, <3>3
    <2>12. \A u \in 0 .. (lo + 1) - 1 : u \in K \/ Filler(e, P, u)
      <3> TAKE u \in 0 .. (lo + 1) - 1
      <3>1. CASE u = lo
        BY <2>10, <3>1
      <3>2. CASE u # lo
        <4>1. u \in 0 .. lo - 1 /\ u \in 0 .. a.size - 1
          BY <1>1, <1>3, <3>2
        <4>2. u \in K \/ Filler(a, P, u)
          BY <4>1 DEF Told
        <4>3. e.units[u] = a.units[u]
          BY <2>6, <3>2, <4>1
        <4> QED
          BY <2>2, <2>5, <4>2, <4>3 DEF Filler
      <3> QED
        BY <3>1, <3>2
    <2>13. K \subseteq 0 .. e.size - 1 /\ P \subseteq 0 .. e.size - 1
      BY <2>2, <2>5 DEF Told
    <2>14. Told(e, lo + 1, K, P)
      BY <1>3, <2>2, <2>3, <2>5, <2>11, <2>12, <2>13 DEF Told
    <2> QED
      BY <2>8, <2>14
  <1> QED
    BY <1>4, <1>5

\* A block whose ids are all offsets has no unit that is not taken.
Plenty(K, P) == \A b \in Nat : Ids(b) \subseteq P => Ids(b) \subseteq K

\* The ids of a block, and the size of arrays they are in.
LEMMA BlockIds ==
    ASSUME NEW b \in Nat
    PROVE  /\ b * BlockSize \in Nat /\ (b * BlockSize) % BlockSize = 0
           /\ \A id \in Ids(b) : id \in Nat /\ Block(id) = b
           /\ \A id \in Nat : Block(id) = b => id \in Ids(b)
  <1>1. \A s \in Nat \ {0} : \A x, q \in Nat : \A r \in 0 .. s - 1 :
            x * s <= s * q + r /\ s * q + r <= x * s + s - 1 => q = x
    <2> SUFFICES ASSUME NEW s \in Nat \ {0}, NEW x \in Nat, NEW q \in Nat, NEW r \in 0 .. s - 1,
                        x * s <= s * q + r, s * q + r <= x * s + s - 1, q # x
                 PROVE  FALSE
      OBVIOUS
    <2>1. CASE q < x
      <3>1. s * (q + 1) <= s * x /\ s * (q + 1) = s * q + s
        BY <2>1
      <3> QED
        BY <3>1
    <2>2. CASE x < q
      <3>1. s * (x + 1) <= s * q /\ s * (x + 1) = x * s + s
        BY <2>2
      <3> QED
        BY <3>1
    <2> QED
      BY <2>1, <2>2
  <1>2. \A s \in Nat \ {0} : \A x \in Nat : x * s \in Nat /\ (x * s) % s = 0 /\ x * s = s * x
    OBVIOUS
  <1>3. BlockSize \in Nat \ {0}
    BY Sizes
  <1>4. b * BlockSize \in Nat /\ (b * BlockSize) % BlockSize = 0 /\ b * BlockSize = BlockSize * b
    BY <1>2, <1>3
  <1>5. ASSUME NEW id \in Ids(b) PROVE id \in Nat /\ Block(id) = b
    <2>1. id \in Nat /\ b * BlockSize <= id /\ id <= b * BlockSize + BlockSize - 1
      BY <1>3, <1>4, <1>5 DEF Ids
    <2> DEFINE q == Block(id)
               r == Low(id)
    <2>2. q \in Nat /\ r \in 0 .. BlockSize - 1 /\ id = BlockSize * q + r
      BY <2>1, LowBlock
    <2> HIDE DEF q, r
    <2>3. q = b
      BY <1>1, <1>3, <2>1, <2>2
    <2> QED
      BY <2>1, <2>3 DEF q
  <1>6. ASSUME NEW id \in Nat, Block(id) = b PROVE id \in Ids(b)
    <2>1. Low(id) \in 0 .. BlockSize - 1 /\ id = BlockSize * b + Low(id)
      BY <1>6, LowBlock
    <2> QED
      BY <1>3, <1>4, <1>6, <2>1 DEF Ids
  <1> QED
    BY <1>4, <1>5, <1>6

LEMMA SparesTwice ==
    ASSUME NEW a, NEW b, NEW c, NEW K, Spares(a, b, K), Spares(b, c, K)
    PROVE  Spares(a, c, K)
  BY DEF Spares

\* fix_block, where the extras tell of the block.
LEMMA FixBlockTold ==
    ASSUME NEW a, NEW lo, NEW K, NEW P, Told(a, lo, K, P), Plenty(K, P),
           NEW b \in Nat, lo = b * BlockSize, lo < a.size,
           NEW e, e = FixBlock(a, b)
    PROVE  Told(e, lo + BlockSize, K, P) /\ Spares(a, e, K) /\ lo + BlockSize <= a.size
  <1> DEFINE free == {id \in Ids(b) : ~Extra(a, id).used}
             unused == IF free = {} THEN 0 ELSE CHOOSE id \in free : \A other \in free : id <= other
             f == CHOOSE f : f = [m \in 0 .. BlockSize |->
                     IF m = 0 THEN a ELSE FixUnit(f[m - 1], b * BlockSize + m - 1, unused)]
             T == {m \in 0 .. BlockSize : Told(f[m], lo + m, K, P) /\ Spares(a, f[m], K)}
  <1>1. e = f[BlockSize]
    BY DEF FixBlock
  <1>2. /\ BlockSize \in Nat \ {0, 1} /\ lo \in Nat /\ ArrayOK(a) /\ a.size \in Nat /\ a.size <= MaxOffset
        /\ lo + BlockSize <= a.size
        /\ \A id \in Ids(b) : id \in lo .. a.size - 1 /\ Block(id) = b
        /\ \A m \in 0 .. BlockSize - 1 : lo + m \in Ids(b)
    <2>1. BlockSize \in Nat \ {0, 1} /\ lo \in Nat /\ ArrayOK(a) /\ a.size \in Nat
          /\ a.size % BlockSize = 0 /\ lo % BlockSize = 0 /\ a.size <= MaxOffset
      BY Sizes, BlockIds DEF Told, ArrayOK
    <2>2. lo + BlockSize <= a.size
      BY <2>1, RoomForBlock
    <2>3. Ids(b) = lo .. lo + BlockSize - 1
      BY DEF Ids
    <2>4. \A id \in Ids(b) : id \in lo .. a.size - 1
      BY <2>1, <2>2, <2>3
    <2>5. \A id \in Ids(b) : Block(id) = b
      BY BlockIds
    <2>6. \A m \in 0 .. BlockSize - 1 : lo + m \in Ids(b)
      BY <2>1, <2>3
    <2> QED
      BY <2>1, <2>2, <2>4, <2>5, <2>6
  <1>3. FixedUpTo(f, a, b, unused, BlockSize)
    <2> HIDE DEF unused
    <2>1. \E g : FixedUpTo(g, a, b, unused, BlockSize)
      BY <1>2, FixedExists
    <2> QED
      BY <2>1 DEF FixedUpTo
  <1>4. free = Ids(b) \ P
    BY <1>2 DEF Told
  <1>5. unused \in Numbers /\ (Ids(b) \subseteq K \/ (unused \in Ids(b) /\ unused \notin P))
    <2>1. CASE free = {}
      <3>1. Ids(b) \subseteq P
        BY <1>4, <2>1
      <3>2. 0 \in Numbers
        BY Sizes DEF Numbers
      <3> QED
        BY <2>1, <3>1, <3>2 DEF Plenty
    <2>2. CASE free # {}
      <3>1. free \subseteq 0 .. a.size
        BY <1>2
      <3>2. \E id \in free : \A other \in free : id <= other
        <4> HIDE DEF free
        <4> QED
          BY <1>2, <2>2, <3>1, FirstOf
      <3>3. unused \in free
        BY <2>2, <3>2
      <3>4. unused \in Ids(b) /\ unused \notin P
        BY <1>4, <3>3
      <3> HIDE DEF unused
      <3>5. unused \in Numbers
        BY <1>2, <3>4, Sizes DEF Numbers
      <3> QED
        BY <3>4, <3>5
    <2> QED
      BY <2>1, <2>2
  <1> HIDE DEF f, unused
  <1>6. 0 \in T
    <2>1. f[0] = a
      BY <1>2, <1>3 DEF FixedUpTo
    <2>2. Spares(a, a, K)
      BY DEF Spares
    <2> QED
      BY <1>2, <2>1, <2>2
  <1>7. ASSUME NEW m \in 0 .. BlockSize - 1, m \in T PROVE m + 1 \in T
    <2> DEFINE id == lo + m
               c == f[m]
               g == f[m + 1]
    <2>1. g = FixUnit(c, id, unused)
      BY <1>2, <1>3 DEF FixedUpTo
    <2>2. Told(c, id, K, P) /\ Spares(a, c, K) /\ c.size = a.size
      BY <1>7 DEF Spares
    <2>3. id \in Ids(b) /\ id < a.size /\ Block(id) = b
      BY <1>2
    <2>4. id \in K \/ (unused \in 0 .. c.size - 1 /\ Block(unused) = Block(id) /\ unused \notin P)
      BY <1>2, <1>5, <2>2, <2>3
    <2> HIDE DEF c, g, id
    <2>5. Told(g, id + 1, K, P) /\ Spares(c, g, K)
      BY <1>5, <2>1, <2>2, <2>3, <2>4, FixUnitTold
    <2>6. Spares(a, g, K)
      BY <2>2, <2>5, SparesTwice
    <2>7. id + 1 = lo + (m + 1)
      BY <1>2 DEF id
    <2> QED
      BY <1>2, <2>5, <2>6, <2>7 DEF g
  <1> HIDE DEF T
  <1>8. BlockSize \in T
    BY <1>2, <1>6, <1>7, UpTo
  <1> QED
    BY <1>1, <1>2, <1>8 DEF T

\* The first unit the extras of an array of a size tell of.
Lo(size) == IF size > Extras THEN size - Extras ELSE 0

\* Units that are taken stay as they are; the array may have more.
Same(a, e, K) == a.size <= e.size /\ \A u \in K : e.units[u] = a.units[u]

LEMMA ClosedForTold ==
    ASSUME NEW a, NEW K, NEW P, Told(a, Lo(a.size), K, P), Plenty(K, P)
    PROVE  /\ Told(ClosedFor(a), Lo(a.size + BlockSize), K, P)
           /\ Spares(a, ClosedFor(a), K)
  <1> DEFINE b == Block(a.size) - ExtraBlocks
             c == ClosedFor(a)
  <1>1. /\ a.size \in Nat /\ a.size % BlockSize = 0
        /\ BlockSize \in Nat \ {0} /\ Extras \in Nat \ {0} /\ Extras >= BlockSize
    BY Sizes DEF Told, ArrayOK
  <1>2. CASE Block(a.size) >= ExtraBlocks
    <2>1. c = FixBlock(a, b)
      BY <1>2 DEF ClosedFor
    <2>2. b \in Nat /\ b * BlockSize = a.size - Extras
      BY <1>1, <1>2, ClosingBlock
    <2>3. b * BlockSize \in Nat
      BY <2>2, BlockIds
    <2>4. Lo(a.size) = b * BlockSize /\ Lo(a.size) < a.size
          /\ Lo(a.size + BlockSize) = b * BlockSize + BlockSize
      BY <1>1, <2>2, <2>3 DEF Lo
    <2> HIDE DEF b, c
    <2> QED
      <3> DEFINE lo == Lo(a.size)
      <3>1. lo = b * BlockSize /\ lo < a.size /\ Told(a, lo, K, P)
        BY <2>4
      <3> HIDE DEF lo
      <3>2. Told(c, lo + BlockSize, K, P) /\ Spares(a, c, K)
        BY <2>1, <2>2, <3>1, FixBlockTold
      <3> QED
        BY <2>4, <3>1, <3>2 DEF c
  <1>3. CASE ~ (Block(a.size) >= ExtraBlocks)
    <2>1. c = a
      BY <1>3 DEF ClosedFor
    <2>2. a.size + BlockSize <= Extras
      BY <1>1, <1>3, ClosingBlock
    <2>3. Lo(a.size) = 0 /\ Lo(a.size + BlockSize) = 0
      BY <1>1, <2>2 DEF Lo
    <2>4. Spares(a, a, K)
      BY DEF Spares
    <2> QED
      BY <2>1, <2>3, <2>4
  <1> QED
    BY <1>2, <1>3

\* expand_units
LEMMA ExpandTold ==
    ASSUME NEW a, NEW K, NEW P, Told(a, Lo(a.size), K, P), Plenty(K, P),
           a.size + BlockSize <= MaxOffset, NEW e, e = Expand(a)
    PROVE  Told(e, Lo(e.size), K, P) /\ Same(a, e, K) /\ e.size = a.size + BlockSize
  <1> DEFINE c == ClosedFor(a)
             first == a.size
             last == first + BlockSize - 1
             fresh == Fresh(c.extras, first)
             joined == Join(fresh, c.head, first, last)
             lo == Lo(first + BlockSize)
  <1>1. /\ first \in Nat /\ first % BlockSize = 0 /\ BlockSize \in Nat /\ BlockSize >= 2
        /\ Extras \in Nat /\ last \in Nat /\ last >= first + 1 /\ Extras >= BlockSize
    <2>1. first \in Nat /\ first % BlockSize = 0
      BY DEF Told, ArrayOK
    <2>2. BlockSize \in Nat /\ BlockSize >= 2 /\ Extras \in Nat /\ Extras >= BlockSize
      BY Sizes
    <2> QED
      BY <2>1, <2>2
  <1>2. Told(c, lo, K, P) /\ Spares(a, c, K) /\ c.size = first
    BY ClosedForTold DEF Spares
  <1>3. /\ e.size = first + BlockSize /\ e.extras = joined
        /\ e.units = [id \in 0 .. last |-> IF id < first THEN c.units[id] ELSE Blank]
    BY ExpandParts
  <1>4. ArrayOK(a) /\ ArrayOK(c)
    BY <1>2 DEF Told
  <1>5. ArrayOK(e)
    BY <1>4, ExpandEffect
  <1> HIDE DEF c
  <1>6. /\ c.extras \in [Slots -> ExtraUnits] /\ c.head \in Nat
    <2>1. c.head \in 0 .. first
      BY <1>2, <1>4 DEF ArrayOK
    <2> QED
      BY <1>1, <1>4, <2>1 DEF ArrayOK
  <1>7. Freshened(c.extras, fresh, first, last)
    BY <1>1, <1>6, FreshEffect
  <1> HIDE DEF fresh
  <1>8. \A s \in Slots : joined[s].fixed = fresh[s].fixed /\ joined[s].used = fresh[s].used
    <2> HIDE DEF first, last, joined
    <2> DEFINE tail == fresh[Slot(c.head)].prev
    <2>1. fresh \in [Slots -> ExtraUnits] /\ joined = Join(fresh, c.head, first, last)
      BY <1>7 DEF Freshened, joined
    <2> HIDE DEF tail
    <2>2. tail = fresh[Slot(c.head)].prev
      BY DEF tail
    <2> QED
      BY <1>1, <1>6, <2>1, <2>2, JoinEffect
  <1> HIDE DEF joined
  <1>9. lo \in Nat /\ lo <= first /\ first + BlockSize <= lo + Extras
        /\ (lo = 0 \/ lo + Extras = first + BlockSize)
    BY <1>1 DEF Lo
  <1>10. \A u \in 0 .. first - 1 : u \in 0 .. last /\ e.units[u] = c.units[u]
    BY <1>1, <1>3
  <1>11. \A u \in first .. last : u \in 0 .. last /\ e.units[u] = Blank
    BY <1>1, <1>3
  <1>12. K \subseteq 0 .. first - 1 /\ P \subseteq 0 .. first - 1
    BY <1>2 DEF Told
  <1> HIDE DEF lo
  <1>13. ASSUME NEW u \in lo .. last
         PROVE  /\ Extra(e, u).fixed <=> u \in K
                /\ Extra(e, u).used <=> u \in P
                /\ u \notin K => ~e.units[u].isLeaf /\ ~e.units[u].hasLeaf
    <2>1. u \in Nat /\ Slot(u) \in Slots
      BY <1>9, LowBlock DEF Slots
    <2>2. CASE u < first
      <3>1. u \in lo .. first - 1 /\ u \in 0 .. first - 1
        BY <1>1, <1>9, <2>1, <2>2
      <3>2. \A k \in first .. last : Slot(u) # Slot(k)
        <4> SUFFICES ASSUME NEW k \in first .. last PROVE Slot(u) # Slot(k)
          OBVIOUS
        <4>1. k \in Nat /\ u < k /\ k < u + Extras
          BY <1>1, <1>9, <2>1, <3>1
        <4> QED
          BY <2>1, <4>1, OwnSlot
      <3>3. fresh[Slot(u)] = c.extras[Slot(u)]
        BY <1>7, <2>1, <3>2 DEF Freshened
      <3>4. /\ Extra(c, u).fixed <=> u \in K
            /\ Extra(c, u).used <=> u \in P
            /\ u \notin K => ~c.units[u].isLeaf /\ ~c.units[u].hasLeaf
        BY <1>2, <3>1 DEF Told
      <3>5. e.units[u] = c.units[u]
        BY <1>10, <3>1
      <3>6. Extra(e, u).fixed = Extra(c, u).fixed /\ Extra(e, u).used = Extra(c, u).used
        BY <1>3, <1>8, <2>1, <3>3 DEF Extra
      <3> QED
        BY <3>4, <3>5, <3>6
    <2>3. CASE ~ (u < first)
      <3>1. u \in first .. last /\ u \notin K /\ u \notin P
        BY <1>1, <1>12, <2>1, <2>3
      <3>2. fresh[Slot(u)] = [prev |-> IF u = first THEN last ELSE u - 1,
                              next |-> IF u = last THEN first ELSE u + 1,
                              fixed |-> FALSE, used |-> FALSE]
        BY <1>7, <3>1 DEF Freshened
      <3>3. fresh[Slot(u)].fixed = FALSE /\ fresh[Slot(u)].used = FALSE
        BY <3>2
      <3>4. e.units[u] = Blank
        BY <1>11, <3>1
      <3> QED
        BY <1>3, <1>8, <2>1, <3>1, <3>3, <3>4 DEF Extra, Blank
    <2> QED
      BY <2>2, <2>3
  <1>14. ASSUME NEW u \in 0 .. lo - 1 PROVE u \in K \/ Filler(e, P, u)
    <2>1. u \in 0 .. first - 1
      BY <1>1, <1>9
    <2>2. u \in K \/ Filler(c, P, u)
      BY <1>2 DEF Told
    <2>3. \A w \in 0 .. c.size - 1 : w \in 0 .. e.size - 1
      BY <1>1, <1>2, <1>3
    <2> QED
      BY <1>10, <2>1, <2>2, <2>3 DEF Filler
  <1>15. e.size - 1 = last /\ first <= e.size
    BY <1>1, <1>3
  <1>16. Told(e, lo, K, P)
    <2>1. lo \in 0 .. e.size /\ e.size <= lo + Extras
      BY <1>1, <1>3, <1>9
    <2>2. K \subseteq 0 .. e.size - 1 /\ P \subseteq 0 .. e.size - 1
      BY <1>1, <1>12, <1>15
    <2> HIDE DEF last, first
    <2> QED
      BY <1>5, <1>13, <1>14, <1>15, <2>1, <2>2 DEF Told
  <1>17. Same(a, e, K)
    <2>1. \A u \in K : u \in 0 .. first - 1
      BY <1>12
    <2> QED
      BY <1>2, <1>10, <1>15, <2>1 DEF Same, Spares
  <1> QED
    BY <1>3, <1>16, <1>17 DEF lo

LEMMA LoIs ==
    ASSUME NEW size \in Nat, size % BlockSize = 0
    PROVE  /\ Lo(size) \in 0 .. size /\ Lo(size) % BlockSize = 0 /\ size <= Lo(size) + Extras
           /\ \A id \in 0 .. size - 1 : id >= Lo(size) <=> id >= size - Extras
           /\ Lo(size + BlockSize) <= size
  <1>1. Extras \in Nat /\ Extras >= BlockSize /\ BlockSize \in Nat \ {0} /\ Extras = BlockSize * ExtraBlocks
        /\ ExtraBlocks \in Nat
    BY Sizes
  <1>2. Lo(size) % BlockSize = 0
    <2>1. \A s, x \in Nat \ {0} : \A v \in Nat : v % s = 0 /\ v > s * x => (v - s * x) % s = 0
      <3> SUFFICES ASSUME NEW s \in Nat \ {0}, NEW x \in Nat \ {0}, NEW v \in Nat, v % s = 0, v > s * x
                   PROVE  (v - s * x) % s = 0
        OBVIOUS
      <3>1. v = s * (v \div s) /\ v \div s \in Nat
        OBVIOUS
      <3> DEFINE q == v \div s
      <3>2. v - s * x = s * (q - x)
        BY <3>1
      <3>3. q > x
        BY <3>1
      <3>4. q - x \in Nat
        BY <3>1, <3>3
      <3>5. \A t \in Nat \ {0} : \A k \in Nat : (t * k) % t = 0
        OBVIOUS
      <3> HIDE DEF q
      <3>6. (s * (q - x)) % s = 0
        BY <3>4, <3>5
      <3> QED
        BY <3>2, <3>6
    <2>2. 0 % BlockSize = 0
      BY <1>1
    <2>3. ExtraBlocks \in Nat \ {0}
      BY Sizes
    <2> QED
      BY <1>1, <2>1, <2>2, <2>3 DEF Lo
  <1> QED
    BY <1>1, <1>2 DEF Lo

\* What is told of a unit of the ring.
LEMMA OpenTold ==
    ASSUME NEW a, NEW K, NEW P, Told(a, Lo(a.size), K, P), NEW id \in Nat, Open(a, id)
    PROVE  /\ id \notin K
           /\ id < a.size => /\ id \in Lo(a.size) .. a.size - 1
                             /\ ~a.units[id].isLeaf /\ ~a.units[id].hasLeaf
  <1>1. a.size \in Nat /\ a.size % BlockSize = 0 /\ K \subseteq 0 .. a.size - 1
    BY DEF Told, ArrayOK
  <1>2. CASE id \in Free(a)
    <2>1. id \in 0 .. a.size - 1 /\ id >= a.size - Extras /\ ~Extra(a, id).fixed
      BY <1>2 DEF Free, Window
    <2>2. Lo(a.size) \in 0 .. a.size /\ id >= Lo(a.size)
      BY <1>1, <2>1, LoIs
    <2>3. id \in Lo(a.size) .. a.size - 1
      BY <1>1, <2>1, <2>2
    <2> QED
      BY <2>1, <2>3 DEF Told
  <1>3. CASE id >= a.size
    BY <1>1, <1>3
  <1> QED
    BY <1>2, <1>3 DEF Open

\* reserve_id
LEMMA ReserveTold ==
    ASSUME NEW a, NEW K, NEW P, Told(a, Lo(a.size), K, P), Plenty(K, P),
           NEW id \in Nat, id < MaxOffset, id < a.size + BlockSize, Open(a, id),
           NEW e, e = Reserve(a, id)
    PROVE  /\ Told(e, Lo(e.size), K \cup {id}, P) /\ Same(a, e, K)
           /\ id \notin K /\ id \in 0 .. e.size - 1
           /\ ~e.units[id].isLeaf /\ ~e.units[id].hasLeaf
           /\ e.size = IF id < a.size THEN a.size ELSE a.size + BlockSize
  <1>1. ArrayOK(a) /\ a.size \in Nat /\ a.size % BlockSize = 0 /\ BlockSize \in Nat \ {0}
    BY Sizes DEF Told, ArrayOK
  <1>2. id \notin K
    BY OpenTold
  <1>3. CASE id < a.size
    <2>1. e = Fix(a, id)
      BY <1>1, <1>3 DEF Reserve
    <2>2. id \in Lo(a.size) .. a.size - 1 /\ ~a.units[id].isLeaf /\ ~a.units[id].hasLeaf
      BY <1>3, OpenTold
    <2>3. Told(e, Lo(a.size), K \cup {id}, P) /\ e.size = a.size /\ e.units = a.units
      BY <2>1, <2>2, FixTold
    <2>4. id \in 0 .. a.size - 1
      BY <1>1, <1>3
    <2>5. Same(a, e, K)
      BY <1>1, <2>3 DEF Same
    <2> QED
      BY <1>2, <1>3, <2>2, <2>3, <2>4, <2>5
  <1>4. CASE ~ (id < a.size)
    <2> DEFINE b == Expand(a)
    <2>1. a.size + BlockSize <= MaxOffset
      <3>1. a.size < MaxOffset /\ MaxOffset \in Nat /\ MaxOffset % BlockSize = 0
        BY <1>1, <1>4, Sizes
      <3> QED
        BY <1>1, <3>1, RoomForBlock
    <2>2. Told(b, Lo(b.size), K, P) /\ Same(a, b, K) /\ b.size = a.size + BlockSize
      BY <2>1, ExpandTold
    <2>3. e = Fix(b, id)
      BY <1>1, <1>4 DEF Reserve
    <2> HIDE DEF b
    <2>4. Lo(b.size) \in Nat /\ Lo(b.size) <= a.size
      BY <1>1, <2>2, LoIs, BlockMore
    <2>5. id \in Lo(b.size) .. b.size - 1 /\ id \in 0 .. b.size - 1
      BY <1>1, <1>4, <2>2, <2>4
    <2>6. ~b.units[id].isLeaf /\ ~b.units[id].hasLeaf
      BY <1>2, <2>2, <2>5 DEF Told
    <2>7. Told(e, Lo(b.size), K \cup {id}, P) /\ e.size = b.size /\ e.units = b.units
      BY <2>2, <2>3, <2>5, FixTold
    <2>8. Same(a, e, K)
      BY <2>2, <2>7 DEF Same
    <2> QED
      BY <1>2, <1>4, <2>2, <2>5, <2>6, <2>7, <2>8
  <1> QED
    BY <1>3, <1>4

\* A unit is the one it was, but may have come to have a leaf.
Kept(v, w) ==
    w.label = v.label /\ w.isLeaf = v.isLeaf /\ w.value = v.value /\ w.offset = v.offset

\* A unit as the child with a label.
Stood(v, label, value) ==
    /\ ~v.hasLeaf
    /\ IF label = 0 THEN v.isLeaf /\ v.value = value ELSE ~v.isLeaf /\ v.label = label

\* A leaf has a value that is one.
Stores(label, value) == label = 0 => value \in Nat

\* What placing one child does.
OnePlaced(a, e, K, P, id, offset, child, label, value) ==
    /\ Told(e, Lo(e.size), K \cup {child}, P)
    /\ a.size <= e.size /\ \A u \in K : u # id => e.units[u] = a.units[u]
    /\ Kept(a.units[id], e.units[id])
    /\ e.units[id].hasLeaf <=> a.units[id].hasLeaf \/ label = 0
    /\ child \notin K /\ child \in Nat /\ Stood(e.units[child], label, value)
    /\ e.size = IF offset < a.size THEN a.size ELSE a.size + BlockSize

LEMMA PlaceTold ==
    ASSUME NEW a, NEW K, NEW P, Told(a, Lo(a.size), K, P), Plenty(K, P), NEW id \in K,
           NEW offset \in Numbers, offset < MaxOffset, offset < a.size + BlockSize,
           NEW label \in 0 .. MaxLabel, NEW value, Stores(label, value),
           NEW child, child = XorOf(offset, label), Open(a, child),
           NEW e, e = Place(a, id, offset, label, value)
    PROVE  OnePlaced(a, e, K, P, id, offset, child, label, value)
  <1> DEFINE c == Reserve(a, child)
  <1> USE DEF Stores
  <1>1. /\ ArrayOK(a) /\ a.size \in Nat /\ a.size % BlockSize = 0 /\ BlockSize \in Nat \ {0}
        /\ K \subseteq 0 .. a.size - 1 /\ (a.size + BlockSize) % BlockSize = 0
    BY Sizes, BlockMore DEF Told, ArrayOK
  <1>2. /\ child \in Nat /\ child < MaxOffset
        /\ child < a.size <=> offset < a.size
        /\ child < a.size + BlockSize
    <2>1. child \in Nat /\ offset \in Nat /\ Block(child) = Block(offset) /\ child < MaxOffset
      BY ChildBlock DEF Numbers
    <2>2. a.size + BlockSize \in Nat
      BY <1>1
    <2> QED
      BY <1>1, <2>1, <2>2, SameBlock
  <1>3. /\ Told(c, Lo(c.size), K \cup {child}, P) /\ Same(a, c, K)
        /\ child \notin K /\ child \in 0 .. c.size - 1
        /\ ~c.units[child].isLeaf /\ ~c.units[child].hasLeaf
        /\ c.size = IF child < a.size THEN a.size ELSE a.size + BlockSize
    BY <1>2, ReserveTold
  <1>4. e = IF label = 0
              THEN [[c EXCEPT !.units[id].hasLeaf = TRUE]
                       EXCEPT !.units[child] = [@ EXCEPT !.isLeaf = TRUE, !.value = value]]
              ELSE [c EXCEPT !.units[child].label = label]
    BY DEF Place
  <1>5. ArrayOK(e)
    BY <1>1, <1>2, PlaceGrows DEF Grows
  <1> HIDE DEF c
  <1>6. /\ ArrayOK(c) /\ DOMAIN c.units = 0 .. c.size - 1 /\ id \in 0 .. c.size - 1 /\ id # child
        /\ c.units[id] \in Units /\ c.units[child] \in Units /\ DOMAIN c = {"size", "units", "extras", "head"}
    <2>1. ArrayOK(c) /\ id \in 0 .. c.size - 1 /\ id # child
      BY <1>1, <1>3 DEF Told, Same
    <2> QED
      BY <1>3, <2>1 DEF ArrayOK
  <1>7. /\ e.size = c.size /\ e.extras = c.extras
        /\ \A u \in 0 .. c.size - 1 : u # id /\ u # child => e.units[u] = c.units[u]
        /\ e.units[id] = IF label = 0 THEN [c.units[id] EXCEPT !.hasLeaf = TRUE] ELSE c.units[id]
        /\ e.units[child] = IF label = 0 THEN [c.units[child] EXCEPT !.isLeaf = TRUE, !.value = value]
                            ELSE [c.units[child] EXCEPT !.label = label]
    <2>1. CASE label = 0
      <3> DEFINE d == [c EXCEPT !.units[id].hasLeaf = TRUE]
      <3>1. e = [d EXCEPT !.units[child] = [@ EXCEPT !.isLeaf = TRUE, !.value = value]]
        BY <1>4, <2>1
      <3>2. /\ DOMAIN d = DOMAIN c /\ d.size = c.size /\ d.extras = c.extras
            /\ d.units = [c.units EXCEPT ![id].hasLeaf = TRUE]
        BY <1>6
      <3> HIDE DEF d
      <3>3. /\ e.size = d.size /\ e.extras = d.extras
            /\ e.units = [d.units EXCEPT ![child] = [@ EXCEPT !.isLeaf = TRUE, !.value = value]]
        BY <1>6, <3>1, <3>2
      <3>4. /\ DOMAIN d.units = 0 .. c.size - 1
            /\ \A u \in 0 .. c.size - 1 :
                  d.units[u] = IF u = id THEN [c.units[id] EXCEPT !.hasLeaf = TRUE] ELSE c.units[u]
        BY <1>6, <3>2
      <3>5. \A u \in 0 .. c.size - 1 :
               e.units[u] = IF u = child THEN [d.units[child] EXCEPT !.isLeaf = TRUE, !.value = value]
                            ELSE d.units[u]
        BY <1>3, <3>3, <3>4
      <3> QED
        BY <1>3, <1>6, <2>1, <3>2, <3>3, <3>4, <3>5
    <2>2. CASE label # 0
      <3>1. e = [c EXCEPT !.units[child].label = label]
        BY <1>4, <2>2
      <3>2. /\ e.size = c.size /\ e.extras = c.extras
            /\ e.units = [c.units EXCEPT ![child].label = label]
        BY <1>6, <3>1
      <3> QED
        BY <1>3, <1>6, <2>2, <3>2
    <2> QED
      BY <2>1, <2>2
  <1>8. \A u \in 0 .. c.size - 1 : u \notin K \cup {child} => e.units[u] = c.units[u]
    BY <1>7
  <1>9. Told(e, Lo(e.size), K \cup {child}, P)
    BY <1>3, <1>5, <1>7, <1>8, RelabelTold
  <1>10. a.size <= e.size /\ \A u \in K : u # id => e.units[u] = a.units[u]
    <2>1. a.size <= c.size /\ \A u \in K : u \in 0 .. c.size - 1 /\ u # child
      BY <1>1, <1>3, <1>6 DEF Told
    <2> QED
      BY <1>3, <1>7, <2>1 DEF Same
  <1>11. c.units[id] = a.units[id]
    BY <1>3 DEF Same
  <1>12. /\ Kept(a.units[id], e.units[id])
         /\ e.units[id].hasLeaf <=> a.units[id].hasLeaf \/ label = 0
    <2> DEFINE v == c.units[id]
    <2>1. v \in Units /\ e.units[id] = IF label = 0 THEN [v EXCEPT !.hasLeaf = TRUE] ELSE v
      BY <1>6, <1>7
    <2> HIDE DEF v
    <2>2. Kept(v, e.units[id]) /\ (e.units[id].hasLeaf <=> v.hasLeaf \/ label = 0)
      BY <2>1 DEF Kept, Units
    <2> QED
      BY <1>11, <2>2 DEF v
  <1>13. Stood(e.units[child], label, value)
    <2> DEFINE v == c.units[child]
    <2>1. /\ v \in Units /\ ~v.isLeaf /\ ~v.hasLeaf
          /\ e.units[child] = IF label = 0 THEN [v EXCEPT !.isLeaf = TRUE, !.value = value]
                              ELSE [v EXCEPT !.label = label]
      BY <1>3, <1>6, <1>7
    <2> HIDE DEF v
    <2> QED
      BY <2>1 DEF Stood, Units
  <1> QED
    BY <1>2, <1>3, <1>7, <1>9, <1>10, <1>12, <1>13 DEF OnePlaced

\* A unit that now refers to an offset, and has a leaf if it had or is to have.
Settled(v, w, offset, leaf) ==
    /\ w.label = v.label /\ w.isLeaf = v.isLeaf /\ w.value = v.value
    /\ w.offset = offset /\ (w.hasLeaf <=> v.hasLeaf \/ leaf)

LEMMA SettledKept ==
    ASSUME NEW u, NEW v, NEW w, NEW offset, NEW leaf, NEW more, NEW all,
           Settled(u, v, offset, leaf), Kept(v, w), w.hasLeaf <=> v.hasLeaf \/ more,
           all <=> leaf \/ more
    PROVE  Settled(u, w, offset, all)
  BY DEF Settled, Kept

\* The part of an array that the children placed so far have, of those of a unit.
PlacedTold(a, e, K, P, id, offset, labels, values, m) ==
    /\ Told(e, Lo(e.size), K \cup {XorOf(offset, labels[k]) : k \in 1 .. m}, P)
    /\ \A u \in K : u # id => e.units[u] = a.units[u]
    /\ Settled(a.units[id], e.units[id], XorOf(id, offset), \E k \in 1 .. m : labels[k] = 0)
    /\ \A k \in 1 .. m : /\ XorOf(offset, labels[k]) \notin K
                         /\ Stood(e.units[XorOf(offset, labels[k])], labels[k], values[k])

Referring(a, id, offset) == [a EXCEPT !.units[id].offset = offset]

Offsets == 0 .. MaxOffset - 1

RefersOnly(a, e, id, o) ==
    /\ e.size = a.size /\ ArrayOK(e) /\ \A k \in Nat : Open(a, k) => Open(e, k)
    /\ e.extras = a.extras /\ e.units = [a.units EXCEPT ![id].offset = o]

LEMMA ReferKeeps ==
    ASSUME NEW a, NEW K, NEW P, Told(a, Lo(a.size), K, P), NEW id \in K, NEW o \in Offsets,
           NEW e, e = Referring(a, id, o)
    PROVE  RefersOnly(a, e, id, o)
  <1>1. ArrayOK(a) /\ id \in 0 .. a.size - 1
    BY DEF Told, ArrayOK
  <1>2. Refers(a, e, id, o)
    BY <1>1, OffsetSet DEF Referring, Offsets
  <1>3. /\ e.size = a.size /\ e.extras = a.extras
        /\ e.units = [a.units EXCEPT ![id].offset = o]
    BY <1>1 DEF ArrayOK, Referring
  <1> QED
    BY <1>2, <1>3 DEF Refers, RefersOnly

LEMMA ReferTold ==
    ASSUME NEW a, NEW K, NEW P, Told(a, Lo(a.size), K, P), NEW id \in K,
           NEW offset \in Numbers, NEW labels, NEW values, XorOf(id, offset) \in Offsets,
           NEW e, e = Referring(a, id, XorOf(id, offset))
    PROVE  PlacedTold(a, e, K, P, id, offset, labels, values, 0)
  <1> DEFINE o == XorOf(id, offset)
  <1>1. ArrayOK(a) /\ id \in 0 .. a.size - 1 /\ a.units[id] \in Units
    BY DEF Told, ArrayOK
  <1>3. /\ e.size = a.size /\ e.extras = a.extras /\ ArrayOK(e)
        /\ e.units = [a.units EXCEPT ![id].offset = o]
    <2>1. e = Referring(a, id, o) /\ o \in Offsets
      OBVIOUS
    <2> HIDE DEF o
    <2>2. RefersOnly(a, e, id, o)
      BY <2>1, ReferKeeps
    <2> QED
      BY <2>2 DEF RefersOnly
  <1> HIDE DEF o
  <1>4. \A u \in 0 .. a.size - 1 : e.units[u] = IF u = id THEN [a.units[u] EXCEPT !.offset = o] ELSE a.units[u]
    BY <1>1, <1>3 DEF ArrayOK
  <1>6. \A u \in 0 .. a.size - 1 : u \notin K => e.units[u] = a.units[u]
    BY <1>4
  <1>7. Told(e, Lo(e.size), K, P)
    BY <1>3, <1>6, RelabelTold
  <1>8. \A u \in K : u # id => e.units[u] = a.units[u]
    BY <1>4 DEF Told
  <1>9. e.units[id] = [a.units[id] EXCEPT !.offset = o]
    BY <1>1, <1>4
  <1>10. Settled(a.units[id], e.units[id], o, FALSE)
    <2> DEFINE v == a.units[id]
    <2>1. v \in Units /\ e.units[id] = [v EXCEPT !.offset = o]
      BY <1>1, <1>9
    <2> HIDE DEF v
    <2>2. Settled(v, e.units[id], o, FALSE)
      BY <2>1 DEF Settled, Units
    <2> QED
      BY <2>2 DEF v
  <1>11. {XorOf(offset, labels[k]) : k \in 1 .. 0} = {} /\ ~ \E k \in 1 .. 0 : labels[k] = 0
    OBVIOUS
  <1>12. K \cup {} = K /\ \A k \in 1 .. 0 : FALSE
    OBVIOUS
  <1>13. (\E k \in 1 .. 0 : labels[k] = 0) = FALSE
    BY <1>11
  <1> QED
    BY <1>3, <1>7, <1>8, <1>10, <1>11, <1>12, <1>13 DEF PlacedTold, o

\* One child more.
LEMMA PlaceMoreTold ==
    ASSUME NEW a, NEW b, NEW K, NEW P, Plenty(K, P), NEW id \in K,
           NEW offset \in Numbers, offset < MaxOffset, offset < b.size + BlockSize,
           NEW labels \in Seq(0 .. MaxLabel), NEW values, NEW m \in Nat, m + 1 \in 1 .. Len(labels),
           PlacedTold(a, b, K, P, id, offset, labels, values, m),
           Stores(labels[m + 1], values[m + 1]),
           Open(b, XorOf(offset, labels[m + 1])),
           NEW e, e = Place(b, id, offset, labels[m + 1], values[m + 1])
    PROVE  /\ PlacedTold(a, e, K, P, id, offset, labels, values, m + 1)
           /\ e.size = IF offset < b.size THEN b.size ELSE b.size + BlockSize
  <1> DEFINE label == labels[m + 1]
             child(k) == XorOf(offset, labels[k])
             J == K \cup {child(k) : k \in 1 .. m}
             J1 == K \cup {child(k) : k \in 1 .. m + 1}
             new == child(m + 1)
  <1>1. label \in 0 .. MaxLabel
    BY ElementOfSeq
  <1>2. /\ Told(b, Lo(b.size), J, P)
        /\ \A u \in K : u # id => b.units[u] = a.units[u]
        /\ Settled(a.units[id], b.units[id], XorOf(id, offset), \E k \in 1 .. m : labels[k] = 0)
        /\ \A k \in 1 .. m : child(k) \notin K /\ Stood(b.units[child(k)], labels[k], values[k])
    BY DEF PlacedTold
  <1>3. Plenty(J, P) /\ id \in J
    BY DEF Plenty
  <1>4. J1 = J \cup {new} /\ \A k \in 1 .. m + 1 : k = m + 1 \/ k \in 1 .. m
    <2>1. \A k \in 1 .. m + 1 : k = m + 1 \/ k \in 1 .. m
      OBVIOUS
    <2>2. m + 1 \in 1 .. m + 1 /\ \A k \in 1 .. m : k \in 1 .. m + 1
      OBVIOUS
    <2> QED
      BY <2>1, <2>2
  <1>5. \A k \in 1 .. m : child(k) \in J
    OBVIOUS
  <1> HIDE DEF J
  <1>6. /\ Told(e, Lo(e.size), J \cup {new}, P)
        /\ b.size <= e.size /\ \A u \in J : u # id => e.units[u] = b.units[u]
        /\ Kept(b.units[id], e.units[id])
        /\ e.units[id].hasLeaf <=> b.units[id].hasLeaf \/ label = 0
        /\ new \notin J /\ new \in Nat /\ Stood(e.units[new], label, values[m + 1])
        /\ e.size = IF offset < b.size THEN b.size ELSE b.size + BlockSize
    <2> DEFINE value == values[m + 1]
    <2>1. /\ Stores(label, value)
          /\ new = XorOf(offset, label) /\ Open(b, new) /\ e = Place(b, id, offset, label, value)
      OBVIOUS
    <2> HIDE DEF label, value, new
    <2>2. Told(b, Lo(b.size), J, P)
      BY <1>2
    <2>3. OnePlaced(b, e, J, P, id, offset, new, label, value)
      BY <1>1, <1>3, <2>1, <2>2, PlaceTold
    <2> QED
      BY <2>3 DEF OnePlaced, value
  <1>7. \A u \in K : u \in J
    BY DEF J
  <1>8. \A u \in K : u # id => e.units[u] = a.units[u]
    BY <1>2, <1>6, <1>7
  <1>9. Settled(a.units[id], e.units[id], XorOf(id, offset), \E k \in 1 .. m + 1 : labels[k] = 0)
    <2> DEFINE leaf == \E k \in 1 .. m : labels[k] = 0
               all == \E k \in 1 .. m + 1 : labels[k] = 0
               more == label = 0
    <2>1. all <=> leaf \/ more
      BY <1>4
    <2>2. Settled(a.units[id], b.units[id], XorOf(id, offset), leaf)
      BY <1>2
    <2>3. e.units[id].hasLeaf <=> b.units[id].hasLeaf \/ more
      BY <1>6
    <2> HIDE DEF leaf, all, more
    <2>4. Settled(a.units[id], e.units[id], XorOf(id, offset), all)
      BY <1>6, <2>1, <2>2, <2>3, SettledKept
    <2> QED
      BY <2>4 DEF all
  <1>10. ASSUME NEW k \in 1 .. m + 1
         PROVE  child(k) \notin K /\ Stood(e.units[child(k)], labels[k], values[k])
    <2>1. CASE k = m + 1
      BY <1>6, <1>7, <2>1
    <2>2. CASE k \in 1 .. m
      <3>1. child(k) \in J /\ child(k) # id
        BY <1>2, <1>5, <2>2
      <3> QED
        BY <1>2, <1>6, <2>2, <3>1
    <2> QED
      BY <1>4, <2>1, <2>2
  <1>11. Told(e, Lo(e.size), J1, P)
    BY <1>4, <1>6
  <1> QED
    BY <1>6, <1>8, <1>9, <1>10, <1>11 DEF PlacedTold

\* All children can be had at an offset, which is not used.
Roomy(a, P, offset, labels, values) ==
    /\ offset \in Numbers /\ offset < MaxOffset /\ offset < a.size + BlockSize
    /\ offset \notin P /\ (offset < a.size => offset \in Window(a))
    /\ labels \in Seq(0 .. MaxLabel) /\ Len(labels) >= 1 /\ Distinct(labels)
    /\ \A m \in 1 .. Len(labels) : Stores(labels[m], values[m]) /\ Open(a, XorOf(offset, labels[m]))

ArrangedTold(a, e, K, P, id, offset, labels, values) ==
    /\ Told(e, Lo(e.size), K \cup Children(offset, labels), P \cup {offset})
    /\ \A u \in K : u # id => e.units[u] = a.units[u]
    /\ Settled(a.units[id], e.units[id], XorOf(id, offset), \E k \in 1 .. Len(labels) : labels[k] = 0)
    /\ \A k \in 1 .. Len(labels) :
          /\ XorOf(offset, labels[k]) \notin K
          /\ Stood(e.units[XorOf(offset, labels[k])], labels[k], values[k])

\* arrange_from_dawg and arrange_from_keyset.
LEMMA ArrangeTold ==
    ASSUME NEW a, NEW K, NEW P, Told(a, Lo(a.size), K, P), Plenty(K, P), NEW id \in K,
           NEW offset, NEW labels, NEW values, Roomy(a, P, offset, labels, values),
           NEW e, e = Arrange(a, id, offset, labels, values)
    PROVE  ArrangedTold(a, e, K, P, id, offset, labels, values)
  <1> DEFINE L == Len(labels)
             first == [a EXCEPT !.units[id].offset = XorOf(id, offset)]
             f == CHOOSE f : f = [m \in 0 .. L |->
                     IF m = 0 THEN [a EXCEPT !.units[id].offset = XorOf(id, offset)]
                     ELSE Place(f[m - 1], id, offset, labels[m], values[m])]
             child(m) == XorOf(offset, labels[m])
             size == IF offset < a.size THEN a.size ELSE a.size + BlockSize
             T == {m \in 0 .. L :
                      /\ PlacedTold(a, f[m], K, P, id, offset, labels, values, m)
                      /\ ArrayOK(f[m])
                      /\ f[m].size = IF m = 0 THEN a.size ELSE size
                      /\ \A k \in m + 1 .. L : Open(f[m], child(k))}
  <1>1. /\ offset \in Numbers /\ offset < MaxOffset /\ offset < a.size + BlockSize
        /\ offset \notin P /\ (offset < a.size => offset \in Window(a))
        /\ labels \in Seq(0 .. MaxLabel) /\ Len(labels) >= 1 /\ Distinct(labels)
        /\ \A m \in 1 .. L : Stores(labels[m], values[m]) /\ Open(a, child(m))
    BY DEF Roomy
  <1>2. /\ L \in Nat /\ L >= 1 /\ a.size \in Nat /\ a.size % BlockSize = 0
        /\ id \in Nat /\ id < a.size /\ offset \in Nat /\ BlockSize \in Nat \ {0}
        /\ \A m \in 1 .. L : labels[m] \in 0 .. MaxLabel
    <2>1. a.size \in Nat /\ a.size % BlockSize = 0
      BY DEF Told, ArrayOK
    <2>2. id \in Nat /\ id < a.size
      BY <2>1 DEF Told
    <2>3. offset \in Nat
      BY <1>1 DEF Numbers
    <2>4. L \in Nat /\ L >= 1
      BY <1>1
    <2>5. \A m \in 1 .. L : labels[m] \in 0 .. MaxLabel
      BY <1>1, ElementOfSeq
    <2> QED
      BY <2>1, <2>2, <2>3, <2>4, <2>5, Sizes
  <1>3. e = [f[L] EXCEPT !.extras[Slot(offset)].used = TRUE]
    BY DEF Arrange
  <1>4. /\ f[0] = first
        /\ \A m \in 1 .. L : m - 1 \in 0 .. L /\ f[m] = Place(f[m - 1], id, offset, labels[m], values[m])
    <2>1. \E g : PlacedUpTo(g, a, id, offset, labels, values, L)
      BY <1>2, PlacedExists
    <2>2. PlacedUpTo(f, a, id, offset, labels, values, L)
      BY <2>1 DEF PlacedUpTo
    <2> HIDE DEF f
    <2>3. f[0] = first
      BY <1>2, <2>2 DEF PlacedUpTo
    <2>4. ASSUME NEW m \in 1 .. L
          PROVE  m - 1 \in 0 .. L /\ f[m] = Place(f[m - 1], id, offset, labels[m], values[m])
      <3>1. m - 1 \in 0 .. L /\ m \in 0 .. L /\ m # 0
        BY <1>2
      <3> QED
        BY <2>2, <3>1 DEF PlacedUpTo
    <2> QED
      BY <2>3, <2>4
  <1> HIDE DEF f
  <1>5. XorOf(id, offset) \in Offsets
    <2>1. id \in Numbers /\ id < MaxOffset
      BY <1>2, Sizes DEF Told, ArrayOK, Numbers
    <2>2. XorOf(id, offset) \in Numbers /\ XorOf(id, offset) < MaxOffset
      BY <1>1, <2>1, XorLaws
    <2> QED
      BY <2>2, Sizes DEF Numbers, Offsets
  <1>6. /\ PlacedTold(a, first, K, P, id, offset, labels, values, 0)
        /\ first.size = a.size /\ ArrayOK(first) /\ \A k \in Nat : Open(a, k) => Open(first, k)
    <2>1. first = Referring(a, id, XorOf(id, offset))
      BY DEF Referring
    <2> HIDE DEF first
    <2>2. offset \in Numbers
      BY <1>1
    <2>3. PlacedTold(a, first, K, P, id, offset, labels, values, 0)
      BY <1>5, <2>1, <2>2, ReferTold
    <2>4. RefersOnly(a, first, id, XorOf(id, offset))
      BY <1>5, <2>1, ReferKeeps
    <2> QED
      BY <2>3, <2>4 DEF RefersOnly
  <1> HIDE DEF first
  <1>7. \A m \in 1 .. L : /\ child(m) \in Nat /\ child(m) \in Numbers
                          /\ Block(child(m)) = Block(offset)
    <2> SUFFICES ASSUME NEW m \in 1 .. L
                 PROVE  /\ child(m) \in Nat /\ child(m) \in Numbers
                        /\ Block(child(m)) = Block(offset)
      OBVIOUS
    <2>1. labels[m] \in 0 .. MaxLabel /\ labels[m] \in Numbers
      BY <1>1, <1>2, ChildBlock
    <2> QED
      BY <1>1, <2>1, ChildBlock, XorLaws
  <1>8. ASSUME NEW m \in 1 .. L, NEW k \in 1 .. L, m # k PROVE child(m) # child(k)
    <2>1. labels[m] \in Numbers /\ labels[k] \in Numbers /\ labels[m] # labels[k]
      BY <1>1, <1>2, <1>8, ChildBlock DEF Distinct
    <2>2. XorOf(offset, child(m)) = labels[m] /\ XorOf(offset, child(k)) = labels[k]
      BY <1>1, <2>1, XorBack
    <2> QED
      BY <2>1, <2>2
  <1> HIDE DEF L
  <1>9. 0 \in T
    <2>1. \A k \in 0 + 1 .. L : Open(first, child(k))
      BY <1>1, <1>2, <1>6, <1>7
    <2> HIDE DEF child
    <2> QED
      BY <1>2, <1>4, <1>6, <2>1
  <1>10. ASSUME NEW m \in 0 .. L - 1, m \in T PROVE m + 1 \in T
    <2> DEFINE b == f[m]
               g == f[m + 1]
    <2>1. m + 1 \in 1 .. L /\ m + 1 \in 0 .. L /\ m \in Nat
          /\ g = Place(b, id, offset, labels[m + 1], values[m + 1])
      BY <1>2, <1>4
    <2>2. /\ PlacedTold(a, b, K, P, id, offset, labels, values, m)
          /\ ArrayOK(b)
          /\ b.size = IF m = 0 THEN a.size ELSE size
          /\ \A k \in m + 1 .. L : Open(b, child(k))
      BY <1>10
    <2> HIDE DEF b, g, T
    <2>3. Open(b, child(m + 1)) /\ Stores(labels[m + 1], values[m + 1])
      <3>1. m + 1 \in m + 1 .. L
        BY <1>2, <2>1
      <3> QED
        BY <1>1, <2>1, <2>2, <3>1
    <2>4. b.size \in Nat /\ offset < b.size + BlockSize /\ id \in 0 .. b.size - 1
      BY <1>1, <1>2, <2>2
    <2>5. /\ PlacedTold(a, g, K, P, id, offset, labels, values, m + 1)
          /\ g.size = IF offset < b.size THEN b.size ELSE b.size + BlockSize
      <3>1. m + 1 \in 1 .. Len(labels)
        BY <2>1 DEF L
      <3> QED
        BY <1>1, <2>1, <2>2, <2>3, <2>4, <3>1, PlaceMoreTold
    <2>6. /\ Grows(b, g)
          /\ \A k \in Nat : /\ Block(k) = Block(child(m + 1)) /\ k # child(m + 1)
                             /\ Open(b, child(m + 1)) /\ Open(b, k) => Open(g, k)
      <3>1. labels[m + 1] \in 0 .. MaxLabel
        BY <1>2, <2>1
      <3>2. labels[m + 1] = 0 => values[m + 1] \in Nat
        BY <2>3 DEF Stores
      <3> QED
        BY <1>1, <2>1, <2>2, <2>4, <3>1, <3>2, PlaceGrows
    <2>7. g.size = size
      <3>1. CASE m = 0
        BY <2>2, <2>5, <3>1
      <3>2. CASE m # 0 /\ offset < a.size
        BY <2>2, <2>5, <3>2
      <3>3. CASE m # 0 /\ ~ (offset < a.size)
        <4>1. b.size = a.size + BlockSize /\ size = a.size + BlockSize
          BY <2>2, <3>3
        <4> QED
          BY <1>1, <2>5, <4>1
      <3> QED
        BY <3>1, <3>2, <3>3
    <2>8. ASSUME NEW k \in m + 1 + 1 .. L PROVE Open(g, child(k))
      <3>1. k \in 1 .. L /\ k # m + 1 /\ k \in m + 1 .. L
        BY <1>2, <2>1, <2>8
      <3>2. child(k) # child(m + 1) /\ Block(child(k)) = Block(child(m + 1)) /\ child(k) \in Nat
        BY <1>7, <1>8, <2>1, <3>1
      <3>3. Open(b, child(k))
        BY <2>2, <3>1
      <3> QED
        BY <2>3, <2>6, <3>2, <3>3
    <2>9. ArrayOK(g)
      BY <2>6 DEF Grows
    <2> HIDE DEF child, size
    <2> QED
      BY <2>1, <2>5, <2>7, <2>8, <2>9 DEF T, g
  <1>11. L \in T
    <2> HIDE DEF T
    <2>1. \A m \in 0 .. L : m \in T
      BY <1>2, <1>9, <1>10, UpTo
    <2> QED
      BY <1>2, <2>1
  <1> DEFINE c == f[L]
             J == K \cup {child(k) : k \in 1 .. L}
  <1>12. PlacedTold(a, c, K, P, id, offset, labels, values, L) /\ c.size = size
    BY <1>2, <1>11
  <1> HIDE DEF T, c
  <1>13. /\ Told(c, Lo(c.size), J, P)
         /\ \A u \in K : u # id => c.units[u] = a.units[u]
         /\ Settled(a.units[id], c.units[id], XorOf(id, offset), \E k \in 1 .. L : labels[k] = 0)
         /\ \A k \in 1 .. L : child(k) \notin K /\ Stood(c.units[child(k)], labels[k], values[k])
    BY <1>12 DEF PlacedTold
  <1>14. offset \in Lo(c.size) .. c.size - 1 /\ Lo(c.size) % BlockSize = 0
    <2>1. CASE offset < a.size
      <3>1. Lo(a.size) \in 0 .. a.size /\ offset >= Lo(a.size) /\ Lo(a.size) % BlockSize = 0
        BY <1>1, <1>2, <2>1, LoIs DEF Window
      <3> QED
        BY <1>2, <1>12, <2>1, <3>1
    <2>2. CASE ~ (offset < a.size)
      <3>1. Lo(a.size + BlockSize) \in Nat /\ Lo(a.size + BlockSize) <= a.size
            /\ Lo(a.size + BlockSize) % BlockSize = 0
        BY <1>2, LoIs, BlockMore
      <3> QED
        BY <1>1, <1>2, <1>12, <2>2, <3>1
    <2> QED
      BY <2>1, <2>2
  <1> HIDE DEF J, child, size
  <1>15. Told(e, Lo(c.size), J, P \cup {offset}) /\ e.size = c.size /\ e.units = c.units
    <2>1. e = Used(c, offset)
      BY <1>3 DEF c, Used
    <2> DEFINE lo == Lo(c.size)
    <2>2. Told(c, lo, J, P) /\ lo % BlockSize = 0 /\ offset \in lo .. c.size - 1
      BY <1>13, <1>14
    <2> HIDE DEF lo
    <2>3. Told(e, lo, J, P \cup {offset}) /\ e.size = c.size /\ e.units = c.units
      BY <2>1, <2>2, UsedTold
    <2> QED
      BY <2>3 DEF lo
  <1>16. J = K \cup Children(offset, labels)
    BY DEF J, Children, child, L
  <1> QED
    BY <1>13, <1>15, <1>16 DEF ArrangedTold, child, L

\* fix_all_blocks: all units are taken or have a label no search asks for.
AllFixed(a) ==
    LET blocks == Block(a.size)
        begin == IF blocks > ExtraBlocks THEN blocks - ExtraBlocks ELSE 0
        fixed[m \in 0 .. blocks - begin] ==
            IF m = 0 THEN a ELSE FixBlock(fixed[m - 1], begin + m - 1)
    IN  fixed[blocks - begin]

LEMMA AllFixedTold ==
    ASSUME NEW a, NEW K, NEW P, Told(a, Lo(a.size), K, P), Plenty(K, P),
           NEW e, e = AllFixed(a)
    PROVE  Told(e, e.size, K, P) /\ Spares(a, e, K)
  <1> DEFINE blocks == Block(a.size)
             begin == IF blocks > ExtraBlocks THEN blocks - ExtraBlocks ELSE 0
             N == blocks - begin
             f == CHOOSE f : f = [m \in 0 .. N |-> IF m = 0 THEN a ELSE FixBlock(f[m - 1], begin + m - 1)]
             T == {m \in 0 .. N : Told(f[m], (begin + m) * BlockSize, K, P) /\ Spares(a, f[m], K)}
  <1>1. e = f[N]
    BY DEF AllFixed
  <1>2. a.size \in Nat /\ a.size % BlockSize = 0
    BY DEF Told, ArrayOK
  <1>3. /\ blocks \in Nat /\ begin \in Nat /\ N \in Nat /\ begin + N = blocks
        /\ BlockSize \in Nat /\ a.size = blocks * BlockSize /\ begin * BlockSize = Lo(a.size)
    <2>1. blocks \in Nat /\ a.size = BlockSize * blocks + Low(a.size)
      BY <1>2, LowBlock
    <2>2. Low(a.size) = 0
      BY <1>2 DEF Low
    <2>3. BlockSize \in Nat /\ ExtraBlocks \in Nat /\ Extras \in Nat \ {0}
      BY Sizes
    <2>4. begin * BlockSize = Lo(a.size)
      <3>1. CASE blocks > ExtraBlocks
        <4>1. (blocks - ExtraBlocks) * BlockSize = a.size - Extras /\ blocks - ExtraBlocks \in Nat
          BY <1>2, <2>1, <2>3, <3>1, ClosingBlock
        <4>2. a.size - Extras \in Nat
          BY <4>1, BlockIds
        <4> HIDE DEF blocks
        <4> QED
          BY <1>2, <2>3, <3>1, <4>1, <4>2 DEF Lo
      <3>2. CASE blocks = ExtraBlocks
        <4>1. (blocks - ExtraBlocks) * BlockSize = a.size - Extras
          BY <1>2, <2>1, <2>3, <3>2, ClosingBlock
        <4>2. (blocks - ExtraBlocks) * BlockSize = 0
          BY <2>3, <3>2
        <4> HIDE DEF blocks
        <4> QED
          BY <1>2, <2>3, <3>2, <4>1, <4>2 DEF Lo
      <3>3. CASE blocks < ExtraBlocks
        <4>1. a.size + BlockSize <= Extras
          BY <1>2, <2>1, <2>3, <3>3, ClosingBlock
        <4> HIDE DEF blocks
        <4>2. begin = 0
          BY <2>1, <2>3, <3>3
        <4>3. Lo(a.size) = 0
          BY <1>2, <2>3, <4>1 DEF Lo
        <4>4. begin * BlockSize = 0
          <5> HIDE DEF begin
          <5> QED
            BY <2>3, <4>2
        <4> QED
          BY <4>3, <4>4
      <3>4. blocks > ExtraBlocks \/ blocks = ExtraBlocks \/ blocks < ExtraBlocks
        BY <2>1, <2>3
      <3> QED
        BY <3>1, <3>2, <3>3, <3>4
    <2> HIDE DEF blocks
    <2> QED
      BY <2>1, <2>2, <2>3, <2>4
  <1>4. AllFixedTo(f, a, begin, N)
    <2>1. \E g : AllFixedTo(g, a, begin, N)
      BY <1>3, AllFixedExists
    <2> QED
      BY <2>1 DEF AllFixedTo
  <1> HIDE DEF f, blocks, begin, N
  <1>5. f[0] = a
    BY <1>3, <1>4 DEF AllFixedTo
  <1>6. ASSUME NEW m \in 0 .. N - 1 PROVE f[m + 1] = FixBlock(f[m], begin + m)
    <2>1. m + 1 \in 0 .. N /\ m + 1 # 0 /\ (m + 1) - 1 = m /\ begin + (m + 1) - 1 = begin + m
      BY <1>3
    <2> QED
      BY <1>4, <2>1 DEF AllFixedTo
  <1>7. 0 \in T
    <2>1. Spares(a, a, K)
      BY DEF Spares
    <2> QED
      BY <1>3, <1>5, <2>1
  <1>8. ASSUME NEW m \in 0 .. N - 1, m \in T PROVE m + 1 \in T
    <2> DEFINE b == begin + m
               lo == b * BlockSize
               c == f[m]
    <2>1. m + 1 \in 0 .. N /\ b \in Nat /\ b < blocks /\ begin + (m + 1) = b + 1
      BY <1>3
    <2>2. Told(c, lo, K, P) /\ Spares(a, c, K) /\ c.size = a.size
      BY <1>8 DEF Spares
    <2>3. f[m + 1] = FixBlock(c, b)
      BY <1>6
    <2> HIDE DEF b, c
    <2>4. lo < c.size /\ (b + 1) * BlockSize = lo + BlockSize
      <3>1. \A x, y, s \in Nat : x < y /\ s # 0 => x * s < y * s
        <4> SUFFICES ASSUME NEW x \in Nat, NEW y \in Nat, NEW s \in Nat, x < y, s # 0
                     PROVE  x * s < y * s
          OBVIOUS
        <4>1. y * s = x * s + (y - x) * s /\ (y - x) * s >= s
          OBVIOUS
        <4> QED
          BY <4>1
      <3>2. BlockSize # 0
        BY Sizes
      <3>3. \A x, s \in Nat : (x + 1) * s = x * s + s
        OBVIOUS
      <3> QED
        BY <1>3, <2>1, <2>2, <3>1, <3>2, <3>3
    <2> DEFINE g == f[m + 1]
    <2> HIDE DEF lo, g
    <2>5. Told(g, lo + BlockSize, K, P) /\ Spares(c, g, K)
      BY <2>1, <2>2, <2>3, <2>4, FixBlockTold DEF lo, g
    <2>6. Spares(a, g, K)
      BY <2>2, <2>5, SparesTwice
    <2> QED
      BY <2>1, <2>4, <2>5, <2>6 DEF g
  <1>9. N \in T
    <2> HIDE DEF T
    <2>1. \A m \in 0 .. N : m \in T
      BY <1>3, <1>7, <1>8, UpTo
    <2> QED
      BY <1>3, <2>1
  <1> QED
    BY <1>1, <1>3, <1>9 DEF Spares

\* The root.
Rooted == [Reserve(InitArray, 0) EXCEPT !.extras[0].used = TRUE, !.units[0].offset = 1]

Reserved(a, e, K, P, id) ==
    /\ Told(e, Lo(e.size), K \cup {id}, P) /\ ~e.units[id].isLeaf /\ ~e.units[id].hasLeaf
    /\ e.size = IF id < a.size THEN a.size ELSE a.size + BlockSize

LEMMA ReservedTold ==
    ASSUME NEW a, NEW K, NEW P, Told(a, Lo(a.size), K, P), Plenty(K, P),
           NEW id \in Nat, id < MaxOffset, id < a.size + BlockSize, Open(a, id),
           NEW e, e = Reserve(a, id)
    PROVE  Reserved(a, e, K, P, id)
  BY ReserveTold DEF Reserved

LEMMA NothingTold ==
    ASSUME NEW a, NEW K, a.size = 0, ArrayOK(a), Lo(0) = 0, K = {}
    PROVE  Told(a, Lo(a.size), K, K)
  <1>1. 0 \in 0 .. a.size /\ a.size <= 0 + Extras
    BY Sizes
  <1>2. K \subseteq 0 .. a.size - 1
    OBVIOUS
  <1>3. \A u \in 0 .. a.size - 1 : FALSE
    OBVIOUS
  <1>4. \A u \in 0 .. 0 - 1 : FALSE
    OBVIOUS
  <1> QED
    BY <1>1, <1>2, <1>3, <1>4 DEF Told

LEMMA RootTold ==
    /\ Told(Rooted, Lo(Rooted.size), {0}, {0})
    /\ Rooted.size = BlockSize
    /\ \A u \in 0 .. Rooted.size - 1 : /\ Rooted.units[u].offset < BlockSize
                                       /\ ~Rooted.units[u].hasLeaf
    /\ Rooted.units[0].label = 0 /\ ~Rooted.units[0].isLeaf
  <1> DEFINE b == Expand(InitArray)
             c == Reserve(InitArray, 0)
             d == Used(c, 0)
             e == Referring(d, 0, 1)
  <1>1. /\ InitArray.size = 0 /\ ArrayOK(InitArray) /\ 0 < MaxOffset /\ 1 \in Offsets
        /\ BlockSize \in Nat /\ BlockSize > 1 /\ Slot(0) = 0 /\ 0 \in Slots /\ Lo(0) = 0
        /\ 0 + BlockSize <= MaxOffset /\ Lo(BlockSize) = 0 /\ BlockSize % BlockSize = 0
        /\ 0 % BlockSize = 0
    <2>1. /\ MaxOffset \in Nat /\ BlockSize \in Nat /\ BlockSize >= 2
          /\ MaxOffset >= BlockSize + BlockSize /\ Extras \in Nat /\ Extras > 0 /\ Extras >= BlockSize
      BY Sizes
    <2>2. InitArray.size = 0 /\ ArrayOK(InitArray)
      BY InitArrayOK DEF InitArray
    <2> HIDE DEF Extras, BlockSize, MaxOffset
    <2> QED
      BY <2>1, <2>2 DEF Slot, Slots, Lo, Offsets
  <1>2. Told(InitArray, Lo(InitArray.size), {}, {})
    <2> DEFINE a == InitArray
               none == {}
    <2>1. a.size = 0 /\ ArrayOK(a) /\ Lo(0) = 0 /\ none = {}
      BY <1>1
    <2> HIDE DEF a, none
    <2>2. Told(a, Lo(a.size), none, none)
      BY <2>1, NothingTold
    <2> QED
      BY <2>2 DEF a, none
  <1>3. Plenty({}, {})
    BY DEF Plenty
  <1>4. Open(InitArray, 0)
    BY <1>1 DEF Open
  <1>5. /\ Told(c, Lo(c.size), {0}, {}) /\ c.size = BlockSize
        /\ ~c.units[0].isLeaf /\ ~c.units[0].hasLeaf
    <2> DEFINE a == InitArray
               none == {}
    <2>1. /\ Told(a, Lo(a.size), none, none) /\ Plenty(none, none) /\ Open(a, 0) /\ a.size = 0
          /\ 0 \in Nat /\ 0 < MaxOffset /\ 0 < a.size + BlockSize /\ c = Reserve(a, 0)
      BY <1>1, <1>2, <1>3, <1>4
    <2>2. none \cup {0} = {0}
      OBVIOUS
    <2> HIDE DEF a, c, none
    <2>3. Reserved(a, c, none, none, 0)
      BY <2>1, ReservedTold
    <2>4. /\ Told(c, Lo(c.size), none \cup {0}, none)
          /\ ~c.units[0].isLeaf /\ ~c.units[0].hasLeaf
          /\ c.size = IF 0 < a.size THEN a.size ELSE a.size + BlockSize
      BY <2>3 DEF Reserved
    <2>5. c.size = BlockSize
      BY <1>1, <2>1, <2>4
    <2> QED
      BY <2>2, <2>4, <2>5 DEF none
  <1>6. \A u \in 0 .. BlockSize - 1 : c.units[u] = Blank
    <2>1. c = Fix(b, 0)
      BY <1>1 DEF Reserve
    <2>2. /\ ArrayOK(b) /\ b.size = BlockSize
          /\ \A u \in 0 .. BlockSize - 1 : b.units[u] = Blank
      BY <1>1, ExpandEffect
    <2> HIDE DEF b, c
    <2>3. c.units = b.units
      BY <2>1, <2>2, FixEffect
    <2> QED
      BY <2>2, <2>3
  <1> HIDE DEF b
  <1>7. Rooted = e
    <2>1. ArrayOK(c)
      BY <1>5 DEF Told
    <2> HIDE DEF c
    <2> QED
      BY <1>1, <2>1 DEF Rooted, Used, Referring, ArrayOK, c
  <1> HIDE DEF c
  <1>8. Told(d, Lo(c.size), {0}, {0}) /\ d.size = c.size /\ d.units = c.units
    <2> DEFINE lo == Lo(c.size)
    <2>1. Told(c, lo, {0}, {}) /\ lo % BlockSize = 0 /\ 0 \in lo .. c.size - 1 /\ d = Used(c, 0)
      BY <1>1, <1>5
    <2> HIDE DEF lo, d
    <2>2. Told(d, lo, {0}, {} \cup {0}) /\ d.size = c.size /\ d.units = c.units
      BY <2>1, UsedTold
    <2>3. {} \cup {0} = {0}
      OBVIOUS
    <2> QED
      BY <2>2, <2>3 DEF lo
  <1> HIDE DEF d
  <1>9. RefersOnly(d, e, 0, 1)
    <2>1. e = Referring(d, 0, 1) /\ Told(d, Lo(d.size), {0}, {0}) /\ 0 \in {0}
      BY <1>8
    <2> HIDE DEF e
    <2> QED
      BY <1>1, <2>1, ReferKeeps
  <1> HIDE DEF e
  <1>10. /\ e.size = BlockSize /\ e.extras = d.extras /\ ArrayOK(e)
         /\ e.units = [c.units EXCEPT ![0].offset = 1]
    BY <1>5, <1>8, <1>9 DEF RefersOnly
  <1>11. /\ DOMAIN c.units = 0 .. BlockSize - 1 /\ 0 \in 0 .. BlockSize - 1
    BY <1>1, <1>5 DEF Told, ArrayOK
  <1>12. \A u \in 0 .. BlockSize - 1 : e.units[u] = IF u = 0 THEN [Blank EXCEPT !.offset = 1] ELSE Blank
    BY <1>6, <1>10, <1>11
  <1>13. Told(e, Lo(e.size), {0}, {0})
    <2>1. \A u \in 0 .. d.size - 1 : u \notin {0} => e.units[u] = d.units[u]
      BY <1>5, <1>6, <1>8, <1>12
    <2>2. Told(d, Lo(d.size), {0}, {0}) /\ e.size = d.size /\ e.extras = d.extras
      BY <1>5, <1>8, <1>10
    <2> DEFINE lo == Lo(d.size)
    <2>3. Told(d, lo, {0}, {0})
      BY <2>2
    <2> HIDE DEF lo
    <2>4. Told(e, lo, {0}, {0})
      BY <1>10, <2>1, <2>2, <2>3, RelabelTold
    <2> QED
      BY <2>2, <2>4 DEF lo
  <1>14. \A u \in 0 .. BlockSize - 1 : /\ e.units[u].offset < BlockSize /\ ~e.units[u].hasLeaf
                                      /\ e.units[u].label = 0 /\ ~e.units[u].isLeaf
    <2>1. /\ Blank.offset = 0 /\ ~Blank.hasLeaf /\ Blank.label = 0 /\ ~Blank.isLeaf
      BY DEF Blank
    <2> DEFINE first == [Blank EXCEPT !.offset = 1]
    <2>2. first.offset = 1 /\ ~first.hasLeaf /\ first.label = 0 /\ ~first.isLeaf
      BY DEF Blank
    <2> HIDE DEF first
    <2> SUFFICES ASSUME NEW u \in 0 .. BlockSize - 1
                 PROVE  /\ e.units[u].offset < BlockSize /\ ~e.units[u].hasLeaf
                        /\ e.units[u].label = 0 /\ ~e.units[u].isLeaf
      OBVIOUS
    <2>3. e.units[u] = IF u = 0 THEN first ELSE Blank
      BY <1>12 DEF first
    <2>4. CASE u = 0
      <3>1. e.units[u] = first
        BY <2>3, <2>4
      <3> QED
        BY <1>1, <2>2, <3>1
    <2>5. CASE u # 0
      <3>1. e.units[u] = Blank
        BY <2>3, <2>5
      <3> QED
        BY <1>1, <2>1, <3>1
    <2> QED
      BY <2>4, <2>5
  <1> QED
    BY <1>7, <1>10, <1>11, <1>13, <1>14

-----------------------------------------------------------------------------
(* What a place of the array is to offer: sets of words.                     *)

Firsts(X) == {x[0] : x \in X}

\* The words of X behind a label.
Rest(X, label) == {Drop(x, 1) : x \in {y \in X : y[0] = label}}

\* Children with these labels, and leaves with these values, are those of X.
Offers(X, labels, values) ==
    /\ X \subseteq Words /\ X # {}
    /\ Firsts(X) = {labels[m] : m \in 1 .. Len(labels)}
    /\ \A x \in X : \A m \in 1 .. Len(labels) : x[0] = 0 /\ labels[m] = 0 => x[1] = values[m]

LEMMA RestIs ==
    ASSUME NEW X, X \subseteq Words, NEW label
    PROVE  Rest(X, label) \subseteq Words /\ (label \in Firsts(X) <=> Rest(X, label) # {})
  <1>1. \A x \in X : x \in Words /\ Drop(x, 1) \in Words
    <2>1. \A x \in Words : Drop(x, 1) \in Words
      BY DropIs
    <2> QED
      BY <2>1
  <1> QED
    BY <1>1 DEF Rest, Firsts

\* The automaton: the words F of each state, those of its root are R.
Langs(d, F, R) ==
    /\ F \in [1 .. Len(d.states) -> SUBSET Words]
    /\ \A s \in 1 .. Len(d.states) : F[s] # {} /\ F[s] = StateWords(d.states[s], F, {})
    /\ Root(d) \in 1 .. Len(d.states) /\ F[Root(d)] = R

LEMMA SaidLangs ==
    ASSUME NEW d, NEW R, Said(d, R), Len(d.levels) = 1, R # {}
    PROVE  \E F : Langs(d, F, R)
  <1>1. PICK F, G : Denotes(d, F, G) /\ Knows(d, F, G, R) /\ OnPath(d)
    BY DEF Said
  <1>2. Langs(d, F, R)
    BY <1>1 DEF Denotes, Knows, Langs
  <1> QED
    BY <1>2

\* The words of a state begin with the labels of its arcs and go on with the words
\* of the states those lead to, or with a value.
StateGoes(arcs, F, X, S) ==
    /\ Firsts(X) = {arcs[m].label : m \in 1 .. Len(arcs)}
    /\ 0 \in Firsts(X) <=> arcs[1].label = 0
    /\ \A m \in 1 .. Len(arcs) :
          IF arcs[m].label = 0 THEN \A x \in X : x[0] = 0 => x[1] = arcs[m].to
          ELSE Rest(X, arcs[m].label) = F[arcs[m].to]

LEMMA StateGoesOn ==
    ASSUME NEW arcs \in Seq(Arc), Len(arcs) >= 1, Rising(arcs), NEW S \in Nat,
           \A m \in 1 .. Len(arcs) :
              /\ arcs[m].label \in 0 .. MaxLabel
              /\ arcs[m].label = 0 => arcs[m].to \in Nat
              /\ arcs[m].label # 0 => arcs[m].to \in 1 .. S,
           NEW F \in [1 .. S -> SUBSET Words], \A s \in 1 .. S : F[s] # {},
           NEW X, X = StateWords(arcs, F, {})
    PROVE  StateGoes(arcs, F, X, S)
  <1>1. \A i, j \in 1 .. Len(arcs) : arcs[i].label = arcs[j].label => i = j
    <2> SUFFICES ASSUME NEW i \in 1 .. Len(arcs), NEW j \in 1 .. Len(arcs),
                        arcs[i].label = arcs[j].label, i # j
                 PROVE  FALSE
      OBVIOUS
    <2>1. (i < j \/ j < i) /\ arcs[i].label \in Nat /\ arcs[j].label \in Nat
      OBVIOUS
    <2> QED
      BY <2>1 DEF Rising
  <1>2. \A x \in X : x \in Words /\ \E m \in 1 .. Len(arcs) :
            x[0] = arcs[m].label /\ Drop(x, 1) \in Beyond(arcs[m], F, {})
    BY DEF StateWords
  <1>3. \A m \in 1 .. Len(arcs) :
            Beyond(arcs[m], F, {}) = IF arcs[m].label = 0 THEN {Const(arcs[m].to)} ELSE F[arcs[m].to]
    <2> SUFFICES ASSUME NEW m \in 1 .. Len(arcs)
                 PROVE  Beyond(arcs[m], F, {}) =
                           IF arcs[m].label = 0 THEN {Const(arcs[m].to)} ELSE F[arcs[m].to]
      OBVIOUS
    <2>1. arcs[m].label # 0 => arcs[m].to # 0
      OBVIOUS
    <2> QED
      BY <2>1 DEF Beyond
  <1>4. ASSUME NEW m \in 1 .. Len(arcs)
        PROVE  /\ Beyond(arcs[m], F, {}) # {} /\ Beyond(arcs[m], F, {}) \subseteq Words
               /\ arcs[m].label \in Nat
    <2>0. arcs[m].label \in Nat
      OBVIOUS
    <2>1. CASE arcs[m].label = 0
      <3>1. Const(arcs[m].to) \in Words
        BY <2>1, ConstIs
      <3>2. Beyond(arcs[m], F, {}) = {Const(arcs[m].to)}
        BY <1>3, <2>1
      <3> QED
        BY <2>0, <3>1, <3>2
    <2>2. CASE arcs[m].label # 0
      <3>1. F[arcs[m].to] # {} /\ F[arcs[m].to] \subseteq Words
        BY <2>2
      <3>2. Beyond(arcs[m], F, {}) = F[arcs[m].to]
        BY <1>3, <2>2
      <3> QED
        BY <2>0, <3>1, <3>2
    <2> QED
      BY <2>1, <2>2
  <1>5. ASSUME NEW m \in 1 .. Len(arcs), NEW y \in Beyond(arcs[m], F, {})
        PROVE  \E x \in X : x[0] = arcs[m].label /\ Drop(x, 1) = y
    <2> DEFINE x == Led(arcs[m].label, y)
    <2>1. y \in Words /\ arcs[m].label \in Nat
      BY <1>4, <1>5
    <2>2. x \in X /\ Drop(x, 1) = y
      <3> DEFINE none == {}
      <3>1. y \in Beyond(arcs[m], F, none) /\ X = StateWords(arcs, F, none)
        BY <1>5
      <3> HIDE DEF none
      <3>2. Led(arcs[m].label, y) \in StateWords(arcs, F, none)
        BY <2>1, <3>1, StateWordsFrom
      <3>3. Drop(Led(arcs[m].label, y), 1) = y
        BY <2>1, LedIs
      <3> QED
        BY <3>1, <3>2, <3>3
    <2>3. x[0] = arcs[m].label
      BY <2>1, LedIs
    <2> QED
      BY <2>2, <2>3
  <1>6. Firsts(X) = {arcs[m].label : m \in 1 .. Len(arcs)}
    <2>1. ASSUME NEW l \in Firsts(X) PROVE l \in {arcs[m].label : m \in 1 .. Len(arcs)}
      BY <1>2, <2>1 DEF Firsts
    <2>2. ASSUME NEW m \in 1 .. Len(arcs) PROVE arcs[m].label \in Firsts(X)
      <3>1. PICK y : y \in Beyond(arcs[m], F, {})
        BY <1>4
      <3> QED
        BY <1>5, <3>1 DEF Firsts
    <2> QED
      BY <2>1, <2>2
  <1>7. 0 \in Firsts(X) <=> arcs[1].label = 0
    <2>1. ASSUME NEW m \in 1 .. Len(arcs), arcs[m].label = 0 PROVE arcs[1].label = 0
      <3>1. CASE m = 1
        BY <2>1, <3>1
      <3>2. CASE m # 1
        <4>1. 1 \in 1 .. Len(arcs) /\ 1 < m
          BY <3>2
        <4>2. arcs[1].label < arcs[m].label
          BY <4>1 DEF Rising
        <4>3. arcs[1].label \in Nat
          BY <4>1
        <4> QED
          BY <2>1, <4>2, <4>3
      <3> QED
        BY <3>1, <3>2
    <2>2. 1 \in 1 .. Len(arcs)
      OBVIOUS
    <2> QED
      BY <1>6, <2>1, <2>2
  <1>8. ASSUME NEW m \in 1 .. Len(arcs), NEW x \in X, x[0] = arcs[m].label
        PROVE  Drop(x, 1) \in Beyond(arcs[m], F, {})
    BY <1>1, <1>2, <1>8
  <1>9. ASSUME NEW m \in 1 .. Len(arcs), arcs[m].label = 0, NEW x \in X, x[0] = 0
        PROVE  x[1] = arcs[m].to
    <2>1. Drop(x, 1) = Const(arcs[m].to)
      BY <1>3, <1>8, <1>9
    <2>2. Drop(x, 1)[0] = x[0 + 1]
      BY <1>2, DropIs
    <2>3. Const(arcs[m].to)[0] = arcs[m].to
      BY <1>9, ConstIs
    <2> QED
      BY <2>1, <2>2, <2>3
  <1>10. ASSUME NEW m \in 1 .. Len(arcs), arcs[m].label # 0
         PROVE  Rest(X, arcs[m].label) = F[arcs[m].to]
    <2>1. Beyond(arcs[m], F, {}) = F[arcs[m].to]
      BY <1>3, <1>10
    <2> QED
      BY <1>5, <1>8, <2>1 DEF Rest
  <1> QED
    BY <1>6, <1>7, <1>9, <1>10 DEF StateGoes

-----------------------------------------------------------------------------
(* A layout: the words B found at each offset.                               *)

Kids(B) == {c \in Nat : \E o \in DOMAIN B : \E l \in Firsts(B[o]) : c = XorOf(o, l)}
Taken(B) == {0} \cup Kids(B)
Based(B) == {0} \cup DOMAIN B

\* Units the children of two offsets have in common there are none.
Apart(B) ==
    \A o, p \in DOMAIN B : \A l \in Firsts(B[o]), k \in Firsts(B[p]) : XorOf(o, l) = XorOf(p, k) => o = p

Layout(B) ==
    /\ DOMAIN B \subseteq 1 .. MaxOffset - 1
    /\ \A o \in DOMAIN B : B[o] \subseteq Words /\ B[o] # {} /\ Firsts(B[o]) \subseteq 0 .. MaxLabel
    /\ 0 \notin Kids(B)
    /\ Apart(B)

\* Words X are looked for at unit u: all at the root, those behind a label at the
\* child with that label.
Stands(B, All, u, X) ==
    \/ u = 0 /\ X = All
    \/ \E o \in DOMAIN B : \E l \in Firsts(B[o]) \ {0} : u = XorOf(o, l) /\ X = Rest(B[o], l)

LEMMA KidIs ==
    ASSUME NEW B, Layout(B), NEW o \in DOMAIN B, NEW l \in Firsts(B[o])
    PROVE  /\ o \in Numbers /\ o \in Nat /\ o < MaxOffset /\ l \in 0 .. MaxLabel /\ l \in Numbers
           /\ XorOf(o, l) \in Kids(B) /\ XorOf(o, l) \in Nat /\ XorOf(o, l) # 0
           /\ XorOf(o, l) \in Numbers /\ XorOf(o, XorOf(o, l)) = l
           /\ Block(XorOf(o, l)) = Block(o)
  <1>1. o \in Numbers /\ o \in Nat /\ o < MaxOffset /\ l \in 0 .. MaxLabel
    BY Sizes DEF Layout, Numbers
  <1>2. l \in Numbers /\ XorOf(o, l) \in Nat /\ Block(XorOf(o, l)) = Block(o)
    BY <1>1, ChildBlock
  <1>3. XorOf(o, l) \in Kids(B)
    BY <1>2 DEF Kids
  <1>4. XorOf(o, l) \in Numbers /\ XorOf(o, XorOf(o, l)) = l
    BY <1>1, <1>2, XorLaws, XorBack
  <1> QED
    BY <1>1, <1>2, <1>3, <1>4 DEF Layout

LEMMA StandsAt ==
    ASSUME NEW B, Layout(B), NEW All, NEW u, NEW X, Stands(B, All, u, X)
    PROVE  /\ u \in Nat /\ u \in Taken(B)
           /\ All \subseteq Words /\ All # {} => X \subseteq Words /\ X # {}
  <1>1. CASE u = 0 /\ X = All
    BY <1>1 DEF Taken
  <1>2. CASE \E o \in DOMAIN B : \E l \in Firsts(B[o]) \ {0} : u = XorOf(o, l) /\ X = Rest(B[o], l)
    <2>1. PICK o, l : o \in DOMAIN B /\ l \in Firsts(B[o]) \ {0} /\ u = XorOf(o, l) /\ X = Rest(B[o], l)
      BY <1>2
    <2>2. u \in Nat /\ u \in Taken(B)
      BY <2>1, KidIs DEF Taken
    <2>3. B[o] \subseteq Words
      BY <2>1 DEF Layout
    <2> DEFINE Y == B[o]
    <2>4. Y \subseteq Words /\ l \in Firsts(Y) /\ X = Rest(Y, l)
      BY <2>1, <2>3
    <2> HIDE DEF Y
    <2>5. X \subseteq Words /\ X # {}
      BY <2>4, RestIs
    <2> QED
      BY <2>2, <2>5
  <1> QED
    BY <1>1, <1>2 DEF Stands

LEMMA StandsOnce ==
    ASSUME NEW B, Layout(B), NEW All, NEW u, NEW X, NEW Y, Stands(B, All, u, X), Stands(B, All, u, Y)
    PROVE  X = Y
  <1>1. CASE u = 0
    <2>1. ASSUME NEW Z, Stands(B, All, u, Z) PROVE Z = All
      <3>1. \A o \in DOMAIN B : \A l \in Firsts(B[o]) \ {0} : XorOf(o, l) # 0
        BY KidIs
      <3> QED
        BY <1>1, <2>1, <3>1 DEF Stands
    <2> QED
      BY <2>1
  <1>2. CASE u # 0
    <2>1. PICK o, l : o \in DOMAIN B /\ l \in Firsts(B[o]) \ {0} /\ u = XorOf(o, l) /\ X = Rest(B[o], l)
      BY <1>2 DEF Stands
    <2>2. PICK p, k : p \in DOMAIN B /\ k \in Firsts(B[p]) \ {0} /\ u = XorOf(p, k) /\ Y = Rest(B[p], k)
      BY <1>2 DEF Stands
    <2>3. o = p
      BY <2>1, <2>2 DEF Layout, Apart
    <2>4. l = k
      <3>1. l \in Firsts(B[o]) /\ k \in Firsts(B[o]) /\ o \in DOMAIN B /\ XorOf(o, l) = XorOf(o, k)
        BY <2>1, <2>2, <2>3
      <3>2. XorOf(o, XorOf(o, l)) = l
        BY <3>1, KidIs
      <3>3. XorOf(o, XorOf(o, k)) = k
        BY <3>1, KidIs
      <3> QED
        BY <3>1, <3>2, <3>3
    <2> QED
      BY <2>1, <2>2, <2>3, <2>4
  <1> QED
    BY <1>1, <1>2

\* One offset more.
More(B, o, X) == [p \in DOMAIN B \cup {o} |-> IF p = o THEN X ELSE B[p]]

MoreLaid(B, C, o, X, All) ==
    /\ Layout(C)
    /\ Taken(C) = Taken(B) \cup {XorOf(o, l) : l \in Firsts(X)} /\ Based(C) = Based(B) \cup {o}
    /\ \A u, Y : Stands(C, All, u, Y) <=>
          \/ Stands(B, All, u, Y)
          \/ \E l \in Firsts(X) \ {0} : u = XorOf(o, l) /\ Y = Rest(X, l)

LEMMA LayoutMore ==
    ASSUME NEW B, Layout(B), NEW o \in 1 .. MaxOffset - 1, o \notin DOMAIN B, NEW All,
           NEW X, X \subseteq Words, X # {}, Firsts(X) \subseteq 0 .. MaxLabel,
           \A l \in Firsts(X) : XorOf(o, l) \notin Taken(B),
           NEW C, C = More(B, o, X)
    PROVE  MoreLaid(B, C, o, X, All)
  <1>1. /\ DOMAIN C = DOMAIN B \cup {o} /\ C[o] = X
        /\ \A p \in DOMAIN B : p \in DOMAIN C /\ C[p] = B[p] /\ p # o
    BY DEF More
  <1>2. o \in Nat /\ o \in Numbers /\ o < MaxOffset
    BY Sizes DEF Numbers
  <1>3. \A l \in Firsts(X) : l \in Numbers /\ XorOf(o, l) \in Nat /\ XorOf(o, l) \notin Kids(B) /\ XorOf(o, l) # 0
    BY <1>2, ChildBlock DEF Taken
  <1>4. Kids(C) = Kids(B) \cup {XorOf(o, l) : l \in Firsts(X)}
    <2>1. ASSUME NEW c \in Kids(C) PROVE c \in Kids(B) \cup {XorOf(o, l) : l \in Firsts(X)}
      <3>1. PICK p, l : p \in DOMAIN C /\ l \in Firsts(C[p]) /\ c = XorOf(p, l)
        BY <2>1 DEF Kids
      <3>2. CASE p = o
        BY <1>1, <3>1, <3>2
      <3>3. CASE p # o
        <4>1. p \in DOMAIN B /\ C[p] = B[p] /\ c \in Nat
          BY <1>1, <3>1, <2>1, <3>3 DEF Kids
        <4> QED
          BY <3>1, <4>1 DEF Kids
      <3> QED
        BY <3>2, <3>3
    <2>2. Kids(B) \subseteq Kids(C)
      BY <1>1 DEF Kids
    <2>3. ASSUME NEW l \in Firsts(X) PROVE XorOf(o, l) \in Kids(C)
      BY <1>1, <1>3 DEF Kids
    <2> QED
      BY <2>1, <2>2, <2>3
  <1>5. Apart(C)
    <2> SUFFICES ASSUME NEW p \in DOMAIN C, NEW q \in DOMAIN C, NEW l \in Firsts(C[p]), NEW k \in Firsts(C[q]),
                        XorOf(p, l) = XorOf(q, k)
                 PROVE  p = q
      BY DEF Apart
    <2>1. CASE p = o /\ q # o
      <3>1. q \in DOMAIN B /\ C[q] = B[q] /\ C[p] = X
        BY <1>1, <2>1
      <3>2. XorOf(q, k) \in Kids(B)
        BY <3>1, KidIs
      <3> QED
        BY <1>3, <2>1, <3>1, <3>2
    <2>2. CASE q = o /\ p # o
      <3>1. p \in DOMAIN B /\ C[p] = B[p] /\ C[q] = X
        BY <1>1, <2>2
      <3>2. XorOf(p, l) \in Kids(B)
        BY <3>1, KidIs
      <3> QED
        BY <1>3, <2>2, <3>1, <3>2
    <2>3. CASE p # o /\ q # o
      <3>1. p \in DOMAIN B /\ C[p] = B[p] /\ q \in DOMAIN B /\ C[q] = B[q]
        BY <1>1, <2>3
      <3> QED
        BY <3>1 DEF Layout, Apart
    <2> QED
      BY <2>1, <2>2, <2>3
  <1>6. Layout(C)
    <2>1. 0 \notin Kids(C)
      BY <1>3, <1>4 DEF Layout
    <2>2. DOMAIN C \subseteq 1 .. MaxOffset - 1
      BY <1>1 DEF Layout
    <2>3. ASSUME NEW p \in DOMAIN C
          PROVE  C[p] \subseteq Words /\ C[p] # {} /\ Firsts(C[p]) \subseteq 0 .. MaxLabel
      <3>1. CASE p = o
        BY <1>1, <3>1
      <3>2. CASE p # o
        BY <1>1, <3>2 DEF Layout
      <3> QED
        BY <3>1, <3>2
    <2> QED
      BY <1>5, <2>1, <2>2, <2>3 DEF Layout
  <1>7. ASSUME NEW u, NEW Y
        PROVE  Stands(C, All, u, Y) <=>
                  \/ Stands(B, All, u, Y)
                  \/ \E l \in Firsts(X) \ {0} : u = XorOf(o, l) /\ Y = Rest(X, l)
    <2>1. ASSUME Stands(C, All, u, Y), ~ (u = 0 /\ Y = All)
          PROVE  \/ Stands(B, All, u, Y)
                 \/ \E l \in Firsts(X) \ {0} : u = XorOf(o, l) /\ Y = Rest(X, l)
      <3>1. PICK p, l : p \in DOMAIN C /\ l \in Firsts(C[p]) \ {0} /\ u = XorOf(p, l) /\ Y = Rest(C[p], l)
        BY <2>1 DEF Stands
      <3>2. CASE p = o
        BY <1>1, <3>1, <3>2
      <3>3. CASE p # o
        <4>1. p \in DOMAIN B /\ C[p] = B[p]
          BY <1>1, <3>1, <3>3
        <4> QED
          BY <3>1, <4>1 DEF Stands
      <3> QED
        BY <3>2, <3>3
    <2>2. ASSUME Stands(B, All, u, Y) PROVE Stands(C, All, u, Y)
      BY <1>1, <2>2 DEF Stands
    <2>3. ASSUME NEW l \in Firsts(X) \ {0}, u = XorOf(o, l), Y = Rest(X, l) PROVE Stands(C, All, u, Y)
      BY <1>1, <2>3 DEF Stands
    <2> QED
      BY <2>1, <2>2, <2>3 DEF Stands
  <1>8. Taken(C) = Taken(B) \cup {XorOf(o, l) : l \in Firsts(X)} /\ Based(C) = Based(B) \cup {o}
    BY <1>1, <1>4 DEF Taken, Based
  <1> QED
    BY <1>6, <1>7, <1>8 DEF MoreLaid

\* No block is without a unit that is free while all of its ids are used.
LEMMA LayoutPlenty ==
    ASSUME NEW B, Layout(B)
    PROVE  Plenty(Taken(B), Based(B))
  <1> SUFFICES ASSUME NEW b \in Nat, Ids(b) \subseteq Based(B) PROVE Ids(b) \subseteq Taken(B)
    BY DEF Plenty
  <1> DEFINE S == Ids(b)
             Kid(o) == XorOf(o, CHOOSE l \in Firsts(B[o]) : TRUE)
             f == [o \in S |-> IF o = 0 THEN 0 ELSE Kid(o)]
  <1>1. \A o \in S : o \in Nat /\ Block(o) = b
    BY BlockIds
  <1>2. \A o \in S : o # 0 => o \in DOMAIN B
    BY DEF Based
  <1>3. ASSUME NEW o \in S, o # 0
        PROVE  \E l \in Firsts(B[o]) : Kid(o) = XorOf(o, l)
    <2>1. B[o] # {}
      BY <1>2, <1>3 DEF Layout
    <2>2. Firsts(B[o]) # {}
      BY <2>1 DEF Firsts
    <2> QED
      BY <2>2
  <1> HIDE DEF Kid
  <1>4. ASSUME NEW o \in S, o # 0
        PROVE  Kid(o) \in S /\ Kid(o) \in Kids(B) /\ Kid(o) # 0
    <2>1. PICK l \in Firsts(B[o]) : Kid(o) = XorOf(o, l)
      BY <1>3, <1>4
    <2>2. o \in DOMAIN B
      BY <1>2, <1>4
    <2>3. Kid(o) \in Kids(B) /\ Kid(o) # 0 /\ Kid(o) \in Nat /\ Block(Kid(o)) = Block(o)
      BY <2>1, <2>2, KidIs
    <2>4. Block(Kid(o)) = b
      BY <1>1, <2>3
    <2> QED
      BY <2>3, <2>4, BlockIds
  <1>5. f \in [S -> S]
    BY <1>4
  <1>6. ASSUME NEW o \in S, NEW p \in S, f[o] = f[p] PROVE o = p
    <2>1. CASE o = 0 \/ p = 0
      <3>1. o # 0 => f[o] # 0
        BY <1>4
      <3>2. p # 0 => f[p] # 0
        BY <1>4
      <3>3. (o = 0 => f[o] = 0) /\ (p = 0 => f[p] = 0)
        OBVIOUS
      <3> QED
        BY <1>6, <2>1, <3>1, <3>2, <3>3
    <2>2. CASE o # 0 /\ p # 0
      <3>1. Kid(o) = Kid(p)
        BY <1>6, <2>2
      <3>2. PICK l \in Firsts(B[o]) : Kid(o) = XorOf(o, l)
        BY <1>3, <2>2
      <3>3. PICK k \in Firsts(B[p]) : Kid(p) = XorOf(p, k)
        BY <1>3, <2>2
      <3>4. o \in DOMAIN B /\ p \in DOMAIN B
        BY <1>2, <2>2
      <3> QED
        BY <3>1, <3>2, <3>3, <3>4 DEF Layout, Apart
    <2> QED
      BY <2>1, <2>2
  <1>7. IsFiniteSet(S)
    <2>1. b * BlockSize \in Int /\ BlockSize \in Int
      BY BlockIds, Sizes
    <2>2. b * BlockSize + BlockSize - 1 \in Int
      BY <2>1
    <2> QED
      BY <2>1, <2>2, FS_Interval DEF Ids
  <1>8. ASSUME NEW u \in S PROVE u \in Taken(B)
    <2>1. \E o \in S : f[o] = u
      <3> HIDE DEF f, S
      <3>1. f \in Injection(S, S)
        BY <1>5, <1>6 DEF Injection, IsInjective
      <3>2. f \in Surjection(S, S)
        BY <1>7, <3>1, FS_Injection
      <3> QED
        BY <1>8, <3>2 DEF Surjection
    <2>2. PICK o \in S : f[o] = u
      BY <2>1
    <2>3. CASE o = 0
      BY <2>2, <2>3 DEF Taken
    <2>4. CASE o # 0
      BY <1>4, <2>2, <2>4 DEF Taken
    <2> QED
      BY <2>3, <2>4
  <1> QED
    BY <1>8

-----------------------------------------------------------------------------
(* An array that draws a layout: what children hold, and where units lead.   *)

\* A unit at which word x begins.
Bears(v, x) == IF x[0] = 0 THEN v.isLeaf /\ v.value = x[1] ELSE ~v.isLeaf /\ v.label = x[0]

\* The children of a unit are at the offset of the words looked for there.
Leads(v, B, u, X) ==
    /\ XorOf(u, v.offset) \in DOMAIN B /\ B[XorOf(u, v.offset)] = X
    /\ v.hasLeaf <=> 0 \in Firsts(X)

\* All but the units of T lead where they are to.
Drawn(a, B, All, T) ==
    /\ a.units[0].label = 0
    /\ \A o \in DOMAIN B : \A x \in B[o] : Bears(a.units[XorOf(o, x[0])], x)
    /\ \A u, X : Stands(B, All, u, X) =>
          IF u \in T THEN ~a.units[u].hasLeaf ELSE Leads(a.units[u], B, u, X)

\* A label for each word.
LEMMA FirstIn == ASSUME NEW X, NEW x \in X PROVE x[0] \in Firsts(X)
  BY DEF Firsts

LEMMA DrawnSame ==
    ASSUME NEW a, NEW e, NEW B, Layout(B), NEW All, NEW T, Drawn(a, B, All, T),
           \A u \in Taken(B) : e.units[u] = a.units[u]
    PROVE  Drawn(e, B, All, T)
  <1>1. e.units[0].label = 0
    BY DEF Drawn, Taken
  <1>2. ASSUME NEW o \in DOMAIN B, NEW x \in B[o] PROVE Bears(e.units[XorOf(o, x[0])], x)
    <2>1. x[0] \in Firsts(B[o])
      BY <1>2, FirstIn
    <2>2. XorOf(o, x[0]) \in Taken(B)
      BY <2>1, KidIs DEF Taken
    <2> QED
      BY <2>2 DEF Drawn
  <1>3. ASSUME NEW u, NEW X, Stands(B, All, u, X)
        PROVE  IF u \in T THEN ~e.units[u].hasLeaf ELSE Leads(e.units[u], B, u, X)
    <2>1. u \in Taken(B)
      BY <1>3, StandsAt
    <2>2. e.units[u] = a.units[u]
      BY <2>1
    <2> QED
      BY <1>3, <2>2 DEF Drawn
  <1> QED
    BY <1>1, <1>2, <1>3 DEF Drawn

\* A unit that refers to where words X are.
Refound(v, w, offset, X) == \E leaf \in BOOLEAN : (leaf <=> 0 \in Firsts(X)) /\ Settled(v, w, offset, leaf)

LEMMA RefoundIs ==
    ASSUME NEW v, NEW w, NEW offset, NEW X, Refound(v, w, offset, X)
    PROVE  /\ w.label = v.label /\ w.isLeaf = v.isLeaf /\ w.value = v.value
           /\ w.offset = offset /\ (w.hasLeaf <=> v.hasLeaf \/ 0 \in Firsts(X))
  BY DEF Refound, Settled

\* One unit of T settles.
LEMMA DrawnReused ==
    ASSUME NEW a, NEW e, NEW B, Layout(B), NEW All, NEW T, Drawn(a, B, All, T),
           NEW id \in T, NEW X, Stands(B, All, id, X), NEW o \in DOMAIN B, B[o] = X,
           id \in Numbers,
           \A u \in Taken(B) : u # id => e.units[u] = a.units[u],
           Refound(a.units[id], e.units[id], XorOf(id, o), X)
    PROVE  Drawn(e, B, All, T \ {id})
  <1>0. /\ e.units[id].label = a.units[id].label /\ e.units[id].isLeaf = a.units[id].isLeaf
        /\ e.units[id].value = a.units[id].value /\ e.units[id].offset = XorOf(id, o)
        /\ (e.units[id].hasLeaf <=> a.units[id].hasLeaf \/ 0 \in Firsts(X))
    BY RefoundIs
  <1>1. e.units[0].label = 0
    BY <1>0 DEF Drawn, Taken
  <1>2. ASSUME NEW p \in DOMAIN B, NEW x \in B[p] PROVE Bears(e.units[XorOf(p, x[0])], x)
    <2>1. x[0] \in Firsts(B[p])
      BY <1>2, FirstIn
    <2>2. XorOf(p, x[0]) \in Taken(B)
      BY <2>1, KidIs DEF Taken
    <2>3. Bears(a.units[XorOf(p, x[0])], x)
      BY DEF Drawn
    <2> DEFINE u == XorOf(p, x[0])
    <2> HIDE DEF u
    <2>4. Bears(a.units[u], x) /\ u \in Taken(B)
      BY <2>2, <2>3 DEF u
    <2>5. Bears(e.units[u], x)
      BY <1>0, <2>4 DEF Bears
    <2> QED
      BY <2>5 DEF u
  <1>3. ASSUME NEW u, NEW Y, Stands(B, All, u, Y)
        PROVE  IF u \in T \ {id} THEN ~e.units[u].hasLeaf ELSE Leads(e.units[u], B, u, Y)
    <2>1. u \in Taken(B)
      BY <1>3, StandsAt
    <2>2. CASE u # id
      <3>1. e.units[u] = a.units[u]
        BY <2>1, <2>2
      <3> QED
        BY <1>3, <2>2, <3>1 DEF Drawn
    <2>3. CASE u = id
      <3>1. Y = X
        BY <1>3, <2>3, StandsOnce
      <3>2. ~a.units[id].hasLeaf
        BY DEF Drawn
      <3>3. o \in Numbers
        BY Sizes DEF Layout, Numbers
      <3>4. XorOf(id, XorOf(id, o)) = o
        BY <3>3, XorBack
      <3>5. e.units[id].offset = XorOf(id, o) /\ (e.units[id].hasLeaf <=> 0 \in Firsts(X))
        BY <1>0, <3>2
      <3>6. Leads(e.units[id], B, id, X)
        BY <3>4, <3>5 DEF Leads
      <3> QED
        BY <2>3, <3>1, <3>6
    <2> QED
      BY <2>2, <2>3
  <1> QED
    BY <1>1, <1>2, <1>3 DEF Drawn

\* One unit of T settles at a new offset, and its children are to settle.
Below(o, X) == {XorOf(o, l) : l \in Firsts(X) \ {0}}

LEMMA DrawnMore ==
    ASSUME NEW a, NEW e, NEW B, Layout(B), NEW All, NEW T, Drawn(a, B, All, T),
           NEW id \in T, NEW X, Stands(B, All, id, X), id \in Numbers,
           NEW o \in Numbers, o \notin DOMAIN B, NEW labels, NEW values, Offers(X, labels, values),
           ArrangedTold(a, e, Taken(B), Based(B), id, o, labels, values),
           NEW C, C = More(B, o, X), MoreLaid(B, C, o, X, All)
    PROVE  /\ Told(e, Lo(e.size), Taken(C), Based(C))
           /\ Drawn(e, C, All, (T \ {id}) \cup Below(o, X))
  <1>1. /\ DOMAIN C = DOMAIN B \cup {o} /\ C[o] = X
        /\ \A p \in DOMAIN B : p \in DOMAIN C /\ C[p] = B[p] /\ p # o
    BY DEF More
  <1>2. /\ Firsts(X) = {labels[m] : m \in 1 .. Len(labels)}
        /\ \A x \in X : \A m \in 1 .. Len(labels) : x[0] = 0 /\ labels[m] = 0 => x[1] = values[m]
    BY DEF Offers
  <1>3. Children(o, labels) = {XorOf(o, l) : l \in Firsts(X)}
    BY <1>2 DEF Children
  <1>4. Told(e, Lo(e.size), Taken(C), Based(C))
    <2>1. Taken(C) = Taken(B) \cup Children(o, labels) /\ Based(C) = Based(B) \cup {o}
      BY <1>3 DEF MoreLaid
    <2> QED
      BY <2>1 DEF ArrangedTold
  <1>5. \A u \in Taken(B) : u # id => e.units[u] = a.units[u]
    BY DEF ArrangedTold
  <1> DEFINE leaf == \E k \in 1 .. Len(labels) : labels[k] = 0
  <1>6. Settled(a.units[id], e.units[id], XorOf(id, o), leaf) /\ (leaf <=> 0 \in Firsts(X))
    BY <1>2 DEF ArrangedTold
  <1> HIDE DEF leaf
  <1>7. \A k \in 1 .. Len(labels) :
           /\ XorOf(o, labels[k]) \notin Taken(B)
           /\ Stood(e.units[XorOf(o, labels[k])], labels[k], values[k])
    BY DEF ArrangedTold
  <1>8. id \in Taken(B)
    BY StandsAt
  <1>9. e.units[0].label = 0
    BY <1>5, <1>6 DEF Drawn, Taken, Settled
  <1>10. ASSUME NEW p \in DOMAIN C, NEW x \in C[p] PROVE Bears(e.units[XorOf(p, x[0])], x)
    <2>1. CASE p \in DOMAIN B
      <3>1. x \in B[p]
        BY <1>1, <1>10, <2>1
      <3>2. x[0] \in Firsts(B[p])
        BY <3>1, FirstIn
      <3> DEFINE u == XorOf(p, x[0])
      <3>3. u \in Taken(B)
        BY <2>1, <3>2, KidIs DEF Taken
      <3>4. Bears(a.units[u], x)
        BY <2>1, <3>1 DEF Drawn
      <3> HIDE DEF u
      <3>5. Bears(e.units[u], x)
        BY <1>5, <1>6, <3>3, <3>4 DEF Bears, Settled
      <3> QED
        BY <3>5 DEF u
    <2>2. CASE p = o
      <3>1. x \in X
        BY <1>1, <1>10, <2>2
      <3>2. x[0] \in Firsts(X)
        BY <3>1, FirstIn
      <3>3. PICK k \in 1 .. Len(labels) : labels[k] = x[0]
        BY <1>2, <3>2
      <3>4. Stood(e.units[XorOf(o, x[0])], x[0], values[k]) /\ (x[0] = 0 => x[1] = values[k])
        BY <1>2, <1>7, <3>1, <3>3
      <3> QED
        BY <2>2, <3>4 DEF Stood, Bears
    <2> QED
      BY <1>1, <2>1, <2>2
  <1> DEFINE U == (T \ {id}) \cup Below(o, X)
  <1>11. ASSUME NEW l \in Firsts(X)
         PROVE  XorOf(o, l) \notin Taken(B) /\ ~e.units[XorOf(o, l)].hasLeaf
    <2>1. PICK k \in 1 .. Len(labels) : labels[k] = l
      BY <1>2, <1>11
    <2> QED
      BY <1>7, <2>1 DEF Stood
  <1>12. ASSUME NEW u, NEW Y, Stands(C, All, u, Y)
         PROVE  IF u \in U THEN ~e.units[u].hasLeaf ELSE Leads(e.units[u], C, u, Y)
    <2>1. CASE Stands(B, All, u, Y)
      <3>1. u \in Taken(B)
        BY <2>1, StandsAt
      <3>2. u \in U <=> u \in T /\ u # id
        BY <1>11, <3>1 DEF Below
      <3>3. CASE u # id
        <4>1. e.units[u] = a.units[u]
          BY <1>5, <3>1, <3>3
        <4>2. IF u \in T THEN ~a.units[u].hasLeaf ELSE Leads(a.units[u], B, u, Y)
          BY <2>1 DEF Drawn
        <4>3. Leads(a.units[u], B, u, Y) => Leads(a.units[u], C, u, Y)
          BY <1>1 DEF Leads
        <4> QED
          BY <3>2, <3>3, <4>1, <4>2, <4>3
      <3>4. CASE u = id
        <4>1. Y = X
          BY <2>1, <3>4, StandsOnce
        <4>2. ~a.units[id].hasLeaf
          BY DEF Drawn
        <4>3. XorOf(id, XorOf(id, o)) = o
          BY XorBack
        <4>4. e.units[id].offset = XorOf(id, o) /\ (e.units[id].hasLeaf <=> leaf)
          BY <1>6, <4>2 DEF Settled
        <4>5. Leads(e.units[id], C, id, X)
          BY <1>1, <1>6, <4>3, <4>4 DEF Leads
        <4> QED
          BY <3>2, <3>4, <4>1, <4>5
      <3> QED
        BY <3>3, <3>4
    <2>2. CASE \E l \in Firsts(X) \ {0} : u = XorOf(o, l) /\ Y = Rest(X, l)
      <3>1. u \in U
        BY <2>2 DEF Below
      <3>2. ~e.units[u].hasLeaf
        BY <1>11, <2>2
      <3> QED
        BY <3>1, <3>2
    <2> QED
      BY <1>12, <2>1, <2>2 DEF MoreLaid
  <1> QED
    BY <1>4, <1>9, <1>10, <1>12 DEF Drawn

\* Before anything is placed but the root.
Nothing == [o \in {} |-> {}]

LEMMA NothingLaid ==
    ASSUME NEW All, NEW e, e.units[0].label = 0, ~e.units[0].hasLeaf
    PROVE  /\ Layout(Nothing) /\ Taken(Nothing) = {0} /\ Based(Nothing) = {0}
           /\ Stands(Nothing, All, 0, All)
           /\ Drawn(e, Nothing, All, {0})
  <1>1. DOMAIN Nothing = {}
    BY DEF Nothing
  <1>2. Kids(Nothing) = {}
    BY <1>1 DEF Kids
  <1>3. Layout(Nothing)
    BY <1>1, <1>2 DEF Layout, Apart
  <1>4. \A u, X : Stands(Nothing, All, u, X) <=> u = 0 /\ X = All
    BY <1>1 DEF Stands
  <1>5. Taken(Nothing) = {0} /\ Based(Nothing) = {0}
    BY <1>1, <1>2 DEF Taken, Based
  <1>6. Drawn(e, Nothing, All, {0})
    BY <1>1, <1>4 DEF Drawn
  <1> QED
    BY <1>3, <1>4, <1>5, <1>6

-----------------------------------------------------------------------------
(* A search in an array that draws a layout.                                 *)

\* Where a search at unit u is after a label.
Onto(a, u, label) == XorOf(u, XorOf(a.units[u].offset, label))
Hop(a, u, label) ==
    LET id == Onto(a, u, label)
    IN  IF a.units[id].isLeaf \/ a.units[id].label # label THEN Miss ELSE id

Finished(a, B, All) ==
    /\ Layout(B) /\ All \subseteq Words /\ All # {}
    /\ Told(a, a.size, Taken(B), Based(B)) /\ Drawn(a, B, All, {})

\* Where the search is after a label some word has, and that it misses any other.
HopFinds(a, B, All, u, X, label) ==
    /\ Onto(a, u, label) < a.size
    /\ Hop(a, u, label) # Miss <=> label \in Firsts(X)
    /\ label \in Firsts(X) => Stands(B, All, Hop(a, u, label), Rest(X, label))

LEMMA HopIs ==
    ASSUME NEW a, NEW B, NEW All, Finished(a, B, All), NEW u, NEW X, Stands(B, All, u, X),
           NEW label \in 1 .. MaxLabel
    PROVE  HopFinds(a, B, All, u, X, label)
  <1> DEFINE o == XorOf(u, a.units[u].offset)
             v == XorOf(o, label)
             K == Taken(B)
             P == Based(B)
  <1>1. /\ Layout(B) /\ ArrayOK(a) /\ a.size \in Nat /\ a.size <= MaxOffset
        /\ a.size % BlockSize = 0 /\ K \subseteq 0 .. a.size - 1 /\ P \subseteq 0 .. a.size - 1
        /\ \A w \in 0 .. a.size - 1 : w \in K \/ Filler(a, P, w)
    BY DEF Finished, Told, ArrayOK
  <1>2. u \in 0 .. a.size - 1 /\ u \in Numbers /\ u \in Nat
    <2>1. u \in K
      BY <1>1, StandsAt
    <2> QED
      BY <1>1, <2>1, Sizes DEF Numbers
  <1>3. a.units[u].offset \in Numbers
    <2>1. a.units[u] \in Units
      BY <1>1, <1>2 DEF ArrayOK
    <2>2. a.units[u].offset \in 0 .. MaxOffset - 1
      BY <2>1 DEF Units
    <2> QED
      BY <2>2, Sizes DEF Numbers
  <1>4. Leads(a.units[u], B, u, X)
    BY DEF Finished, Drawn
  <1>5. o \in DOMAIN B /\ B[o] = X
    BY <1>4 DEF Leads
  <1>6. o \in 0 .. a.size - 1 /\ o \in Numbers /\ o \in Nat /\ o # 0
    <2>1. o \in P
      BY <1>5 DEF Based
    <2>2. o \in 1 .. MaxOffset - 1
      BY <1>1, <1>5 DEF Layout
    <2> QED
      BY <1>1, <2>1, <2>2, Sizes DEF Numbers
  <1>7. label \in 0 .. MaxLabel /\ label \in Nat /\ label # 0 /\ label \in Numbers
    <2>1. label \in 0 .. MaxLabel
      BY Sizes
    <2> QED
      BY <1>6, <2>1, ChildBlock
  <1>8. Onto(a, u, label) = v
    <2>1. \A z \in Numbers : XorOf(XorOf(u, a.units[u].offset), z) = XorOf(u, XorOf(a.units[u].offset, z))
      BY <1>2, <1>3, XorLaws
    <2> QED
      BY <1>7, <2>1 DEF Onto
  <1> HIDE DEF o
  <1>9. v \in Nat /\ Block(v) = Block(o) /\ v < a.size /\ v \in Numbers
    <2>1. v \in Nat /\ Block(v) = Block(o) /\ v \in Numbers
      BY <1>6, <1>7, ChildBlock, XorLaws
    <2>2. o < a.size
      BY <1>1, <1>6
    <2> HIDE DEF v
    <2> QED
      BY <1>1, <1>6, <2>1, <2>2, SameBlock
  <1> DEFINE w == a.units[v]
  <1>10. Hop(a, u, label) = IF w.isLeaf \/ w.label # label THEN Miss ELSE v
    BY <1>8 DEF Hop
  <1>11. ASSUME label \in Firsts(X)
         PROVE  Hop(a, u, label) = v /\ Stands(B, All, v, Rest(X, label))
    <2>1. PICK x \in X : x[0] = label
      BY <1>11 DEF Firsts
    <2>2. Bears(a.units[XorOf(o, x[0])], x)
      BY <1>5 DEF Finished, Drawn
    <2>3. ~w.isLeaf /\ w.label = label
      BY <1>7, <2>1, <2>2 DEF Bears
    <2>4. Stands(B, All, v, Rest(X, label))
      BY <1>5, <1>7, <1>11 DEF Stands
    <2> QED
      BY <1>10, <2>3, <2>4
  <1>12. ASSUME label \notin Firsts(X), ~w.isLeaf, w.label = label PROVE FALSE
    <2>1. v # 0
      BY <1>7, <1>12 DEF Finished, Drawn
    <2>2. CASE v \in Kids(B)
      <3>1. PICK p, k : p \in DOMAIN B /\ k \in Firsts(B[p]) /\ v = XorOf(p, k)
        BY <2>2 DEF Kids
      <3>2. PICK x \in B[p] : x[0] = k
        BY <3>1 DEF Firsts
      <3>3. Bears(a.units[XorOf(p, x[0])], x)
        BY <3>1 DEF Finished, Drawn
      <3>4. Bears(w, x)
        BY <3>1, <3>2, <3>3
      <3>5. k = label
        BY <1>12, <3>2, <3>4 DEF Bears
      <3>6. p \in Numbers
        BY <1>1, <3>1, KidIs
      <3>7. p = o
        <4>1. XorOf(p, label) = XorOf(o, label)
          BY <3>1, <3>5
        <4>2. XorOf(p, label) = XorOf(label, p) /\ XorOf(o, label) = XorOf(label, o)
          BY <1>6, <1>7, <3>6, XorLaws
        <4>3. XorOf(label, XorOf(label, p)) = p
          BY <1>7, <3>6, XorBack
        <4>4. XorOf(label, XorOf(label, o)) = o
          BY <1>6, <1>7, XorBack
        <4> QED
          BY <4>1, <4>2, <4>3, <4>4
      <3> QED
        BY <1>5, <1>12, <3>1, <3>5, <3>7
    <2>3. CASE v \notin Kids(B)
      <3>1. v \notin K
        BY <2>1, <2>3 DEF Taken
      <3>2. Filler(a, P, v)
        BY <1>1, <1>9, <3>1
      <3>3. PICK z \in 0 .. a.size - 1 : z \notin P /\ w.label = XorOf(v, z)
        BY <3>2 DEF Filler
      <3>4. z \in Numbers
        BY <1>1, Sizes DEF Numbers
      <3>5. z = o
        <4>1. XorOf(v, XorOf(v, z)) = z
          BY <1>9, <3>4, XorBack
        <4>2. XorOf(v, label) = z
          BY <1>12, <3>3, <4>1
        <4>3. XorOf(label, XorOf(label, o)) = o
          BY <1>6, <1>7, XorBack
        <4>4. XorOf(o, label) = XorOf(label, o)
          BY <1>6, <1>7, XorLaws
        <4>5. XorOf(v, label) = XorOf(label, v)
          BY <1>7, <1>9, XorLaws
        <4> QED
          BY <4>2, <4>3, <4>4, <4>5
      <3> QED
        BY <1>5, <3>3, <3>5 DEF Based
    <2> QED
      BY <2>2, <2>3
  <1>13. v # Miss
    BY <1>9 DEF Miss
  <1> HIDE DEF v, w
  <1>14. label \notin Firsts(X) => Hop(a, u, label) = Miss
    BY <1>10, <1>12
  <1> QED
    BY <1>8, <1>9, <1>11, <1>13, <1>14 DEF HopFinds

\* What a search finds at a unit: the value of the word that ends.
LEMMA LeafIs ==
    ASSUME NEW a, NEW B, NEW All, Finished(a, B, All), NEW u, NEW X, Stands(B, All, u, X)
    PROVE  /\ u # Miss
           /\ a.units[u].hasLeaf <=> 0 \in Firsts(X)
           /\ \A x \in X : x[0] = 0 => a.units[XorOf(u, a.units[u].offset)].value = x[1]
  <1>1. Leads(a.units[u], B, u, X) /\ Layout(B)
    BY DEF Finished, Drawn
  <1>2. u \in Nat
    BY <1>1, StandsAt
  <1> DEFINE o == XorOf(u, a.units[u].offset)
  <1>3. o \in DOMAIN B /\ B[o] = X
    BY <1>1 DEF Leads
  <1> HIDE DEF o
  <1>4. ASSUME NEW x \in X, x[0] = 0 PROVE a.units[o].value = x[1]
    <2>1. Bears(a.units[XorOf(o, x[0])], x)
      BY <1>3 DEF Finished, Drawn
    <2>2. o \in Numbers
      BY <1>1, <1>3, Sizes DEF Layout, Numbers
    <2>3. XorOf(o, 0) = o
      BY <2>2, XorLaws
    <2> QED
      BY <1>4, <2>1, <2>3 DEF Bears
  <1> QED
    BY <1>1, <1>2, <1>4 DEF Leads, Miss, o

-----------------------------------------------------------------------------
PathTo(f, k, N) ==
    f = [m \in 0 .. N |->
            IF m = 0 THEN 0 ELSE
            IF f[m - 1] = Miss THEN Miss ELSE
            LET id == XorOf(f[m - 1], XorOf(array.units[f[m - 1]].offset, k[m]))
            IN  IF array.units[id].isLeaf \/ array.units[id].label # k[m] THEN Miss ELSE id]

LEMMA PathExists == ASSUME NEW k, NEW N \in Nat PROVE \E f : PathTo(f, k, N)
  <1> DEFINE T == {M \in Nat : \E f : PathTo(f, k, M)}
             At(was, m) ==
                IF was = Miss THEN Miss ELSE
                LET id == XorOf(was, XorOf(array.units[was].offset, k[m]))
                IN  IF array.units[id].isLeaf \/ array.units[id].label # k[m] THEN Miss ELSE id
  <1>0. \A f, M : PathTo(f, k, M) <=> f = [m \in 0 .. M |-> IF m = 0 THEN 0 ELSE At(f[m - 1], m)]
    BY DEF PathTo
  <1> HIDE DEF At
  <1>1. 0 \in T
    <2> DEFINE f == [m \in 0 .. 0 |-> 0]
    <2>1. f = [m \in 0 .. 0 |-> IF m = 0 THEN 0 ELSE At(f[m - 1], m)]
      OBVIOUS
    <2> QED
      BY <1>0, <2>1
  <1>2. ASSUME NEW M \in 0 .. N - 1, M \in T PROVE M + 1 \in T
    <2>1. PICK f : f = [m \in 0 .. M |-> IF m = 0 THEN 0 ELSE At(f[m - 1], m)]
      BY <1>0, <1>2
    <2> DEFINE g == [m \in 0 .. M + 1 |-> IF m = 0 THEN 0 ELSE At(f[m - 1], m)]
    <2>2. \A m \in 0 .. M : f[m] = g[m]
      BY <2>1
    <2>3. \A m \in 0 .. M + 1 : m # 0 => m - 1 \in 0 .. M
      OBVIOUS
    <2>4. \A m \in 0 .. M + 1 : g[m] = IF m = 0 THEN 0 ELSE At(g[m - 1], m)
      BY <2>2, <2>3
    <2>5. PathTo(g, k, M + 1)
      <3>1. g = [m \in 0 .. M + 1 |-> g[m]]
        OBVIOUS
      <3> HIDE DEF g
      <3>2. g = [m \in 0 .. M + 1 |-> IF m = 0 THEN 0 ELSE At(g[m - 1], m)]
        BY <2>4, <3>1
      <3> QED
        BY <1>0, <3>2
    <2> QED
      BY <2>5
  <1> HIDE DEF T
  <1>3. N \in T
    BY <1>1, <1>2, UpTo
  <1> QED
    BY <1>3 DEF T

LEMMA PathSteps ==
    ASSUME NEW k, Len(k) \in Nat
    PROVE  /\ Path(k)[0] = 0
           /\ \A m \in 1 .. Len(k) :
                 Path(k)[m] = IF Path(k)[m - 1] = Miss THEN Miss ELSE Hop(array, Path(k)[m - 1], k[m])
  <1>1. PathTo(Path(k), k, Len(k))
    <2>1. \E f : PathTo(f, k, Len(k))
      BY PathExists
    <2> QED
      BY <2>1 DEF Path, PathTo
  <1> DEFINE p == Path(k)
  <1> HIDE DEF p
  <1>2. p = [m \in 0 .. Len(k) |->
                IF m = 0 THEN 0 ELSE IF p[m - 1] = Miss THEN Miss ELSE Hop(array, p[m - 1], k[m])]
    BY <1>1 DEF PathTo, Hop, Onto, p
  <1>3. p[0] = 0
    BY <1>2
  <1>4. ASSUME NEW m \in 1 .. Len(k)
        PROVE  p[m] = IF p[m - 1] = Miss THEN Miss ELSE Hop(array, p[m - 1], k[m])
    <2>1. m \in 0 .. Len(k) /\ m # 0
      OBVIOUS
    <2> QED
      BY <1>2, <2>1
  <1> QED
    BY <1>3, <1>4 DEF p

\* The words that begin with the first labels of k, without those.
Passing(All, k, m) == {Drop(x, m) : x \in {y \in All : \A i \in 0 .. m - 1 : y[i] = k[i + 1]}}

LEMMA PassingMore ==
    ASSUME NEW All, All \subseteq Words, NEW k
    PROVE  /\ Passing(All, k, 0) = All
           /\ \A m \in Nat : Passing(All, k, m) \subseteq Words
           /\ \A m \in Nat : Passing(All, k, m + 1) = Rest(Passing(All, k, m), k[m + 1])
  <1>1. \A x \in All : x \in Words /\ Drop(x, 0) = x
    <2>1. \A x \in Words : Drop(x, 0) = x
      BY DropIs
    <2> QED
      BY <2>1
  <1>2. Passing(All, k, 0) = All
    <2>1. \A y \in All : \A i \in 0 .. 0 - 1 : y[i] = k[i + 1]
      OBVIOUS
    <2> QED
      BY <1>1, <2>1 DEF Passing
  <1>3. \A m \in Nat : Passing(All, k, m) \subseteq Words
    <2>1. \A x \in Words : \A m \in Nat : Drop(x, m) \in Words
      BY DropIs
    <2> QED
      BY <1>1, <2>1 DEF Passing
  <1>4. ASSUME NEW m \in Nat PROVE Passing(All, k, m + 1) = Rest(Passing(All, k, m), k[m + 1])
    <2>1. \A x \in All : Drop(x, m)[0] = x[m] /\ Drop(Drop(x, m), 1) = Drop(x, m + 1)
      <3>1. \A x \in Words : \A i \in Nat : Drop(x, m)[i] = x[i + m]
        BY DropIs
      <3>2. \A x \in Words : \A i \in Nat : Drop(Drop(x, m), i) = Drop(x, m + i)
        BY DropIs
      <3>3. 0 + m = m /\ 0 \in Nat /\ 1 \in Nat
        OBVIOUS
      <3> QED
        BY <1>1, <3>1, <3>2, <3>3
    <2>2. \A x \in All : /\ \A i \in 0 .. m - 1 : x[i] = k[i + 1]
                         /\ x[m] = k[m + 1]
                         <=> \A i \in 0 .. (m + 1) - 1 : x[i] = k[i + 1]
      <3>1. \A i \in 0 .. (m + 1) - 1 : i \in 0 .. m - 1 \/ i = m
        OBVIOUS
      <3>2. m \in 0 .. (m + 1) - 1 /\ \A i \in 0 .. m - 1 : i \in 0 .. (m + 1) - 1
        OBVIOUS
      <3> QED
        BY <3>1, <3>2
    <2>3. ASSUME NEW y \in Passing(All, k, m + 1) PROVE y \in Rest(Passing(All, k, m), k[m + 1])
      <3>1. PICK x \in All : y = Drop(x, m + 1) /\ \A i \in 0 .. (m + 1) - 1 : x[i] = k[i + 1]
        BY <2>3 DEF Passing
      <3>2. Drop(x, m) \in Passing(All, k, m) /\ Drop(x, m)[0] = k[m + 1] /\ y = Drop(Drop(x, m), 1)
        BY <2>1, <2>2, <3>1 DEF Passing
      <3> QED
        BY <3>2 DEF Rest
    <2>4. ASSUME NEW y \in Rest(Passing(All, k, m), k[m + 1]) PROVE y \in Passing(All, k, m + 1)
      <3>1. PICK z \in Passing(All, k, m) : z[0] = k[m + 1] /\ y = Drop(z, 1)
        BY <2>4 DEF Rest
      <3>2. PICK x \in All : z = Drop(x, m) /\ \A i \in 0 .. m - 1 : x[i] = k[i + 1]
        BY <3>1 DEF Passing
      <3>3. y = Drop(x, m + 1) /\ \A i \in 0 .. (m + 1) - 1 : x[i] = k[i + 1]
        BY <2>1, <2>2, <3>1, <3>2
      <3> QED
        BY <3>3 DEF Passing
    <2> QED
      BY <2>3, <2>4
  <1> QED
    BY <1>2, <1>3, <1>4

LEMMA StringIs ==
    ASSUME NEW k \in Seq(1 .. MaxLabel)
    PROVE  Len(k) \in Nat /\ \A m \in 1 .. Len(k) : k[m] \in 1 .. MaxLabel
  <1> DEFINE Labels == 1 .. MaxLabel
  <1>1. k \in Seq(Labels)
    OBVIOUS
  <1> HIDE DEF Labels
  <1>2. Len(k) \in Nat /\ \A m \in 1 .. Len(k) : k[m] \in Labels
    BY <1>1
  <1> QED
    BY <1>2 DEF Labels

\* Where a search is, are the words that begin as it did; if there are none it missed.
Found(B, All, k, m) ==
    IF Passing(All, k, m) = {} THEN Path(k)[m] = Miss
    ELSE Path(k)[m] # Miss /\ Stands(B, All, Path(k)[m], Passing(All, k, m))

LEMMA PathFinds ==
    ASSUME NEW B, NEW All, Finished(array, B, All), NEW k \in Seq(1 .. MaxLabel)
    PROVE  \A m \in 0 .. Len(k) : Found(B, All, k, m)
  <1> DEFINE p == Path(k)
             N == Len(k)
             X(m) == Passing(All, k, m)
             T == {m \in 0 .. N : Found(B, All, k, m)}
  <1>1. N \in Nat /\ \A m \in 1 .. N : k[m] \in 1 .. MaxLabel
    BY StringIs
  <1>2. p[0] = 0 /\ \A m \in 1 .. N : p[m] = IF p[m - 1] = Miss THEN Miss ELSE Hop(array, p[m - 1], k[m])
    BY <1>1, PathSteps
  <1>3. All \subseteq Words /\ All # {} /\ Layout(B)
    BY DEF Finished
  <1>4. X(0) = All /\ \A m \in Nat : X(m) \subseteq Words /\ X(m + 1) = Rest(X(m), k[m + 1])
    BY <1>3, PassingMore
  <1> HIDE DEF p, N, X
  <1>5. 0 \in T
    <2>1. Stands(B, All, p[0], X(0)) /\ p[0] # Miss
      BY <1>2, <1>4 DEF Stands, Miss
    <2> QED
      BY <1>1, <1>3, <1>4, <2>1 DEF Found, X, p
  <1>6. ASSUME NEW m \in 0 .. N - 1, m \in T PROVE m + 1 \in T
    <2> DEFINE l == k[m + 1]
               Y == X(m)
               Z == X(m + 1)
               u == p[m]
    <2>1. /\ m \in Nat /\ m + 1 \in 0 .. N /\ m + 1 \in 1 .. N /\ (m + 1) - 1 = m
          /\ l \in 1 .. MaxLabel /\ Z = Rest(Y, l) /\ Y \subseteq Words
      <3>1. m \in Nat /\ m + 1 \in 0 .. N /\ m + 1 \in 1 .. N /\ (m + 1) - 1 = m
        BY <1>1
      <3>2. l \in 1 .. MaxLabel
        BY <1>1, <3>1
      <3>3. Z = Rest(Y, l) /\ Y \subseteq Words
        BY <1>4, <3>1
      <3> QED
        BY <3>1, <3>2, <3>3
    <2>2. p[m + 1] = IF u = Miss THEN Miss ELSE Hop(array, u, l)
      BY <1>2, <2>1
    <2>3. IF Y = {} THEN u = Miss ELSE u # Miss /\ Stands(B, All, u, Y)
      BY <1>6 DEF Found, X, p
    <2> HIDE DEF l, Y, Z, u
    <2>4. l \in Firsts(Y) <=> Z # {}
      BY <2>1, RestIs
    <2>5. CASE Y = {}
      <3>1. Firsts(Y) = {}
        BY <2>5 DEF Firsts
      <3>2. Z = {} /\ p[m + 1] = Miss
        BY <2>2, <2>3, <2>4, <2>5, <3>1
      <3> QED
        BY <2>1, <3>2 DEF Found, Z, X, p
    <2>6. CASE Y # {}
      <3>1. HopFinds(array, B, All, u, Y, l)
        BY <2>1, <2>3, <2>6, HopIs
      <3>2. p[m + 1] = Hop(array, u, l)
        BY <2>2, <2>3, <2>6
      <3>3. IF Z = {} THEN p[m + 1] = Miss ELSE p[m + 1] # Miss /\ Stands(B, All, p[m + 1], Z)
        BY <2>1, <2>4, <3>1, <3>2 DEF HopFinds
      <3> QED
        BY <2>1, <3>3 DEF Found, Z, X, p
    <2> QED
      BY <2>5, <2>6
  <1> HIDE DEF T
  <1>7. \A m \in 0 .. N : m \in T
    BY <1>1, <1>5, <1>6, UpTo
  <1> QED
    BY <1>7 DEF T, N

\* A search leaves the array at no step.
LEMMA PathStays ==
    ASSUME NEW B, NEW All, Finished(array, B, All), NEW k \in Seq(1 .. MaxLabel),
           NEW m \in 0 .. Len(k) - 1, Path(k)[m] # Miss
    PROVE  XorOf(Path(k)[m], XorOf(array.units[Path(k)[m]].offset, k[m + 1])) < array.size
  <1>1. Len(k) \in Nat /\ m \in 0 .. Len(k) /\ k[m + 1] \in 1 .. MaxLabel
    <2>1. Len(k) \in Nat
      BY StringIs
    <2>2. m \in 0 .. Len(k) /\ m + 1 \in 1 .. Len(k)
      BY <2>1
    <2> QED
      BY <2>1, <2>2, StringIs
  <1>2. Stands(B, All, Path(k)[m], Passing(All, k, m))
    BY <1>1, PathFinds DEF Found
  <1> DEFINE u == Path(k)[m]
             X == Passing(All, k, m)
             l == k[m + 1]
  <1>3. Stands(B, All, u, X) /\ l \in 1 .. MaxLabel
    BY <1>1, <1>2
  <1> HIDE DEF u, X, l
  <1>4. HopFinds(array, B, All, u, X, l)
    BY <1>3, HopIs
  <1> QED
    BY <1>4 DEF HopFinds, Onto, u, l

-----------------------------------------------------------------------------
(* What the keys say of a string.                                            *)

\* Key q begins with the first m labels of k.
Starts(q, k, m) == m <= Len(q) /\ \A i \in 1 .. m : q[i] = k[i]

LEMMA BeginIs ==
    ASSUME NEW k \in Seq(1 .. MaxLabel), NEW m \in 0 .. Len(k)
    PROVE  /\ SubSeq(k, 1, m) \in Seq(1 .. MaxLabel) /\ Len(SubSeq(k, 1, m)) = m
           /\ \A i \in 1 .. m : SubSeq(k, 1, m)[i] = k[i]
  <1>1. Len(k) \in Nat /\ \A i \in 1 .. Len(k) : k[i] \in 1 .. MaxLabel
    BY StringIs
  <1> DEFINE Labels == 1 .. MaxLabel
  <1>2. m \in Int /\ 1 \in Int /\ \A i \in 1 .. m : k[i] \in Labels
    BY <1>1
  <1> HIDE DEF Labels
  <1>3. /\ SubSeq(k, 1, m) \in Seq(Labels)
        /\ Len(SubSeq(k, 1, m)) = IF 1 <= m THEN m - 1 + 1 ELSE 0
        /\ \A i \in 1 .. m - 1 + 1 : SubSeq(k, 1, m)[i] = k[1 + i - 1]
    BY <1>2, SubSeqProperties
  <1> DEFINE s == SubSeq(k, 1, m)
  <1> HIDE DEF s
  <1>4. Len(s) = m /\ \A i \in 1 .. m : s[i] = k[i]
    <2>1. Len(s) = IF 1 <= m THEN m - 1 + 1 ELSE 0
      BY <1>3 DEF s
    <2>2. m - 1 + 1 = m /\ m \in Nat
      BY <1>1
    <2>3. \A i \in 1 .. m : s[i] = k[1 + i - 1]
      BY <1>3, <2>2 DEF s
    <2>4. \A i \in 1 .. m : 1 + i - 1 = i
      BY <2>2
    <2> QED
      BY <2>1, <2>2, <2>3, <2>4
  <1> QED
    BY <1>3, <1>4 DEF s, Labels

LEMMA SameString ==
    ASSUME NEW s \in Seq(1 .. MaxLabel), NEW t \in Seq(1 .. MaxLabel), Len(s) = Len(t),
           \A i \in 1 .. Len(s) : s[i] = t[i]
    PROVE  s = t
  <1> DEFINE Labels == 1 .. MaxLabel
  <1>1. s \in Seq(Labels) /\ t \in Seq(Labels)
    OBVIOUS
  <1> HIDE DEF Labels
  <1> QED
    BY <1>1, SeqEqual

LEMMA PrefixStarts ==
    ASSUME NEW k \in Seq(1 .. MaxLabel), NEW m \in 0 .. Len(k), NEW q \in Seq(1 .. MaxLabel),
           NEW s, s = SubSeq(k, 1, m)
    PROVE  /\ IsPrefix(s, q) <=> Starts(q, k, m)
           /\ q = s <=> Starts(q, k, m) /\ Len(q) = m
  <1>1. s \in Seq(1 .. MaxLabel) /\ Len(s) = m /\ \A i \in 1 .. m : s[i] = k[i]
    BY BeginIs
  <1>2. Len(k) \in Nat /\ Len(q) \in Nat
    BY StringIs
  <1>3. q = s <=> Starts(q, k, m) /\ Len(q) = m
    <2>1. ASSUME Starts(q, k, m), Len(q) = m PROVE q = s
      <3>1. Len(q) = Len(s) /\ \A i \in 1 .. Len(q) : q[i] = s[i]
        BY <1>1, <2>1 DEF Starts
      <3> QED
        BY <1>1, <3>1, SameString
    <2>2. ASSUME q = s PROVE Starts(q, k, m) /\ Len(q) = m
      BY <1>1, <1>2, <2>2 DEF Starts
    <2> QED
      BY <2>1, <2>2
  <1>4. IsPrefix(s, q) <=> Starts(q, k, m)
    <2>1. IsPrefix(s, q) <=> m <= Len(q) /\ SubSeq(s, 1, m) = SubSeq(q, 1, m)
      BY <1>1 DEF IsPrefix
    <2>2. ASSUME m <= Len(q)
          PROVE  SubSeq(s, 1, m) = SubSeq(q, 1, m) <=> \A i \in 1 .. m : q[i] = k[i]
      <3> DEFINE a == SubSeq(s, 1, m)
                 b == SubSeq(q, 1, m)
      <3>0. m \in 0 .. Len(s) /\ m \in 0 .. Len(q)
        BY <1>1, <1>2, <2>2
      <3>1. a \in Seq(1 .. MaxLabel) /\ Len(a) = m /\ \A i \in 1 .. m : a[i] = s[i]
        BY <1>1, <3>0, BeginIs
      <3>2. b \in Seq(1 .. MaxLabel) /\ Len(b) = m /\ \A i \in 1 .. m : b[i] = q[i]
        BY <3>0, BeginIs
      <3> HIDE DEF a, b
      <3>3. (\A i \in 1 .. m : a[i] = b[i]) => a = b
        BY <3>1, <3>2, SameString
      <3>4. a = b <=> \A i \in 1 .. m : a[i] = b[i]
        BY <3>3
      <3>5. (\A i \in 1 .. m : a[i] = b[i]) <=> \A i \in 1 .. m : q[i] = k[i]
        BY <1>1, <3>1, <3>2
      <3>6. a = b <=> \A i \in 1 .. m : q[i] = k[i]
        BY <3>4, <3>5
      <3> QED
        BY <3>6 DEF a, b
    <2> QED
      BY <2>1, <2>2 DEF Starts
  <1> QED
    BY <1>3, <1>4

WordBegins(q, v, w, k, m) ==
    /\ (\A i \in 0 .. m - 1 : w[i] = k[i + 1]) <=> Starts(q, k, m)
    /\ Starts(q, k, m) => (w[m] = 0 <=> Len(q) = m)
    /\ Len(q) = m => w[m + 1] = v

LEMMA WordStarts ==
    ASSUME NEW q \in Seq(1 .. MaxLabel), NEW v \in Nat, NEW w, w = KeyWord(q, v),
           NEW k \in Seq(1 .. MaxLabel), NEW m \in 0 .. Len(k)
    PROVE  WordBegins(q, v, w, k, m)
  <1>1. Len(k) \in Nat /\ \A i \in 1 .. Len(k) : k[i] \in 1 .. MaxLabel
    BY StringIs
  <1>2. Len(q) \in Nat /\ m \in Nat
    BY <1>1, StringIs
  <1>3. \A i \in 0 .. Len(q) : w[i] = LabelAt(q, i + 1) /\ (w[i] = 0 <=> i = Len(q))
    BY KeyWordIs
  <1>4. w[Len(q) + 1] = v
    BY KeyWordIs
  <1>5. \A i \in 1 .. Len(q) : w[i - 1] = q[i]
    <2> TAKE i \in 1 .. Len(q)
    <2>1. i - 1 \in 0 .. Len(q) /\ (i - 1) + 1 = i /\ i <= Len(q)
      BY <1>2
    <2>2. w[i - 1] = LabelAt(q, i)
      BY <1>3, <2>1
    <2> QED
      BY <2>1, <2>2 DEF LabelAt, Read
  <1>6. ASSUME \A i \in 0 .. m - 1 : w[i] = k[i + 1] PROVE Starts(q, k, m)
    <2>1. m <= Len(q)
      <3> SUFFICES ASSUME Len(q) < m PROVE FALSE
        BY <1>2
      <3>1. Len(q) \in 0 .. m - 1 /\ Len(q) \in 0 .. Len(q) /\ Len(q) + 1 \in 1 .. Len(k)
        BY <1>1, <1>2
      <3>2. w[Len(q)] = 0 /\ w[Len(q)] = k[Len(q) + 1]
        BY <1>3, <1>6, <3>1
      <3>3. k[Len(q) + 1] \in 1 .. MaxLabel
        BY <1>1, <3>1
      <3> QED
        BY <3>2, <3>3
    <2>2. \A i \in 1 .. m : q[i] = k[i]
      <3> TAKE i \in 1 .. m
      <3>1. i - 1 \in 0 .. m - 1 /\ (i - 1) + 1 = i /\ i \in 1 .. Len(q)
        BY <1>2, <2>1
      <3> QED
        BY <1>5, <1>6, <3>1
    <2> QED
      BY <2>1, <2>2 DEF Starts
  <1>7. ASSUME Starts(q, k, m) PROVE \A i \in 0 .. m - 1 : w[i] = k[i + 1]
    <2> TAKE i \in 0 .. m - 1
    <2>1. i + 1 \in 1 .. m /\ (i + 1) - 1 = i /\ i + 1 \in 1 .. Len(q)
      BY <1>2, <1>7 DEF Starts
    <2>2. w[(i + 1) - 1] = q[i + 1] /\ q[i + 1] = k[i + 1]
      BY <1>5, <1>7, <2>1 DEF Starts
    <2> QED
      BY <2>1, <2>2
  <1>8. Starts(q, k, m) => (w[m] = 0 <=> Len(q) = m)
    BY <1>2, <1>3 DEF Starts
  <1>9. Len(q) = m => w[m + 1] = v
    BY <1>4
  <1> QED
    BY <1>6, <1>7, <1>8, <1>9 DEF WordBegins

\* What is known of the input of a dictionary that was built: its values are none below 0.
InputKnown == input \in Inputs /\ \A m \in 1 .. Len(input.keys) : Value(m) \in Nat

LEMMA KnownIs ==
    ASSUME InputKnown, NEW All, All = Known(Len(input.keys))
    PROVE  /\ Len(input.keys) \in Nat /\ All \subseteq Words
           /\ \A m \in 1 .. Len(input.keys) :
                 input.keys[m] \in Seq(1 .. MaxLabel) /\ Value(m) \in Nat
           /\ \A m \in 1 .. Len(input.keys) : FirstFrom(1, m) => WordOf(m) \in All
           /\ \A x \in All : \E m \in 1 .. Len(input.keys) : x = WordOf(m) /\ FirstFrom(1, m)
  <1>1. /\ Len(input.keys) \in Nat
        /\ \A m \in 1 .. Len(input.keys) :
                 input.keys[m] \in Seq(1 .. MaxLabel) /\ Value(m) \in Nat
    BY InputTypes DEF InputKnown
  <1>2. \A m \in 1 .. Len(input.keys) : WordOf(m) \in Words
    BY <1>1, KeyWordIs DEF WordOf
  <1> QED
    BY <1>1, <1>2 DEF Known

\* Of the keys that are the same one is the first.
LEMMA FirstKey ==
    ASSUME input \in Inputs, NEW j \in 1 .. Len(input.keys)
    PROVE  \E i \in 1 .. Len(input.keys) : input.keys[i] = input.keys[j] /\ FirstFrom(1, i)
  <1> DEFINE M == Len(input.keys)
             at == {i \in 1 .. M : input.keys[i] = input.keys[j]}
  <1>1. M \in Nat
    BY InputTypes
  <1> HIDE DEF M
  <1>2. at \subseteq 0 .. M /\ j \in at
    BY <1>1 DEF M
  <1>3. PICK i \in at : \A l \in at : i <= l
    <2> HIDE DEF at
    <2> QED
      BY <1>1, <1>2, FirstOf
  <1>4. FirstFrom(1, i)
    <2> SUFFICES ASSUME NEW l \in 1 .. i - 1, input.keys[l] = input.keys[i] PROVE FALSE
      BY DEF FirstFrom
    <2>1. i \in 1 .. M /\ l \in 1 .. M
      BY <1>1, <1>3
    <2>2. l \in at
      BY <1>3, <2>1
    <2> QED
      BY <1>3, <2>1, <2>2
  <1> QED
    BY <1>3, <1>4 DEF M

LEMMA ValueIs ==
    ASSUME InputKnown, NEW k
    PROVE  /\ \A i \in 1 .. Len(input.keys) :
                 input.keys[i] = k /\ FirstFrom(1, i) => ValueOf(k) = Value(i)
           /\ (\A j \in 1 .. Len(input.keys) : input.keys[j] # k) => ValueOf(k) = -1
           /\ (\E j \in 1 .. Len(input.keys) : input.keys[j] = k) => ValueOf(k) \in Nat
  <1> DEFINE M == Len(input.keys)
             at == {m \in 1 .. M : input.keys[m] = k}
             first == CHOOSE m \in at : \A l \in at : m <= l
  <1>1. ValueOf(k) = IF at = {} THEN -1 ELSE Value(first)
    BY DEF ValueOf, Value
  <1>2. M \in Nat
    BY InputTypes DEF InputKnown
  <1>3. ASSUME NEW i \in 1 .. M, input.keys[i] = k, FirstFrom(1, i) PROVE ValueOf(k) = Value(i)
    <2>1. i \in at
      BY <1>3
    <2>2. \A l \in at : i <= l
      <3> SUFFICES ASSUME NEW l \in at, l < i PROVE FALSE
        BY <1>2
      <3>1. l \in 1 .. i - 1 /\ input.keys[l] = k
        BY <1>2
      <3> QED
        BY <1>3, <3>1 DEF FirstFrom
    <2>3. first = i
      <3>1. \A m \in at : m \in Nat
        BY <1>2
      <3>2. first \in at /\ \A l \in at : first <= l
        <4> HIDE DEF at
        <4> QED
          BY <2>1, <2>2
      <3>3. first <= i /\ i <= first /\ first \in Nat /\ i \in Nat
        BY <2>1, <2>2, <3>1, <3>2
      <3> HIDE DEF first
      <3> QED
        BY <3>3
    <2> HIDE DEF at, first
    <2> QED
      BY <1>1, <2>1, <2>3
  <1>4. (\A j \in 1 .. M : input.keys[j] # k) => ValueOf(k) = -1
    <2>1. (\A j \in 1 .. M : input.keys[j] # k) => at = {}
      OBVIOUS
    <2> HIDE DEF at, first
    <2> QED
      BY <1>1, <2>1
  <1>5. ASSUME NEW j \in 1 .. M, input.keys[j] = k PROVE ValueOf(k) \in Nat
    <2>1. PICK i \in 1 .. M : input.keys[i] = k /\ FirstFrom(1, i)
      BY <1>5, FirstKey DEF InputKnown
    <2>2. ValueOf(k) = Value(i)
      BY <1>3, <2>1
    <2> QED
      BY <2>2 DEF InputKnown
  <1> HIDE DEF at, first, M
  <1> QED
    BY <1>3, <1>4, <1>5 DEF M

\* The words a search may still find are those of the keys that begin as it did, and
\* the value of the one that ends there is the one asked for.
PassingSays(X, s) ==
    /\ X # {} <=> \E j \in 1 .. Len(input.keys) : IsPrefix(s, input.keys[j])
    /\ 0 \in Firsts(X) <=> \E j \in 1 .. Len(input.keys) : input.keys[j] = s
    /\ \A x \in X : x[0] = 0 => x[1] = ValueOf(s)

LEMMA PassingKeys ==
    ASSUME InputKnown, NEW All, All = Known(Len(input.keys)), NEW k \in Seq(1 .. MaxLabel),
           NEW m \in 0 .. Len(k)
    PROVE  PassingSays(Passing(All, k, m), SubSeq(k, 1, m))
  <1> DEFINE M == Len(input.keys)
             keys == input.keys
             s == SubSeq(k, 1, m)
             X == Passing(All, k, m)
  <1>1. /\ M \in Nat /\ All \subseteq Words
        /\ \A i \in 1 .. M : keys[i] \in Seq(1 .. MaxLabel) /\ Value(i) \in Nat
        /\ \A i \in 1 .. M : FirstFrom(1, i) => WordOf(i) \in All
        /\ \A x \in All : \E i \in 1 .. M : x = WordOf(i) /\ FirstFrom(1, i)
    BY KnownIs
  <1>2. m \in Nat
    BY StringIs
  <1>3. ASSUME NEW i \in 1 .. M
        PROVE  /\ WordOf(i) \in Words
               /\ (\A l \in 0 .. m - 1 : WordOf(i)[l] = k[l + 1]) <=> IsPrefix(s, keys[i])
               /\ IsPrefix(s, keys[i]) => (WordOf(i)[m] = 0 <=> keys[i] = s)
               /\ keys[i] = s => WordOf(i)[m + 1] = Value(i) /\ IsPrefix(s, keys[i])
    <2> DEFINE q == keys[i]
               v == Value(i)
               w == WordOf(i)
    <2>1. q \in Seq(1 .. MaxLabel) /\ v \in Nat /\ w = KeyWord(q, v)
      BY <1>1 DEF WordOf
    <2> HIDE DEF q, v, w, s
    <2>2. /\ (\A l \in 0 .. m - 1 : w[l] = k[l + 1]) <=> Starts(q, k, m)
          /\ Starts(q, k, m) => (w[m] = 0 <=> Len(q) = m)
          /\ Len(q) = m => w[m + 1] = v
      <3>1. WordBegins(q, v, w, k, m)
        BY <2>1, WordStarts
      <3> QED
        BY <3>1 DEF WordBegins
    <2>3. s = SubSeq(k, 1, m)
      BY DEF s
    <2>4. IsPrefix(s, q) <=> Starts(q, k, m)
      BY <2>1, <2>3, PrefixStarts
    <2>5. q = s <=> Starts(q, k, m) /\ Len(q) = m
      BY <2>1, <2>3, PrefixStarts
    <2>6. w \in Words
      BY <2>1, KeyWordIs
    <2> QED
      BY <2>2, <2>4, <2>5, <2>6 DEF q, v, w
  <1>4. \A x \in Words : Drop(x, m)[0] = x[m] /\ Drop(x, m)[1] = x[m + 1]
    <2>1. \A x \in Words : \A i \in Nat : Drop(x, m)[i] = x[i + m]
      BY <1>2, DropIs
    <2>2. 0 + m = m /\ 1 + m = m + 1 /\ 0 \in Nat /\ 1 \in Nat
      BY <1>2
    <2> QED
      BY <2>1, <2>2
  <1> HIDE DEF s, M, keys
  <1>5. ASSUME NEW y \in X
        PROVE  \E i \in 1 .. M : FirstFrom(1, i) /\ IsPrefix(s, keys[i]) /\ y = Drop(WordOf(i), m)
    <2>1. PICK x \in All : y = Drop(x, m) /\ \A l \in 0 .. m - 1 : x[l] = k[l + 1]
      BY <1>5 DEF Passing
    <2>2. PICK i \in 1 .. M : x = WordOf(i) /\ FirstFrom(1, i)
      BY <1>1
    <2> QED
      BY <1>3, <2>1, <2>2
  <1>6. ASSUME NEW i \in 1 .. M, FirstFrom(1, i), IsPrefix(s, keys[i]) PROVE Drop(WordOf(i), m) \in X
    <2>1. WordOf(i) \in All /\ \A l \in 0 .. m - 1 : WordOf(i)[l] = k[l + 1]
      BY <1>1, <1>3, <1>6
    <2> QED
      BY <2>1 DEF Passing
  <1>7. \A j \in 1 .. M : \E i \in 1 .. M : keys[i] = keys[j] /\ FirstFrom(1, i)
    BY FirstKey DEF InputKnown, M, keys
  <1> HIDE DEF X
  <1>8. X # {} <=> \E j \in 1 .. M : IsPrefix(s, keys[j])
    <2>1. ASSUME NEW j \in 1 .. M, IsPrefix(s, keys[j]) PROVE X # {}
      <3>1. PICK i \in 1 .. M : keys[i] = keys[j] /\ FirstFrom(1, i)
        BY <1>7
      <3> QED
        BY <1>6, <2>1, <3>1
    <2> QED
      BY <1>5, <2>1
  <1>9. 0 \in Firsts(X) <=> \E j \in 1 .. M : keys[j] = s
    <2>1. ASSUME NEW j \in 1 .. M, keys[j] = s PROVE 0 \in Firsts(X)
      <3>1. PICK i \in 1 .. M : keys[i] = s /\ FirstFrom(1, i)
        BY <1>7, <2>1
      <3>2. Drop(WordOf(i), m) \in X /\ Drop(WordOf(i), m)[0] = 0
        BY <1>3, <1>4, <1>6, <3>1
      <3> QED
        BY <3>2 DEF Firsts
    <2>2. ASSUME NEW y \in X, y[0] = 0 PROVE \E j \in 1 .. M : keys[j] = s
      <3>1. PICK i \in 1 .. M : FirstFrom(1, i) /\ IsPrefix(s, keys[i]) /\ y = Drop(WordOf(i), m)
        BY <1>5
      <3>2. WordOf(i)[m] = 0
        BY <1>3, <1>4, <2>2, <3>1
      <3> QED
        BY <1>3, <3>1, <3>2
    <2> QED
      BY <2>1, <2>2 DEF Firsts
  <1>10. ASSUME NEW y \in X, y[0] = 0 PROVE y[1] = ValueOf(s)
    <2>1. PICK i \in 1 .. M : FirstFrom(1, i) /\ IsPrefix(s, keys[i]) /\ y = Drop(WordOf(i), m)
      BY <1>5
    <2>2. WordOf(i)[m] = 0 /\ y[1] = WordOf(i)[m + 1]
      BY <1>3, <1>4, <1>10, <2>1
    <2>3. keys[i] = s /\ y[1] = Value(i)
      BY <1>3, <2>1, <2>2
    <2>4. ValueOf(s) = Value(i)
      BY <2>1, <2>3, ValueIs DEF M, keys
    <2> QED
      BY <2>3, <2>4
  <1> QED
    BY <1>8, <1>9, <1>10 DEF PassingSays, M, keys, s, X

\* What is found after m labels of k.
FoundAfter(k, m) ==
    /\ Path(k)[m] # Miss <=> \E j \in 1 .. Len(input.keys) : IsPrefix(SubSeq(k, 1, m), input.keys[j])
    /\ ValueAt(Path(k)[m]) = ValueOf(SubSeq(k, 1, m))
    /\ Path(k)[m] # Miss /\ array.units[Path(k)[m]].hasLeaf <=> ValueOf(SubSeq(k, 1, m)) # -1

LEMMA SearchFinds ==
    ASSUME InputKnown, NEW B, NEW All, All = Known(Len(input.keys)), Finished(array, B, All),
           NEW k \in Seq(1 .. MaxLabel), NEW m \in 0 .. Len(k)
    PROVE  FoundAfter(k, m)
  <1> DEFINE s == SubSeq(k, 1, m)
             X == Passing(All, k, m)
             u == Path(k)[m]
  <1>1. PassingSays(X, s)
    BY PassingKeys
  <1>2. IF X = {} THEN u = Miss ELSE u # Miss /\ Stands(B, All, u, X)
    BY PathFinds DEF Found
  <1>3. /\ (\A j \in 1 .. Len(input.keys) : input.keys[j] # s) => ValueOf(s) = -1
        /\ (\E j \in 1 .. Len(input.keys) : input.keys[j] = s) => ValueOf(s) \in Nat
    BY ValueIs
  <1> HIDE DEF s, X, u
  <1>4. ValueAt(u) = ValueOf(s) /\ (u # Miss /\ array.units[u].hasLeaf <=> ValueOf(s) # -1)
    <2>1. CASE X = {}
      <3>1. Firsts(X) = {}
        BY <2>1 DEF Firsts
      <3>2. ValueOf(s) = -1
        BY <1>1, <1>3, <3>1 DEF PassingSays
      <3> QED
        BY <1>2, <2>1, <3>2 DEF ValueAt
    <2>2. CASE X # {}
      <3>1. /\ u # Miss
            /\ array.units[u].hasLeaf <=> 0 \in Firsts(X)
            /\ \A x \in X : x[0] = 0 => array.units[XorOf(u, array.units[u].offset)].value = x[1]
        BY <1>2, <2>2, LeafIs
      <3>2. CASE 0 \in Firsts(X)
        <4>1. PICK x \in X : x[0] = 0
          BY <3>2 DEF Firsts
        <4>2. ValueAt(u) = ValueOf(s)
          BY <1>1, <3>1, <3>2, <4>1 DEF PassingSays, ValueAt
        <4>3. ValueOf(s) \in Nat
          BY <1>1, <1>3, <3>2 DEF PassingSays
        <4>4. ValueOf(s) # -1
          BY <4>3
        <4> QED
          BY <3>1, <3>2, <4>2, <4>4
      <3>3. CASE 0 \notin Firsts(X)
        <4>1. ValueOf(s) = -1
          BY <1>1, <1>3, <3>3 DEF PassingSays
        <4> QED
          BY <3>1, <3>3, <4>1 DEF ValueAt
      <3> QED
        BY <3>2, <3>3
    <2> QED
      BY <2>1, <2>2
  <1>5. u # Miss <=> X # {}
    BY <1>2
  <1> QED
    BY <1>1, <1>4, <1>5 DEF FoundAfter, PassingSays, s, u

\* All searches for a string.
Answered(k) ==
    /\ \A m \in 0 .. Len(k) - 1 :
          Path(k)[m] # Miss =>
             XorOf(Path(k)[m], XorOf(array.units[Path(k)[m]].offset, k[m + 1])) < array.size
    /\ ExactMatchSearch(k) = ValueOf(k)
    /\ CommonPrefixSearch(k) =
          [m \in {m \in 1 .. Len(k) : ValueOf(SubSeq(k, 1, m)) # -1} |->
              ValueOf(SubSeq(k, 1, m))]

Traversed(k) ==
    LET Begun(m) == \E j \in 1 .. Len(input.keys) : IsPrefix(SubSeq(k, 1, m), input.keys[j])
    IN  Traverse(k) =
          IF Begun(Len(k)) THEN <<ValueOf(k), Len(k)>>
          ELSE <<-2, Cardinality({m \in 1 .. Len(k) : Begun(m)})>>

LEMMA FoundAnswers ==
    ASSUME NEW k \in Seq(1 .. MaxLabel), \A m \in 0 .. Len(k) : FoundAfter(k, m)
    PROVE  /\ ExactMatchSearch(k) = ValueOf(k)
           /\ CommonPrefixSearch(k) =
                  [m \in {m \in 1 .. Len(k) : ValueOf(SubSeq(k, 1, m)) # -1} |->
                      ValueOf(SubSeq(k, 1, m))]
           /\ Traversed(k)
  <1> DEFINE N == Len(k)
             p == Path(k)
             s(m) == SubSeq(k, 1, m)
             Begun(m) == \E j \in 1 .. Len(input.keys) : IsPrefix(s(m), input.keys[j])
  <1>1. N \in Nat
    BY StringIs
  <1>2. s(N) = k
    <2>1. N \in 0 .. Len(k) /\ Starts(k, k, N)
      BY <1>1 DEF Starts
    <2> QED
      BY <2>1, PrefixStarts
  <1>3. \A m \in 0 .. N :
           /\ p[m] # Miss <=> Begun(m)
           /\ ValueAt(p[m]) = ValueOf(s(m))
           /\ p[m] # Miss /\ array.units[p[m]].hasLeaf <=> ValueOf(s(m)) # -1
    BY DEF FoundAfter
  <1> HIDE DEF N, p, s, Begun
  <1>4. N \in 0 .. N /\ \A m \in 1 .. N : m \in 0 .. N
    BY <1>1
  <1>5. ExactMatchSearch(k) = ValueOf(k)
    BY <1>2, <1>3, <1>4 DEF ExactMatchSearch, N, p
  <1>6. CommonPrefixSearch(k) = [m \in {m \in 1 .. N : ValueOf(s(m)) # -1} |-> ValueOf(s(m))]
    <2> DEFINE D == {m \in 1 .. N : p[m] # Miss /\ array.units[p[m]].hasLeaf}
               E == {m \in 1 .. N : ValueOf(s(m)) # -1}
    <2>1. D = E /\ \A m \in D : ValueAt(p[m]) = ValueOf(s(m))
      BY <1>3, <1>4
    <2>2. CommonPrefixSearch(k) = [m \in D |-> ValueAt(p[m])]
      BY DEF CommonPrefixSearch, N, p
    <2> HIDE DEF D, E
    <2>3. [m \in D |-> ValueAt(p[m])] = [m \in E |-> ValueOf(s(m))]
      BY <2>1
    <2> QED
      BY <2>2, <2>3 DEF E
  <1>7. Traverse(k) = IF Begun(N) THEN <<ValueOf(k), N>>
                      ELSE <<-2, Cardinality({m \in 1 .. N : Begun(m)})>>
    <2>1. Traverse(k) = IF p[N] # Miss THEN <<ValueAt(p[N]), N>>
                        ELSE <<-2, Cardinality({m \in 1 .. N : p[m] # Miss})>>
      BY DEF Traverse, N, p
    <2>2. {m \in 1 .. N : p[m] # Miss} = {m \in 1 .. N : Begun(m)}
      BY <1>3, <1>4
    <2>3. (p[N] # Miss <=> Begun(N)) /\ ValueAt(p[N]) = ValueOf(k)
      BY <1>2, <1>3, <1>4
    <2> QED
      BY <2>1, <2>2, <2>3
  <1> QED
    BY <1>5, <1>6, <1>7 DEF Traversed, N, s, Begun

LEMMA FinishedAnswers ==
    ASSUME InputKnown, NEW B, NEW All, All = Known(Len(input.keys)), Finished(array, B, All),
           NEW k \in Seq(1 .. MaxLabel)
    PROVE  Answered(k) /\ Traversed(k)
  <1>1. \A m \in 0 .. Len(k) : FoundAfter(k, m)
    BY SearchFinds
  <1>2. \A m \in 0 .. Len(k) - 1 :
          Path(k)[m] # Miss =>
             XorOf(Path(k)[m], XorOf(array.units[Path(k)[m]].offset, k[m + 1])) < array.size
    BY PathStays
  <1> QED
    BY <1>1, <1>2, FoundAnswers DEF Answered

\* A dictionary without keys: one block, and no unit leads to a leaf.
Empty(a) ==
    /\ ArrayOK(a) /\ a.size = BlockSize
    /\ \A u \in 0 .. a.size - 1 : a.units[u].offset < BlockSize /\ ~a.units[u].hasLeaf

LEMMA EmptyHops ==
    ASSUME NEW a, Empty(a), NEW u \in 0 .. a.size - 1, NEW label \in 1 .. MaxLabel
    PROVE  Onto(a, u, label) \in 0 .. a.size - 1
  <1> DEFINE o == a.units[u].offset
             w == XorOf(o, label)
             v == XorOf(u, w)
  <1>1. /\ a.size = BlockSize /\ BlockSize \in Nat /\ MaxOffset \in Nat /\ MaxOffset >= BlockSize
        /\ o < BlockSize
    BY Sizes DEF Empty
  <1>2. o \in 0 .. MaxOffset - 1
    <2>1. a.units[u] \in Units
      BY DEF Empty, ArrayOK
    <2> QED
      BY <2>1 DEF Units
  <1>3. \A x \in Nat : Block(x) = 0 <=> x < BlockSize
    <2> SUFFICES ASSUME NEW x \in Nat PROVE Block(x) = 0 <=> x < BlockSize
      OBVIOUS
    <2>1. Low(x) \in 0 .. BlockSize - 1 /\ Block(x) \in Nat /\ x = BlockSize * Block(x) + Low(x)
      BY LowBlock
    <2>2. \A s, q, r \in Nat : r <= s - 1 => (q = 0 <=> s * q + r < s)
      <3> SUFFICES ASSUME NEW s \in Nat, NEW q \in Nat, NEW r \in Nat, r <= s - 1
                   PROVE  q = 0 <=> s * q + r < s
        OBVIOUS
      <3>1. q = 0 => s * q + r < s
        OBVIOUS
      <3>2. q # 0 => s * q >= s
        <4>1. q # 0 => s * q = s * (q - 1) + s /\ s * (q - 1) \in Nat
          OBVIOUS
        <4> QED
          BY <4>1
      <3>3. s * q \in Nat
        OBVIOUS
      <3> QED
        BY <3>1, <3>2, <3>3
    <2> QED
      BY <1>1, <2>1, <2>2
  <1>4. u \in Numbers /\ u \in Nat /\ o \in Numbers /\ o \in Nat /\ label \in 0 .. MaxLabel
    BY <1>1, <1>2, Sizes DEF Numbers
  <1> HIDE DEF o
  <1>5. w \in Nat /\ Block(w) = Block(o) /\ label \in Numbers
    BY <1>4, ChildBlock
  <1>6. w \in Numbers
    BY <1>4, <1>5, XorLaws
  <1>7. Block(o) = 0 /\ Block(u) = 0
    BY <1>1, <1>3, <1>4
  <1> HIDE DEF w
  <1>8. v \in Numbers /\ Block(v) = 0
    BY <1>4, <1>5, <1>6, <1>7, XorLaws
  <1>9. v \in Nat
    BY <1>8 DEF Numbers
  <1> HIDE DEF v
  <1>10. v < BlockSize
    BY <1>3, <1>8, <1>9
  <1>11. Onto(a, u, label) = v
    BY DEF Onto, v, w, o
  <1> QED
    BY <1>1, <1>9, <1>10, <1>11

LEMMA EmptyAnswers ==
    ASSUME input \in Inputs, Len(input.keys) = 0, Empty(array), NEW k \in Seq(1 .. MaxLabel)
    PROVE  Answered(k)
  <1> DEFINE N == Len(k)
             p == Path(k)
             T == {m \in 0 .. N : p[m] = Miss \/ p[m] \in 0 .. array.size - 1}
  <1>1. N \in Nat /\ \A m \in 1 .. N : k[m] \in 1 .. MaxLabel
    BY StringIs
  <1>2. p[0] = 0 /\ \A m \in 1 .. N : p[m] = IF p[m - 1] = Miss THEN Miss ELSE Hop(array, p[m - 1], k[m])
    BY <1>1, PathSteps
  <1>3. array.size \in Nat \ {0}
    BY Sizes DEF Empty
  <1> HIDE DEF N, p
  <1>4. 0 \in T
    BY <1>1, <1>2, <1>3
  <1>5. ASSUME NEW m \in 0 .. N - 1, m \in T PROVE m + 1 \in T
    <2>1. m + 1 \in 0 .. N /\ m + 1 \in 1 .. N /\ (m + 1) - 1 = m
      BY <1>1
    <2>2. p[m + 1] = IF p[m] = Miss THEN Miss ELSE Hop(array, p[m], k[m + 1])
      BY <1>2, <2>1
    <2>3. CASE p[m] = Miss
      BY <2>1, <2>2, <2>3
    <2>4. CASE p[m] # Miss
      <3> DEFINE u == p[m]
                 l == k[m + 1]
      <3>1. u \in 0 .. array.size - 1 /\ l \in 1 .. MaxLabel
        BY <1>1, <1>5, <2>1, <2>4
      <3> HIDE DEF u, l
      <3>2. Onto(array, u, l) \in 0 .. array.size - 1
        BY <3>1, EmptyHops
      <3>3. Hop(array, u, l) = Miss \/ Hop(array, u, l) \in 0 .. array.size - 1
        BY <3>2 DEF Hop
      <3>4. p[m + 1] = Hop(array, u, l)
        BY <2>2, <2>4 DEF u, l
      <3> QED
        BY <2>1, <3>3, <3>4
    <2> QED
      BY <2>3, <2>4
  <1>6. \A m \in 0 .. N : p[m] = Miss \/ p[m] \in 0 .. array.size - 1
    <2> HIDE DEF T
    <2>1. \A m \in 0 .. N : m \in T
      BY <1>1, <1>4, <1>5, UpTo
    <2> QED
      BY <2>1 DEF T
  <1>7. \A m \in 0 .. N : p[m] # Miss => ~array.units[p[m]].hasLeaf
    BY <1>6 DEF Empty
  <1>8. \A m \in 0 .. N : ValueAt(p[m]) = -1
    BY <1>7 DEF ValueAt
  <1>9. \A s : ValueOf(s) = -1
    <2>1. \A s : {m \in 1 .. Len(input.keys) : input.keys[m] = s} = {}
      OBVIOUS
    <2> QED
      BY <2>1 DEF ValueOf
  <1>10. N \in 0 .. N /\ \A m \in 1 .. N : m \in 0 .. N
    BY <1>1
  <1>11. ExactMatchSearch(k) = ValueOf(k)
    BY <1>8, <1>9, <1>10 DEF ExactMatchSearch, N, p
  <1>12. CommonPrefixSearch(k) =
            [m \in {m \in 1 .. N : ValueOf(SubSeq(k, 1, m)) # -1} |-> ValueOf(SubSeq(k, 1, m))]
    <2> DEFINE D == {m \in 1 .. N : p[m] # Miss /\ array.units[p[m]].hasLeaf}
               E == {m \in 1 .. N : ValueOf(SubSeq(k, 1, m)) # -1}
    <2>1. D = {} /\ E = {}
      BY <1>7, <1>9, <1>10
    <2>2. CommonPrefixSearch(k) = [m \in D |-> ValueAt(p[m])]
      BY DEF CommonPrefixSearch, N, p
    <2> HIDE DEF D, E
    <2>3. [m \in D |-> ValueAt(p[m])] = [m \in E |-> ValueOf(SubSeq(k, 1, m))]
      BY <2>1
    <2> QED
      BY <2>2, <2>3 DEF E
  <1>13. ASSUME NEW m \in 0 .. N - 1, p[m] # Miss
         PROVE  XorOf(p[m], XorOf(array.units[p[m]].offset, k[m + 1])) < array.size
    <2> DEFINE u == p[m]
               l == k[m + 1]
    <2>1. m \in 0 .. N /\ m + 1 \in 1 .. N
      BY <1>1
    <2>2. u \in 0 .. array.size - 1 /\ l \in 1 .. MaxLabel
      BY <1>1, <1>6, <1>13, <2>1
    <2> HIDE DEF u, l
    <2>3. Onto(array, u, l) < array.size
      BY <1>3, <2>2, EmptyHops
    <2> QED
      BY <2>3 DEF Onto, u, l
  <1> QED
    BY <1>11, <1>12, <1>13 DEF Answered, N, p

-----------------------------------------------------------------------------
(* The array while it is built: what is laid out, and what is still to be.   *)

Todo(w) == {w[m].id : m \in 1 .. Len(w)}

\* The words of keys from b to before e, from depth d on.
WordsFrom(b, e, d) == {Drop(WordOf(m), d - 1) : m \in {i \in b .. e - 1 : FirstFrom(b, i)}}

\* What a call is to lay out, if F are the words of the automaton's states.
CallWords(c, F) == IF Len(input.values) > 0 THEN F[c.state] ELSE WordsFrom(c.begin, c.end, c.depth)

Separate(w) == \A i, j \in 1 .. Len(w) : w[i].id = w[j].id => i = j

\* The table tells where a state's words were laid out.
Noted(F, B, t) == \A s \in DOMAIN t : t[s] # 0 => t[s] \in DOMAIN B /\ B[t[s]] = F[s]

LaidOut(F, B, All, lo, a, w, t) ==
    /\ Layout(B) /\ Told(a, lo, Taken(B), Based(B)) /\ Drawn(a, B, All, Todo(w))
    /\ \A m \in 1 .. Len(w) : Stands(B, All, w[m].id, CallWords(w[m], F))
    /\ Separate(w)
    /\ Len(input.values) > 0 => Langs(dawg, F, All) /\ Noted(F, B, t)

\* Calls in the place of the first.
Spliced(w, calls, e) ==
    /\ Len(e) = Len(calls) + Len(w) - 1 /\ Len(calls) \in Nat /\ Len(w) \in Nat \ {0}
    /\ \A m \in 1 .. Len(e) : e[m] = IF m <= Len(calls) THEN calls[m] ELSE w[m - Len(calls) + 1]

LEMMA SpliceIs ==
    ASSUME NEW S, NEW calls \in Seq(S), NEW w \in Seq(S), w # <<>>, NEW e, e = calls \o Tail(w)
    PROVE  Spliced(w, calls, e)
  <1> DEFINE t == Tail(w)
  <1>1. /\ t \in Seq(S) /\ Len(t) = Len(w) - 1 /\ Len(w) \in Nat /\ Len(w) > 0
        /\ \A m \in 1 .. Len(w) - 1 : t[m] = w[m + 1]
    BY HeadTailProperties, EmptySeq
  <1> HIDE DEF t
  <1>2. Len(calls) \in Nat /\ Len(t) \in Nat
    BY <1>1, LenProperties
  <1>3. /\ Len(e) = Len(calls) + Len(t)
        /\ \A m \in 1 .. Len(calls) + Len(t) :
              e[m] = IF m <= Len(calls) THEN calls[m] ELSE t[m - Len(calls)]
    <2>1. /\ Len(calls \o t) = Len(calls) + Len(t)
          /\ \A m \in 1 .. Len(calls) + Len(t) :
                (calls \o t)[m] = IF m <= Len(calls) THEN calls[m] ELSE t[m - Len(calls)]
      BY <1>1, ConcatProperties
    <2>2. e = calls \o t
      BY DEF t
    <2> QED
      BY <2>1, <2>2
  <1>4. Len(e) = Len(calls) + Len(w) - 1 /\ Len(calls) \in Nat /\ Len(w) \in Nat \ {0}
    BY <1>1, <1>2, <1>3
  <1>5. ASSUME NEW m \in 1 .. Len(e)
        PROVE  e[m] = IF m <= Len(calls) THEN calls[m] ELSE w[m - Len(calls) + 1]
    <2>1. m \in 1 .. Len(calls) + Len(t)
      BY <1>2, <1>3
    <2>2. e[m] = IF m <= Len(calls) THEN calls[m] ELSE t[m - Len(calls)]
      BY <1>2, <1>3, <2>1
    <2>3. CASE m <= Len(calls)
      BY <2>2, <2>3
    <2>4. CASE ~ (m <= Len(calls))
      <3>1. m - Len(calls) \in 1 .. Len(w) - 1
        BY <1>1, <1>2, <1>4, <2>4
      <3> QED
        BY <1>1, <2>2, <2>4, <3>1
    <2> QED
      BY <2>3, <2>4
  <1> QED
    BY <1>4, <1>5 DEF Spliced

\* The calls a call makes: one for each label other than 0.
CallsFor(calls, F, X, o, labels) ==
    /\ \A i \in 1 .. Len(calls) :
          \E d \in 1 .. Len(labels) : /\ labels[d] # 0 /\ calls[i].id = XorOf(o, labels[d])
                                      /\ CallWords(calls[i], F) = Rest(X, labels[d])
    /\ \A d \in 1 .. Len(labels) :
          labels[d] # 0 => \E i \in 1 .. Len(calls) : calls[i].id = XorOf(o, labels[d])
    /\ Separate(calls)

\* What the table tells after a call.
NotedNext(F, X, o, t, u) == u = t \/ \E s : u = [t EXCEPT ![s] = o] /\ F[s] = X

LEMMA NotedMore ==
    ASSUME NEW F, NEW B, NEW t, Noted(F, B, t), NEW o, o \notin DOMAIN B, NEW X,
           NEW u, NotedNext(F, X, o, t, u), NEW C, C = More(B, o, X)
    PROVE  Noted(F, C, u)
  <1>1. /\ DOMAIN C = DOMAIN B \cup {o} /\ C[o] = X
        /\ \A p \in DOMAIN B : p \in DOMAIN C /\ C[p] = B[p] /\ p # o
    BY DEF More
  <1>2. CASE u = t
    BY <1>1, <1>2 DEF Noted
  <1>3. ASSUME NEW s, u = [t EXCEPT ![s] = o], F[s] = X PROVE Noted(F, C, u)
    <2>1. DOMAIN u = DOMAIN t /\ \A r \in DOMAIN t : u[r] = IF r = s THEN o ELSE t[r]
      BY <1>3
    <2> QED
      BY <1>1, <1>3, <2>1 DEF Noted
  <1> QED
    BY <1>2, <1>3 DEF NotedNext

\* What is still to be done after the calls of a call are in its place.
LEMMA TodoNext ==
    ASSUME NEW w, NEW calls, NEW e, Spliced(w, calls, e), Separate(w),
           NEW id, id = w[1].id, NEW T, T = Todo(calls)
    PROVE  Todo(e) = (Todo(w) \ {id}) \cup T
  <1> DEFINE L == Len(calls)
             N == Len(w)
  <1>1. L \in Nat /\ N \in Nat \ {0} /\ Len(e) = L + N - 1
    BY DEF Spliced
  <1>2. \A m \in 1 .. L : m \in 1 .. Len(e) /\ e[m] = calls[m]
    BY <1>1 DEF Spliced
  <1>3. \A m \in 2 .. N : m + L - 1 \in 1 .. Len(e) /\ e[m + L - 1] = w[m]
    <2> SUFFICES ASSUME NEW m \in 2 .. N PROVE m + L - 1 \in 1 .. Len(e) /\ e[m + L - 1] = w[m]
      OBVIOUS
    <2>1. m + L - 1 \in 1 .. Len(e) /\ ~ (m + L - 1 <= L) /\ (m + L - 1) - L + 1 = m
      BY <1>1
    <2> QED
      BY <2>1 DEF Spliced
  <1>4. \A m \in 1 .. Len(e) : \/ m \in 1 .. L /\ e[m] = calls[m]
                               \/ \E i \in 2 .. N : e[m] = w[i]
    <2> SUFFICES ASSUME NEW m \in 1 .. Len(e)
                 PROVE  (m \in 1 .. L /\ e[m] = calls[m]) \/ (\E i \in 2 .. N : e[m] = w[i])
      OBVIOUS
    <2>1. CASE m <= L
      BY <1>1, <1>2, <2>1
    <2>2. CASE ~ (m <= L)
      <3>1. m - L + 1 \in 2 .. N /\ e[m] = w[m - L + 1]
        BY <1>1, <2>2 DEF Spliced
      <3> QED
        BY <3>1
    <2> QED
      BY <2>1, <2>2
  <1>5. \A i \in 2 .. N : i \in 1 .. N /\ w[i].id # id
    BY <1>1 DEF Separate
  <1> HIDE DEF L, N
  <1>6. \A x \in Todo(e) : x \in (Todo(w) \ {id}) \cup T
    BY <1>4, <1>5 DEF Todo, L, N
  <1>7. \A x \in T : x \in Todo(e)
    BY <1>2 DEF Todo, L
  <1>8. \A x \in Todo(w) : x # id => x \in Todo(e)
    <2> SUFFICES ASSUME NEW m \in 1 .. N, w[m].id # id PROVE w[m].id \in Todo(e)
      BY DEF Todo, N
    <2>1. m \in 2 .. N
      BY <1>1
    <2> DEFINE k == m + L - 1
    <2>2. k \in 1 .. Len(e) /\ e[k] = w[m]
      BY <1>3, <2>1
    <2> HIDE DEF k
    <2> QED
      BY <2>2 DEF Todo
  <1> QED
    BY <1>6, <1>7, <1>8

LEMMA SeparateNext ==
    ASSUME NEW w, NEW calls, NEW e, Spliced(w, calls, e), Separate(w), Separate(calls),
           \A x \in Todo(calls) : x \notin Todo(w)
    PROVE  Separate(e)
  <1> DEFINE L == Len(calls)
             N == Len(w)
  <1>1. L \in Nat /\ N \in Nat \ {0} /\ Len(e) = L + N - 1
    BY DEF Spliced
  <1>2. \A m \in 1 .. Len(e) : e[m] = IF m <= L THEN calls[m] ELSE w[m - L + 1]
    BY DEF Spliced
  <1>3. \A m \in 1 .. Len(e) : /\ m <= L => m \in 1 .. L
                               /\ ~ (m <= L) => m - L + 1 \in 1 .. N
    BY <1>1
  <1>4. \A i \in 1 .. L, j \in 1 .. N : calls[i].id # w[j].id
    BY DEF Todo
  <1>5. /\ \A i, j \in 1 .. L : calls[i].id = calls[j].id => i = j
        /\ \A i, j \in 1 .. N : w[i].id = w[j].id => i = j
    BY DEF Separate
  <1> HIDE DEF L, N
  <1> SUFFICES ASSUME NEW i \in 1 .. Len(e), NEW j \in 1 .. Len(e), e[i].id = e[j].id PROVE i = j
    BY DEF Separate
  <1>6. CASE i <= L /\ j <= L
    BY <1>2, <1>3, <1>5, <1>6
  <1>7. CASE i <= L /\ ~ (j <= L)
    BY <1>2, <1>3, <1>4, <1>7
  <1>8. CASE ~ (i <= L) /\ j <= L
    BY <1>2, <1>3, <1>4, <1>8
  <1>9. CASE ~ (i <= L) /\ ~ (j <= L)
    <2> DEFINE p == i - L + 1
               q == j - L + 1
    <2>1. e[i] = w[p] /\ e[j] = w[q] /\ p \in 1 .. N /\ q \in 1 .. N
      BY <1>2, <1>3, <1>9
    <2>2. p = q => i = j
      BY <1>1
    <2> HIDE DEF p, q
    <2> QED
      BY <1>5, <2>1, <2>2
  <1> QED
    BY <1>6, <1>7, <1>8, <1>9

LEMMA CallsBelow ==
    ASSUME NEW X, NEW labels, NEW values, Offers(X, labels, values), NEW F, NEW o,
           NEW calls, CallsFor(calls, F, X, o, labels)
    PROVE  Todo(calls) = Below(o, X)
  <1>1. Firsts(X) = {labels[m] : m \in 1 .. Len(labels)}
    BY DEF Offers
  <1>2. \A x \in Todo(calls) : x \in Below(o, X)
    BY <1>1 DEF Todo, Below, CallsFor
  <1>3. \A x \in Below(o, X) : x \in Todo(calls)
    <2> SUFFICES ASSUME NEW l \in Firsts(X) \ {0} PROVE XorOf(o, l) \in Todo(calls)
      BY DEF Below
    <2>1. PICK d \in 1 .. Len(labels) : l = labels[d]
      BY <1>1
    <2>2. PICK i \in 1 .. Len(calls) : calls[i].id = XorOf(o, labels[d])
      BY <2>1 DEF CallsFor
    <2> QED
      BY <2>1, <2>2 DEF Todo
  <1> QED
    BY <1>2, <1>3

\* The units of what is still to be done are taken.
LEMMA TodoTaken ==
    ASSUME NEW F, NEW B, NEW All, NEW lo, NEW a, NEW w, NEW t, LaidOut(F, B, All, lo, a, w, t)
    PROVE  \A x \in Todo(w) : x \in Taken(B) /\ x \in Numbers /\ x \in Nat /\ x < a.size /\ x < MaxOffset
  <1> SUFFICES ASSUME NEW m \in 1 .. Len(w), NEW x, x = w[m].id
               PROVE  x \in Taken(B) /\ x \in Numbers /\ x \in Nat /\ x < a.size /\ x < MaxOffset
    BY DEF Todo
  <1>1. Stands(B, All, x, CallWords(w[m], F)) /\ Layout(B)
    BY DEF LaidOut
  <1>2. x \in Nat /\ x \in Taken(B)
    BY <1>1, StandsAt
  <1>3. Taken(B) \subseteq 0 .. a.size - 1 /\ a.size \in Nat /\ a.size <= MaxOffset
    BY DEF LaidOut, Told, ArrayOK
  <1>4. x < MaxOffset /\ x \in Numbers /\ x < a.size
    <2>1. MaxOffset \in Nat
      BY Sizes
    <2>2. x < MaxOffset /\ x < a.size
      BY <1>2, <1>3, <2>1
    <2> HIDE DEF MaxOffset
    <2> QED
      BY <1>2, <2>1, <2>2 DEF Numbers
  <1> QED
    BY <1>2, <1>4

LEMMA LaidMore ==
    ASSUME NEW F, NEW B, NEW All, NEW a, NEW w, NEW t, LaidOut(F, B, All, Lo(a.size), a, w, t),
           NEW X, X = CallWords(w[1], F), NEW o, o \in 1 .. MaxOffset - 1,
           NEW labels, NEW values, Offers(X, labels, values), Roomy(a, Based(B), o, labels, values),
           NEW id, id = w[1].id, NEW e, e = Arrange(a, id, o, labels, values),
           NEW calls, CallsFor(calls, F, X, o, labels), NEW v, Spliced(w, calls, v),
           NEW u, NotedNext(F, X, o, t, u), NEW C, C = More(B, o, X)
    PROVE  LaidOut(F, C, All, Lo(e.size), e, v, u)
  <1>1. /\ Layout(B) /\ Told(a, Lo(a.size), Taken(B), Based(B)) /\ Drawn(a, B, All, Todo(w))
        /\ Separate(w) /\ 1 \in 1 .. Len(w) /\ id \in Todo(w)
        /\ Stands(B, All, id, X)
    BY DEF LaidOut, Spliced, Todo
  <1>2. id \in Taken(B) /\ id \in Numbers
    BY <1>1, TodoTaken
  <1>3. o \notin DOMAIN B /\ o \in Numbers
    BY DEF Roomy, Based
  <1>4. ArrangedTold(a, e, Taken(B), Based(B), id, o, labels, values)
    BY <1>1, <1>2, LayoutPlenty, ArrangeTold
  <1>5. X \subseteq Words /\ X # {} /\ Firsts(X) = {labels[m] : m \in 1 .. Len(labels)}
    BY DEF Offers
  <1>6. Firsts(X) \subseteq 0 .. MaxLabel
    <2> DEFINE R == 0 .. MaxLabel
    <2>1. labels \in Seq(R)
      BY DEF Roomy
    <2> HIDE DEF R
    <2>2. \A m \in 1 .. Len(labels) : labels[m] \in R
      BY <2>1, ElementOfSeq
    <2> QED
      BY <1>5, <2>2 DEF R
  <1>7. \A l \in Firsts(X) : XorOf(o, l) \notin Taken(B)
    BY <1>4, <1>5 DEF ArrangedTold
  <1>8. MoreLaid(B, C, o, X, All)
    BY <1>1, <1>3, <1>5, <1>6, <1>7, LayoutMore
  <1>9. /\ Told(e, Lo(e.size), Taken(C), Based(C))
        /\ Drawn(e, C, All, (Todo(w) \ {id}) \cup Below(o, X))
    BY <1>1, <1>2, <1>3, <1>4, <1>8, DrawnMore
  <1>10. Todo(calls) = Below(o, X)
    BY CallsBelow
  <1>11. Todo(v) = (Todo(w) \ {id}) \cup Below(o, X)
    BY <1>1, <1>10, TodoNext
  <1>12. Separate(v)
    <2>1. \A x \in Todo(calls) : x \notin Todo(w)
      <3>1. \A x \in Below(o, X) : x \notin Taken(B)
        BY <1>7 DEF Below
      <3>2. \A x \in Todo(w) : x \in Taken(B)
        BY TodoTaken
      <3> QED
        BY <1>10, <3>1, <3>2
    <2>2. Separate(calls)
      BY DEF CallsFor
    <2> QED
      BY <1>1, <2>1, <2>2, SeparateNext
  <1>13. ASSUME NEW m \in 1 .. Len(v) PROVE Stands(C, All, v[m].id, CallWords(v[m], F))
    <2>1. v[m] = IF m <= Len(calls) THEN calls[m] ELSE w[m - Len(calls) + 1]
      BY DEF Spliced
    <2>2. CASE m <= Len(calls)
      <3>1. m \in 1 .. Len(calls)
        BY <2>2 DEF Spliced
      <3>2. PICK d \in 1 .. Len(labels) : /\ labels[d] # 0 /\ calls[m].id = XorOf(o, labels[d])
                                          /\ CallWords(calls[m], F) = Rest(X, labels[d])
        BY <3>1 DEF CallsFor
      <3>3. labels[d] \in Firsts(X) \ {0}
        BY <1>5, <3>2
      <3>4. Stands(C, All, calls[m].id, CallWords(calls[m], F))
        BY <1>8, <3>2, <3>3 DEF MoreLaid
      <3> QED
        BY <2>1, <2>2, <3>4
    <2>3. CASE ~ (m <= Len(calls))
      <3> DEFINE i == m - Len(calls) + 1
      <3>1. i \in 1 .. Len(w) /\ v[m] = w[i]
        BY <2>1, <2>3 DEF Spliced
      <3> HIDE DEF i
      <3>2. Stands(B, All, w[i].id, CallWords(w[i], F))
        BY <3>1 DEF LaidOut
      <3> QED
        BY <1>8, <3>1, <3>2 DEF MoreLaid
    <2> QED
      BY <2>2, <2>3
  <1>14. Len(input.values) > 0 => Langs(dawg, F, All) /\ Noted(F, C, u)
    BY <1>3, NotedMore DEF LaidOut
  <1>15. Layout(C)
    BY <1>8 DEF MoreLaid
  <1> QED
    BY <1>9, <1>11, <1>12, <1>13, <1>14, <1>15 DEF LaidOut

\* No call in the place of the first: its unit has come to lead where its words were.
LEMMA LaidReused ==
    ASSUME NEW F, NEW B, NEW All, NEW a, NEW w, NEW t, LaidOut(F, B, All, Lo(a.size), a, w, t),
           NEW X, X = CallWords(w[1], F), NEW o, o \in DOMAIN B, B[o] = X,
           NEW id, id = w[1].id, NEW e, Told(e, Lo(e.size), Taken(B), Based(B)),
           \A k \in Taken(B) : k # id => e.units[k] = a.units[k],
           Refound(a.units[id], e.units[id], XorOf(id, o), X),
           NEW calls, Len(calls) = 0, NEW v, Spliced(w, calls, v)
    PROVE  LaidOut(F, B, All, Lo(e.size), e, v, t)
  <1>1. /\ Layout(B) /\ Drawn(a, B, All, Todo(w))
        /\ Separate(w) /\ 1 \in 1 .. Len(w) /\ id \in Todo(w)
        /\ Stands(B, All, id, X)
    BY DEF LaidOut, Spliced, Todo
  <1>2. id \in Numbers
    BY <1>1, TodoTaken
  <1>3. Drawn(e, B, All, Todo(w) \ {id})
    <2> DEFINE T == Todo(w)
    <2>1. Drawn(a, B, All, T) /\ id \in T
      BY <1>1
    <2> HIDE DEF T
    <2>2. Drawn(e, B, All, T \ {id})
      BY <1>1, <1>2, <2>1, DrawnReused
    <2> QED
      BY <2>2 DEF T
  <1> DEFINE T == Todo(calls)
  <1>4. T = {}
    BY DEF Todo
  <1> HIDE DEF T
  <1>5. Todo(v) = (Todo(w) \ {id}) \cup T
    BY <1>1, TodoNext DEF T
  <1>6. Separate(v)
    <2>1. Separate(calls)
      BY DEF Separate
    <2>2. \A x \in Todo(calls) : x \notin Todo(w)
      BY <1>4 DEF T
    <2> QED
      BY <1>1, <2>1, <2>2, SeparateNext
  <1>7. ASSUME NEW m \in 1 .. Len(v) PROVE Stands(B, All, v[m].id, CallWords(v[m], F))
    <2> DEFINE i == m - Len(calls) + 1
    <2>1. i \in 1 .. Len(w) /\ v[m] = w[i]
      BY DEF Spliced
    <2> HIDE DEF i
    <2> QED
      BY <2>1 DEF LaidOut
  <1>8. Drawn(e, B, All, Todo(v))
    BY <1>3, <1>4, <1>5
  <1> QED
    BY <1>1, <1>6, <1>7, <1>8 DEF LaidOut

\* While units are placed, and when they are.
Underway == \E F, B : LaidOut(F, B, Known(Len(input.keys)), Lo(array.size), array, work, table)
Complete == \E F, B : LaidOut(F, B, Known(Len(input.keys)), array.size, array, work, table)

KnownKept ==
    /\ Known(Len(input.keys))' = Known(Len(input.keys))
    /\ \A F, B, All, lo, a, w, t : LaidOut(F, B, All, lo, a, w, t)' <=> LaidOut(F, B, All, lo, a, w, t)

LEMMA PlacingLaid ==
    ASSUME Placing
    PROVE  KnownKept
  <1>1. input' = input /\ dawg' = dawg
    BY DEF Placing
  <1>2. Known(Len(input.keys))' = Known(Len(input.keys))
    BY <1>1 DEF Known, WordOf, Value, FirstFrom
  <1>3. ASSUME NEW F, NEW B, NEW All, NEW lo, NEW a, NEW w, NEW t
        PROVE  LaidOut(F, B, All, lo, a, w, t)' <=> LaidOut(F, B, All, lo, a, w, t)
    <2>1. ASSUME NEW c PROVE CallWords(c, F)' = CallWords(c, F)
      BY <1>1 DEF CallWords, WordsFrom, WordOf, Value, FirstFrom
    <2> QED
      BY <1>1, <2>1 DEF LaidOut
  <1> QED
    BY <1>2, <1>3 DEF KnownKept

LEMMA UnderwayNext ==
    ASSUME Placing, NEW F, NEW B,
           LaidOut(F, B, Known(Len(input.keys)), Lo(array'.size), array', work', table')
    PROVE  Underway'
  BY PlacingLaid DEF Underway, KnownKept

LEMMA CompleteNext ==
    ASSUME Placing, NEW F, NEW B,
           LaidOut(F, B, Known(Len(input.keys)), array'.size, array', work', table')
    PROVE  Complete'
  BY PlacingLaid DEF Complete, KnownKept

\* The array holds the words of the keys that are laid out so far, and at last
\* those of all.
ArrayWords ==
    /\ OrderInv /\ WordsInv
    /\ stage = "start" => \A s \in DOMAIN table : table[s] = 0
    /\ ~Misled /\ Len(input.keys) > 0 => /\ stage = "arrange" => Underway
                                         /\ stage = "done" => Complete
    /\ ~Misled /\ Len(input.keys) = 0 => /\ stage = "arrange" => array = Rooted /\ work = <<>>
                                         /\ stage = "done" => Empty(array)

LEMMA BuildInitHolds == BuildInit => ArrayWords
  <1> SUFFICES ASSUME BuildInit PROVE ArrayWords
    OBVIOUS
  <1> DEFINE t == << >>
  <1>1. stage \in {"insert", "start"} /\ table = t
    BY DEF BuildInit
  <1>2. DOMAIN t = {}
    BY EmptySeq
  <1> HIDE DEF t
  <1> QED
    BY <1>1, <1>2, BuildInitOrder, BuildInitWords DEF ArrayWords

LEMMA InsertKeyHolds ==
    ASSUME ArrayWords, InsertKey, OrderInv', WordsInv'
    PROVE  ArrayWords'
  <1>1. stage' \in {"insert", "error"}
    BY DEF InsertKey
  <1> QED
    BY <1>1 DEF ArrayWords

LEMMA FinishDawgHolds ==
    ASSUME ArrayWords, FinishDawg, OrderInv', WordsInv'
    PROVE  ArrayWords'
  <1>1. stage' = "start" /\ \A s \in DOMAIN table' : table'[s] = 0
    BY DEF FinishDawg
  <1> QED
    BY <1>1 DEF ArrayWords

LEMMA ThrownHolds ==
    ASSUME ArrayWords, OrderInv', WordsInv', stage' = "error"
    PROVE  ArrayWords'
  BY DEF ArrayWords

LEMMA InputIsKnown ==
    ASSUME KeysInv, ~Misled, stage \in {"start", "arrange", "done"}
    PROVE  InputKnown /\ Len(input.values) \in {0, Len(input.keys)} /\ Len(input.keys) \in Nat
  <1>1. input \in Inputs
    BY DEF KeysInv, AutomatonInv
  <1>2. Len(input.values) \in {0, Len(input.keys)} /\ Len(input.keys) \in Nat
    BY <1>1, InputsAssumption, InputTypes
  <1>3. ASSUME NEW m \in 1 .. Len(input.keys) PROVE Value(m) \in Nat
    <2>1. CASE Len(input.values) > 0
      <3>1. Fine(m)
        BY <2>1 DEF KeysInv
      <3>2. input.values[m] \in Int /\ input.values[m] >= 0
        BY <1>1, <2>1, <3>1, InputTypes DEF Fine
      <3> QED
        BY <2>1, <3>2 DEF Value
    <2>2. CASE ~ (Len(input.values) > 0)
      BY <1>2, <2>2 DEF Value
    <2> QED
      BY <2>1, <2>2
  <1> QED
    BY <1>1, <1>2, <1>3 DEF InputKnown

\* The first of the calls, for all keys.
LEMMA RootWords ==
    ASSUME InputKnown, Len(input.keys) > 0, NEW All, All = Known(Len(input.keys))
    PROVE  /\ All \subseteq Words /\ All # {}
           /\ WordsFrom(1, Len(input.keys) + 1, 1) = All
  <1> DEFINE M == Len(input.keys)
  <1>1. All \subseteq Words /\ M \in Nat /\ \A m \in 1 .. M : FirstFrom(1, m) => WordOf(m) \in All
    BY KnownIs
  <1>2. All # {}
    <2>1. 1 \in 1 .. M /\ FirstFrom(1, 1)
      BY <1>1 DEF FirstFrom
    <2> QED
      BY <1>1, <2>1
  <1> DEFINE S == {i \in 1 .. M : FirstFrom(1, i)}
  <1>3. All = {WordOf(m) : m \in S}
    BY DEF Known
  <1>4. WordsFrom(1, M + 1, 1) = {Drop(WordOf(m), 0) : m \in S}
    <2>1. 1 .. (M + 1) - 1 = 1 .. M /\ 1 - 1 = 0
      BY <1>1
    <2> QED
      BY <2>1 DEF WordsFrom
  <1>5. \A m \in S : Drop(WordOf(m), 0) = WordOf(m)
    <2>1. \A m \in S : WordOf(m) \in Words
      BY <1>1, <1>3
    <2>2. \A x \in Words : Drop(x, 0) = x
      BY DropIs
    <2> QED
      BY <2>1, <2>2
  <1> HIDE DEF S
  <1> QED
    BY <1>1, <1>2, <1>3, <1>4, <1>5 DEF M

\* Where the root has been placed.
LEMMA RootLaid ==
    ASSUME NEW F, NEW All, NEW c, c.id = 0, CallWords(c, F) = All, NEW w, Len(w) = 1, w[1] = c,
           NEW t, \A s \in DOMAIN t : t[s] = 0,
           Len(input.values) > 0 => Langs(dawg, F, All)
    PROVE  LaidOut(F, Nothing, All, Lo(Rooted.size), Rooted, w, t)
  <1>1. /\ Told(Rooted, Lo(Rooted.size), {0}, {0}) /\ Rooted.size = BlockSize
        /\ Rooted.units[0].label = 0 /\ ~Rooted.units[0].hasLeaf
    <2>1. 0 \in 0 .. BlockSize - 1
      BY Sizes
    <2> QED
      BY <2>1, RootTold
  <1>2. /\ Layout(Nothing) /\ Taken(Nothing) = {0} /\ Based(Nothing) = {0}
        /\ Stands(Nothing, All, 0, All) /\ Drawn(Rooted, Nothing, All, {0})
    BY <1>1, NothingLaid
  <1>3. Todo(w) = {0}
    BY DEF Todo
  <1>4. Separate(w) /\ \A m \in 1 .. Len(w) : Stands(Nothing, All, w[m].id, CallWords(w[m], F))
    BY <1>2 DEF Separate
  <1>5. Noted(F, Nothing, t)
    BY DEF Noted
  <1> HIDE DEF Rooted, Nothing
  <1> QED
    BY <1>1, <1>2, <1>3, <1>4, <1>5 DEF LaidOut

LEMMA PlaceRootHolds ==
    ASSUME ArrayWords, PlaceRoot, OrderInv', WordsInv'
    PROVE  ArrayWords'
  <1> DEFINE M == Len(input.keys)
             All == Known(M)
  <1>1. /\ Placing /\ stage = "start" /\ stage' = "arrange" /\ table' = table /\ work' = RootCall
        /\ \A s \in DOMAIN table : table[s] = 0
    BY DEF PlaceRoot, Placing, ArrayWords
  <1>2. array' = Rooted
    <2>1. array = InitArray
      BY <1>1 DEF ArrayWords, OrderInv, ArrayInv
    <2> QED
      BY <2>1 DEF PlaceRoot, Rooted
  <1>3. (Misled' <=> Misled) /\ input' = input
    BY <1>1, PlacingKeeps DEF Placing
  <1>4. KeysInv /\ WordsInv
    BY DEF ArrayWords, WordsInv
  <1>5. ASSUME ~Misled, M > 0 PROVE Underway'
    <2>1. InputKnown /\ Len(input.values) \in {0, M} /\ M \in Nat
      BY <1>1, <1>4, <1>5, InputIsKnown
    <2>2. All \subseteq Words /\ All # {} /\ WordsFrom(1, M + 1, 1) = All
      BY <1>5, <2>1, RootWords
    <2>3. CASE Len(input.values) > 0
      <3>1. Len(dawg.levels) = 1 /\ Said(dawg, All)
        BY <1>1, <1>4, <1>5, <2>3 DEF WordsInv
      <3>2. PICK F : Langs(dawg, F, All)
        BY <2>2, <3>1, SaidLangs
      <3> DEFINE c == [state |-> Root(dawg), id |-> 0]
      <3>3. Root(dawg) # 0 /\ F[Root(dawg)] = All
        BY <3>2 DEF Langs
      <3>4. RootCall = <<c>>
        BY <2>3, <3>3 DEF RootCall
      <3>5. c.id = 0 /\ CallWords(c, F) = All
        BY <2>3, <3>3 DEF CallWords
      <3> HIDE DEF c, All
      <3>6. Len(work') = 1 /\ work'[1] = c
        BY <1>1, <3>4
      <3>7. LaidOut(F, Nothing, All, Lo(Rooted.size), Rooted, work', table')
        BY <1>1, <3>2, <3>5, <3>6, RootLaid
      <3> QED
        BY <1>1, <1>2, <3>7, UnderwayNext DEF All
    <2>4. CASE ~ (Len(input.values) > 0)
      <3> DEFINE c == [begin |-> 1, end |-> M + 1, depth |-> 1, id |-> 0]
                 F == {}
      <3>4. RootCall = <<c>>
        BY <1>5, <2>1, <2>4 DEF RootCall
      <3>5. c.id = 0 /\ CallWords(c, F) = All
        BY <2>2, <2>4 DEF CallWords
      <3> HIDE DEF c, All, F
      <3>6. Len(work') = 1 /\ work'[1] = c
        BY <1>1, <3>4
      <3>7. LaidOut(F, Nothing, All, Lo(Rooted.size), Rooted, work', table')
        BY <1>1, <2>4, <3>5, <3>6, RootLaid
      <3> QED
        BY <1>1, <1>2, <3>7, UnderwayNext DEF All
    <2> QED
      BY <2>3, <2>4
  <1>6. ASSUME ~Misled, M = 0 PROVE work' = << >>
    <2>1. Len(input.values) \in {0, M}
      BY <1>1, <1>4, <1>6, InputIsKnown
    <2>2. RootCall = << >>
      BY <1>6, <2>1 DEF RootCall
    <2> QED
      BY <1>1, <2>2
  <1>7. M' = M /\ Rooted' = Rooted
    BY <1>3 DEF Rooted
  <1> QED
    BY <1>1, <1>2, <1>3, <1>5, <1>6, <1>7 DEF ArrayWords

LEMMA FixAllHolds ==
    ASSUME ArrayWords, FixAll, OrderInv', WordsInv'
    PROVE  ArrayWords'
  <1> DEFINE M == Len(input.keys)
             All == Known(M)
  <1>1. /\ Placing /\ stage = "arrange" /\ stage' = "done" /\ table' = table /\ work' = work
        /\ array' = AllFixed(array)
    BY DEF FixAll, Placing, AllFixed
  <1>2. (Misled' <=> Misled) /\ M' = M /\ M \in Nat
    <2>1. Misled' <=> Misled
      BY <1>1, PlacingKeeps
    <2>2. input \in Inputs /\ input' = input
      BY <1>1 DEF Placing, ArrayWords, OrderInv, ArrayInv, KeysInv, AutomatonInv
    <2> QED
      BY <2>1, <2>2, InputTypes
  <1>3. ASSUME ~Misled, M > 0 PROVE Complete'
    <2>1. PICK F, B : LaidOut(F, B, All, Lo(array.size), array, work, table)
      BY <1>1, <1>3 DEF ArrayWords, Underway
    <2> DEFINE K == Taken(B)
               P == Based(B)
    <2> HIDE DEF All
    <2>2. Layout(B) /\ Told(array, Lo(array.size), K, P) /\ Drawn(array, B, All, Todo(work))
      BY <2>1 DEF LaidOut
    <2>3. Plenty(K, P)
      BY <2>2, LayoutPlenty
    <2> HIDE DEF K, P
    <2>4. Told(array', array'.size, K, P) /\ Spares(array, array', K)
      BY <1>1, <2>2, <2>3, AllFixedTold
    <2>5. \A u \in K : array'.units[u] = array.units[u]
      BY <2>2, <2>4 DEF Told, Spares
    <2>6. Drawn(array', B, All, Todo(work))
      BY <2>2, <2>5, DrawnSame DEF K
    <2>7. LaidOut(F, B, All, array'.size, array', work', table')
      BY <1>1, <2>1, <2>2, <2>4, <2>6 DEF LaidOut, K, P
    <2> QED
      BY <1>1, <2>7, CompleteNext DEF All
  <1>4. ASSUME ~Misled, M = 0 PROVE Empty(array')
    <2>1. array = Rooted
      BY <1>1, <1>4 DEF ArrayWords
    <2> DEFINE zero == {0}
    <2>2. Plenty(zero, zero)
      <3>1. InitArray = InitArray /\ Layout(Nothing) /\ Taken(Nothing) = zero /\ Based(Nothing) = zero
        <4>1. 0 \in 0 .. Rooted.size - 1
          BY RootTold, Sizes
        <4>2. Rooted.units[0].label = 0 /\ ~Rooted.units[0].hasLeaf
          BY <4>1, RootTold
        <4> HIDE DEF Rooted
        <4> QED
          BY <4>2, NothingLaid
      <3> QED
        BY <3>1, LayoutPlenty
    <2>3. Told(Rooted, Lo(Rooted.size), zero, zero)
      BY RootTold
    <2>4. /\ Rooted.size = BlockSize
          /\ \A u \in 0 .. Rooted.size - 1 : Rooted.units[u].offset < BlockSize /\ ~Rooted.units[u].hasLeaf
      BY RootTold
    <2> HIDE DEF Rooted, zero
    <2>5. Told(array', array'.size, zero, zero) /\ Spares(Rooted, array', zero)
      BY <1>1, <2>1, <2>2, <2>3, AllFixedTold
    <2>6. ArrayOK(array') /\ array'.size = BlockSize
      BY <2>4, <2>5 DEF Told, Spares
    <2>7. ASSUME NEW u \in 0 .. array'.size - 1
          PROVE  array'.units[u].offset < BlockSize /\ ~array'.units[u].hasLeaf
      BY <2>4, <2>5 DEF Spares
    <2> QED
      BY <2>6, <2>7 DEF Empty
  <1>5. Empty(array)' <=> Empty(array')
    BY DEF Empty
  <1> QED
    BY <1>1, <1>2, <1>3, <1>4, <1>5 DEF ArrayWords

\* A unit that comes to refer to an offset, and nothing else.
ReusesOnly(a, e, id, o, leaf) ==
    /\ e.size = a.size /\ e.extras = a.extras
    /\ \A u \in 0 .. a.size - 1 : u # id => e.units[u] = a.units[u]
    /\ Settled(a.units[id], e.units[id], o, leaf)

LEMMA ReuseEffect ==
    ASSUME NEW a, ArrayOK(a), NEW id \in 0 .. a.size - 1, NEW o, NEW leaf \in BOOLEAN, NEW both,
           both = (a.units[id].hasLeaf \/ leaf),
           NEW e, e = [[a EXCEPT !.units[id].hasLeaf = both] EXCEPT !.units[id].offset = o]
    PROVE  ReusesOnly(a, e, id, o, leaf)
  <1> DEFINE c == [a EXCEPT !.units[id].hasLeaf = both]
  <1>1. DOMAIN a = {"size", "units", "extras", "head"} /\ DOMAIN a.units = 0 .. a.size - 1
    BY DEF ArrayOK
  <1>2. a.units[id] \in Units
    BY DEF ArrayOK
  <1>3. /\ c.size = a.size /\ c.extras = a.extras /\ DOMAIN c = DOMAIN a /\ DOMAIN c.units = DOMAIN a.units
        /\ \A u \in 0 .. a.size - 1 : c.units[u] = IF u = id THEN [a.units[id] EXCEPT !.hasLeaf = both] ELSE a.units[u]
    BY <1>1
  <1> HIDE DEF c
  <1>4. e = [c EXCEPT !.units[id].offset = o]
    BY DEF c
  <1>5. /\ e.size = c.size /\ e.extras = c.extras
        /\ \A u \in 0 .. a.size - 1 : e.units[u] = IF u = id THEN [c.units[id] EXCEPT !.offset = o] ELSE c.units[u]
    <2>1. DOMAIN c = {"size", "units", "extras", "head"} /\ DOMAIN c.units = 0 .. a.size - 1
      BY <1>1, <1>3
    <2>2. e.size = c.size /\ e.extras = c.extras
      BY <1>4, <2>1
    <2>3. e.units = [c.units EXCEPT ![id].offset = o]
      BY <1>4, <2>1
    <2>4. \A u \in 0 .. a.size - 1 : e.units[u] = IF u = id THEN [c.units[id] EXCEPT !.offset = o] ELSE c.units[u]
      BY <2>1, <2>3
    <2> QED
      BY <2>2, <2>4
  <1> DEFINE v == a.units[id]
             w == e.units[id]
  <1>6. w = [[v EXCEPT !.hasLeaf = both] EXCEPT !.offset = o] /\ v \in Units
    BY <1>2, <1>3, <1>5
  <1>7. \A u \in 0 .. a.size - 1 : u # id => e.units[u] = a.units[u]
    BY <1>3, <1>5
  <1>8. e.size = a.size /\ e.extras = a.extras
    BY <1>3, <1>5
  <1>9. both = (v.hasLeaf \/ leaf)
    OBVIOUS
  <1> HIDE DEF v, w
  <1>10. Settled(v, w, o, leaf)
    BY <1>6, <1>9 DEF Settled, Units
  <1> QED
    BY <1>7, <1>8, <1>10 DEF ReusesOnly, v, w

\* Calls whatever they are.
LEMMA SpliceAny ==
    ASSUME NEW S, NEW w \in Seq(S), w # <<>>, NEW N \in Nat, NEW C, NEW calls \in [1 .. N -> C],
           NEW e, e = calls \o Tail(w)
    PROVE  Spliced(w, calls, e) /\ Len(calls) = N
  <1> DEFINE T == S \cup C
  <1>1. S \subseteq T /\ \A m \in 1 .. N : calls[m] \in T
    OBVIOUS
  <1> HIDE DEF T
  <1>2. calls \in Seq(T) /\ Len(calls) = N
    <2>1. calls \in [1 .. N -> T]
      BY <1>1
    <2>2. calls \in Seq(T)
      BY <2>1
    <2> QED
      BY <2>1, <2>2, LenProperties
  <1>3. w \in Seq(T)
    BY <1>1
  <1> QED
    BY <1>2, <1>3, SpliceIs

\* A step that makes a call.
LEMMA UnderwayHolds ==
    ASSUME ArrayWords, OrderInv', WordsInv', Placing, stage = "arrange", stage' = "arrange",
           work # <<>>, ~Misled /\ Len(input.keys) > 0 => Underway'
    PROVE  ArrayWords'
  <1>1. (Misled' <=> Misled) /\ input' = input
    BY PlacingKeeps DEF Placing
  <1>2. Len(input.keys) \in Nat
    BY InputTypes DEF ArrayWords, OrderInv, ArrayInv, KeysInv, AutomatonInv
  <1>3. ~Misled => Len(input.keys) > 0
    BY <1>2 DEF ArrayWords
  <1> QED
    BY <1>1, <1>3 DEF ArrayWords

LEMMA FoundRoomy ==
    ASSUME NEW B, NEW a, Layout(B), Told(a, Lo(a.size), Taken(B), Based(B)), HasRing(a),
           NEW id \in 0 .. a.size - 1, NEW labels \in Seq(0 .. MaxLabel), Len(labels) >= 1,
           Distinct(labels), NEW values, \A m \in 1 .. Len(labels) : Stores(labels[m], values[m]),
           NEW o, o = FindOffset(a, id, labels), ~ (XorOf(id, o) >= MaxOffset)
    PROVE  Roomy(a, Based(B), o, labels, values) /\ o \in 1 .. MaxOffset - 1
  <1>1. ArrayOK(a) /\ a.size \in Nat /\ a.size % BlockSize = 0 /\ a.size <= MaxOffset
    BY DEF Told, ArrayOK
  <1>2. /\ o \in Numbers /\ o < a.size + BlockSize
        /\ \A child \in Children(o, labels) : Open(a, child)
        /\ o < a.size => o \in Window(a) /\ ~Extra(a, o).used
    BY <1>1, OffsetFound
  <1>3. MaxOffset \in Nat /\ BlockSize \in Nat
    BY Sizes
  <1>4. id \in Numbers /\ id < MaxOffset
    <2>1. id \in Nat /\ id < MaxOffset
      BY <1>1, <1>3
    <2> HIDE DEF MaxOffset
    <2> QED
      BY <1>3, <2>1 DEF Numbers
  <1>5. o < MaxOffset
    <2> DEFINE relative == XorOf(id, o)
    <2>1. relative \in Numbers /\ XorOf(id, relative) = o
      BY <1>2, <1>4, XorLaws, XorBack
    <2>2. relative < MaxOffset
      <3>1. ~ (relative >= MaxOffset)
        OBVIOUS
      <3> HIDE DEF relative, MaxOffset
      <3> QED
        BY <1>3, <2>1, <3>1 DEF Numbers
    <2> HIDE DEF relative
    <2>3. XorOf(id, relative) < MaxOffset
      BY <1>4, <2>1, <2>2, XorLaws
    <2> QED
      BY <2>1, <2>3
  <1>6. o \in Nat
    BY <1>2 DEF Numbers
  <1>7. o \notin Based(B)
    <2>1. CASE o < a.size
      <3>1. o \in Window(a) /\ ~Extra(a, o).used
        BY <1>2, <2>1
      <3>2. o \in Lo(a.size) .. a.size - 1
        <4>1. o \in 0 .. a.size - 1 /\ o >= a.size - Extras
          BY <3>1 DEF Window
        <4>2. o >= Lo(a.size) /\ Lo(a.size) \in Nat
          BY <1>1, <4>1, LoIs
        <4> QED
          BY <4>1, <4>2
      <3> QED
        BY <3>1, <3>2 DEF Told
    <2>2. CASE ~ (o < a.size)
      BY <1>1, <1>6, <2>2 DEF Told
    <2> QED
      BY <2>1, <2>2
  <1>8. o \in 1 .. MaxOffset - 1
    <2>1. o # 0
      BY <1>7 DEF Based
    <2> HIDE DEF MaxOffset
    <2> QED
      BY <1>3, <1>5, <1>6, <2>1
  <1>9. \A m \in 1 .. Len(labels) : Open(a, XorOf(o, labels[m]))
    BY <1>2 DEF Children
  <1> HIDE DEF MaxOffset, BlockSize
  <1> QED
    BY <1>2, <1>5, <1>7, <1>8, <1>9 DEF Roomy

\* The calls that are made, one for each place of a label other than 0.
LEMMA CallsForWhere ==
    ASSUME NEW labels \in Seq(0 .. MaxLabel), Distinct(labels), NEW o \in Numbers, NEW F, NEW X,
           NEW deeper, deeper = Where(labels), NEW calls, Len(calls) = Len(deeper),
           \A i \in 1 .. Len(deeper) : /\ calls[i].id = XorOf(o, labels[deeper[i]])
                                       /\ CallWords(calls[i], F) = Rest(X, labels[deeper[i]])
    PROVE  CallsFor(calls, F, X, o, labels)
  <1>1. Lists(deeper, {m \in Nat : labels[m] # 0}, 1, Len(labels))
    BY WhereLists
  <1>2. /\ Len(deeper) \in Nat
        /\ \A i \in 1 .. Len(deeper) : deeper[i] \in 1 .. Len(labels) /\ labels[deeper[i]] # 0
        /\ \A d \in 1 .. Len(labels) : labels[d] # 0 => \E i \in 1 .. Len(deeper) : deeper[i] = d
        /\ \A i, j \in 1 .. Len(deeper) : i < j => deeper[i] < deeper[j]
    BY <1>1 DEF Lists
  <1>3. \A d \in 1 .. Len(labels) : labels[d] \in Numbers
    <2> DEFINE R == 0 .. MaxLabel
    <2>2. \A l \in R : l \in Numbers
      BY ChildBlock
    <2>3. labels \in Seq(R)
      OBVIOUS
    <2> HIDE DEF R
    <2>1. \A d \in 1 .. Len(labels) : labels[d] \in R
      BY <2>3, ElementOfSeq
    <2> QED
      BY <2>1, <2>2
  <1>4. Separate(calls)
    <2> SUFFICES ASSUME NEW i \in 1 .. Len(deeper), NEW j \in 1 .. Len(deeper), calls[i].id = calls[j].id
                 PROVE  i = j
      BY DEF Separate
    <2> DEFINE l == labels[deeper[i]]
               k == labels[deeper[j]]
    <2>1. l \in Numbers /\ k \in Numbers /\ XorOf(o, l) = XorOf(o, k)
      BY <1>2, <1>3
    <2>2. XorOf(o, XorOf(o, l)) = l /\ XorOf(o, XorOf(o, k)) = k
      BY <2>1, XorBack
    <2>3. l = k
      BY <2>1, <2>2
    <2>4. deeper[i] = deeper[j] /\ deeper[i] \in Nat
      BY <1>2, <2>3 DEF Distinct
    <2> QED
      BY <1>2, <2>4
  <1> QED
    BY <1>2, <1>4 DEF CallsFor

\* What the words of a call's state go on with.
LEMMA StateCallGoes ==
    ASSUME ArrayInv, ~Misled, NEW c, NEW arcs, NEW labels, StateReady(c, arcs, labels),
           arcs = dawg.states[c.state],
           NEW F, NEW All, Langs(dawg, F, All), NEW S, S = Len(dawg.states),
           NEW X, X = F[c.state]
    PROVE  StateGoes(arcs, F, X, S) /\ X \subseteq Words /\ X # {}
  <1>1. /\ arcs \in Seq(Arc) /\ Len(arcs) >= 1 /\ Rising(arcs) /\ c.state \in 1 .. S
        /\ \A m \in 1 .. Len(arcs) :
              /\ arcs[m].label \in 0 .. MaxLabel
              /\ arcs[m].label = 0 => arcs[m].to \in Nat
              /\ arcs[m].label # 0 => arcs[m].to \in 1 .. S
    BY DEF StateReady
  <1>2. S \in Nat
    BY DEF ArrayInv, KeysInv, AutomatonInv, DawgInv
  <1>3. /\ F \in [1 .. S -> SUBSET Words] /\ \A s \in 1 .. S : F[s] # {}
        /\ X = StateWords(arcs, F, {})
    BY <1>1 DEF Langs
  <1>4. StateGoes(arcs, F, X, S)
    BY <1>1, <1>2, <1>3, StateGoesOn
  <1> QED
    BY <1>1, <1>3, <1>4

LEMMA ReuseStateHolds ==
    ASSUME ArrayWords, ReuseState, OrderInv', WordsInv'
    PROVE  ArrayWords'
  <1> DEFINE c == Call
             arcs == dawg.states[c.state]
             labels == ArcLabels(arcs)
             leaf == arcs[1].label = 0
             both == array.units[c.id].hasLeaf \/ leaf
             o == table[c.state]
             All == Known(Len(input.keys))
             calls == << >>
  <1>1. /\ Placing /\ stage = "arrange" /\ stage' = "arrange" /\ table' = table
        /\ work # <<>> /\ work' = calls \o Tail(work) /\ Reusable /\ "state" \in DOMAIN c
    BY DEF ReuseState, Placing, Done
  <1>2. Offset = o /\ o # 0 /\ c.state \in DOMAIN table
    BY <1>1 DEF Reusable, Offset
  <1>3. array' = [[array EXCEPT !.units[c.id].hasLeaf = both]
                       EXCEPT !.units[c.id].offset = XorOf(o, c.id)]
    BY <1>2 DEF ReuseState
  <1>4. c = work[1] /\ ArrayInv /\ ArrayOK(array) /\ work \in Seq(Calls)
    BY DEF Call, ArrayWords, OrderInv, ArrayInv
  <1>5. StateReady(c, arcs, labels)
    BY <1>1, <1>4, StateCallReady
  <1>6. leaf \in BOOLEAN
    OBVIOUS
  <1>7. Spliced(work, calls, work') /\ Len(calls) = 0
    <2>1. calls \in Seq(Calls) /\ Len(calls) = 0
      OBVIOUS
    <2> HIDE DEF calls
    <2> QED
      BY <1>1, <1>4, <2>1, SpliceIs
  <1> SUFFICES ASSUME ~Misled, Len(input.keys) > 0 PROVE Underway'
    BY <1>1, UnderwayHolds
  <1>8. PICK F, B : LaidOut(F, B, All, Lo(array.size), array, work, table)
    BY <1>1 DEF ArrayWords, Underway
  <1> DEFINE X == F[c.state]
             K == Taken(B)
             P == Based(B)
  <1>9. Len(input.values) > 0 /\ c.id \in 0 .. array.size - 1
    BY <1>5 DEF StateReady
  <1>10. Langs(dawg, F, All) /\ o \in DOMAIN B /\ B[o] = X /\ CallWords(c, F) = X
    BY <1>2, <1>8, <1>9 DEF LaidOut, Noted, CallWords
  <1>11. leaf <=> 0 \in Firsts(X)
    <2>1. StateGoes(arcs, F, X, Len(dawg.states))
      <3> HIDE DEF c, arcs, labels, All, X
      <3> QED
        BY <1>4, <1>5, <1>10, StateCallGoes DEF arcs, X
    <2> QED
      BY <2>1 DEF StateGoes
  <1> HIDE DEF c, arcs, labels, leaf, o, All, calls, X
  <1>12. ReusesOnly(array, array', c.id, XorOf(o, c.id), leaf)
    <2> HIDE DEF both
    <2> QED
      BY <1>3, <1>4, <1>6, <1>9, ReuseEffect DEF both
  <1>13. /\ Layout(B) /\ Told(array, Lo(array.size), K, P) /\ c.id \in K /\ c.id \in Numbers
    <2>1. Layout(B) /\ Told(array, Lo(array.size), K, P)
      BY <1>8 DEF LaidOut
    <2>2. c.id \in Todo(work)
      BY <1>4, <1>7 DEF Todo, Spliced
    <2>3. c.id \in Taken(B) /\ c.id \in Numbers
      BY <1>8, <2>2, TodoTaken
    <2> QED
      BY <2>1, <2>3
  <1>14. Told(array', Lo(array'.size), K, P)
    <2>1. ArrayOK(array')
      BY DEF OrderInv, ArrayInv
    <2> HIDE DEF K, P
    <2>2. \A u \in 0 .. array.size - 1 : u \notin K => array'.units[u] = array.units[u]
      BY <1>12, <1>13 DEF ReusesOnly
    <2>3. array'.size = array.size /\ array'.extras = array.extras
      BY <1>12 DEF ReusesOnly
    <2> QED
      BY <1>13, <2>1, <2>2, <2>3, RelabelTold
  <1>15. \A u \in K : u # c.id => array'.units[u] = array.units[u]
    BY <1>12, <1>13 DEF ReusesOnly, Told
  <1>16. Settled(array.units[c.id], array'.units[c.id], XorOf(c.id, o), leaf)
    <2>1. o \in Numbers
      <3> DEFINE none == o \in 1 .. MaxOffset - 1
      <3>1. o \in 1 .. MaxOffset - 1 /\ MaxOffset \in Nat
        BY <1>10, <1>13, Sizes DEF Layout
      <3> HIDE DEF MaxOffset
      <3> QED
        BY <3>1 DEF Numbers
    <2>2. XorOf(o, c.id) = XorOf(c.id, o)
      BY <1>13, <2>1, XorLaws
    <2> QED
      BY <1>12, <2>2 DEF ReusesOnly
  <1>17. LaidOut(F, B, All, Lo(array'.size), array', work', table')
    <2> DEFINE id == c.id
               e == array'
               v == work'
    <2>1. id = work[1].id /\ X = CallWords(work[1], F) /\ o \in DOMAIN B /\ B[o] = X
      BY <1>4, <1>10
    <2>2. Told(e, Lo(e.size), Taken(B), Based(B)) /\ \A k \in Taken(B) : k # id => e.units[k] = array.units[k]
      BY <1>14, <1>15 DEF K, P
    <2>3. Refound(array.units[id], e.units[id], XorOf(id, o), X)
      BY <1>6, <1>11, <1>16 DEF Refound
    <2>4. Spliced(work, calls, v) /\ Len(calls) = 0
      BY <1>7
    <2> HIDE DEF id, e, v
    <2>5. LaidOut(F, B, All, Lo(e.size), e, v, table)
      BY <1>8, <2>1, <2>2, <2>3, <2>4, LaidReused
    <2> QED
      BY <1>1, <2>5 DEF e, v
  <1> QED
    BY <1>1, <1>17, UnderwayNext DEF All

LEMMA RisingDistinct ==
    ASSUME NEW arcs, Rising(arcs), \A m \in 1 .. Len(arcs) : arcs[m].label \in 0 .. MaxLabel,
           Len(arcs) \in Nat, NEW labels, Len(labels) = Len(arcs),
           \A m \in 1 .. Len(arcs) : labels[m] = arcs[m].label
    PROVE  Distinct(labels)
  <1> SUFFICES ASSUME NEW m \in 1 .. Len(labels), NEW k \in 1 .. Len(labels), labels[m] = labels[k]
               PROVE  m = k
    BY DEF Distinct
  <1>1. m \in 1 .. Len(arcs) /\ k \in 1 .. Len(arcs) /\ m \in Nat /\ k \in Nat
    OBVIOUS
  <1>2. arcs[m].label = arcs[k].label /\ arcs[m].label \in Int
    BY <1>1, MaxLabelAssumption
  <1>3. ~ (m < k) /\ ~ (k < m)
    <2>1. m < k => arcs[m].label < arcs[k].label
      BY <1>1 DEF Rising
    <2>2. k < m => arcs[k].label < arcs[m].label
      BY <1>1 DEF Rising
    <2> QED
      BY <1>2, <2>1, <2>2
  <1> QED
    BY <1>1, <1>3

LEMMA ArrangeStateHolds ==
    ASSUME ArrayWords, ArrangeState, OrderInv', WordsInv'
    PROVE  ArrayWords'
  <1> DEFINE c == Call
             arcs == dawg.states[c.state]
             labels == ArcLabels(arcs)
             values == [m \in 1 .. Len(arcs) |-> arcs[m].to]
             o == FindOffset(array, c.id, labels)
             deeper == Where(labels)
             calls == [m \in 1 .. Len(deeper) |->
                         [state |-> arcs[deeper[m]].to, id |-> XorOf(o, labels[deeper[m]])]]
             All == Known(Len(input.keys))
  <1>1. Placing /\ stage = "arrange" /\ work # <<>> /\ "state" \in DOMAIN c
    BY DEF ArrangeState, Placing
  <1>2. \/ stage' = "error"
        \/ /\ ~ (XorOf(c.id, o) >= MaxOffset)
           /\ array' = Arrange(array, c.id, o, labels, values)
           /\ \/ table' = table
              \/ table' = [table EXCEPT ![c.state] = o]
           /\ work' = calls \o Tail(work)
           /\ stage' = stage
    BY DEF ArrangeState, Done, ArcLabels
  <1>3. c = work[1] /\ ArrayInv /\ ArrayOK(array) /\ work \in Seq(Calls)
    BY DEF Call, ArrayWords, OrderInv, ArrayInv
  <1>4. StateReady(c, arcs, labels)
    BY <1>1, <1>3, StateCallReady
  <1>5. \A m \in 1 .. Len(arcs) : values[m] = arcs[m].to
    OBVIOUS
  <1>6. CASE stage' = "error"
    BY <1>6, ThrownHolds
  <1>7. CASE /\ ~ (XorOf(c.id, o) >= MaxOffset)
             /\ array' = Arrange(array, c.id, o, labels, values)
             /\ \/ table' = table
                \/ table' = [table EXCEPT ![c.state] = o]
             /\ work' = calls \o Tail(work)
             /\ stage' = stage
    <2>1. stage' = "arrange"
      BY <1>1, <1>7
    <2> SUFFICES ASSUME ~Misled, Len(input.keys) > 0 PROVE Underway'
      BY <1>1, <2>1, UnderwayHolds
    <2>2. PICK F, B : LaidOut(F, B, All, Lo(array.size), array, work, table)
      BY <1>1 DEF ArrayWords, Underway
    <2> DEFINE X == F[c.state]
    <2>3. Len(deeper) \in Nat /\ \A i \in 1 .. Len(deeper) : deeper[i] \in 1 .. Len(labels) /\ labels[deeper[i]] # 0
      <3> HIDE DEF c, labels
      <3>1. Len(labels) \in Nat
        BY <1>4 DEF StateReady
      <3>2. Lists(deeper, {m \in Nat : labels[m] # 0}, 1, Len(labels))
        BY <3>1, WhereLists
      <3> HIDE DEF deeper
      <3> QED
        BY <3>2 DEF Lists
    <2> DEFINE called == {calls[m] : m \in 1 .. Len(deeper)}
    <2>4. calls \in [1 .. Len(deeper) -> called]
      OBVIOUS
    <2>5. \A i \in 1 .. Len(deeper) : /\ calls[i].id = XorOf(o, labels[deeper[i]])
                                      /\ calls[i].state = arcs[deeper[i]].to
      OBVIOUS
    <2> HIDE DEF c, arcs, labels, values, o, deeper, calls, All, X, called
    <2>6. /\ Len(input.values) > 0 /\ c.id \in 0 .. array.size - 1
          /\ Len(arcs) >= 1 /\ Len(arcs) \in Nat /\ Rising(arcs)
          /\ \A m \in 1 .. Len(arcs) :
                /\ arcs[m].label \in 0 .. MaxLabel
                /\ arcs[m].label = 0 => arcs[m].to \in Nat
          /\ labels \in Seq(0 .. MaxLabel) /\ Len(labels) = Len(arcs)
          /\ \A m \in 1 .. Len(arcs) : labels[m] = arcs[m].label
      BY <1>4 DEF StateReady
    <2>7. Langs(dawg, F, All) /\ CallWords(work[1], F) = X
      BY <1>3, <2>2, <2>6 DEF LaidOut, CallWords, X
    <2>8. StateGoes(arcs, F, X, Len(dawg.states)) /\ X \subseteq Words /\ X # {}
      BY <1>3, <1>4, <2>7, StateCallGoes DEF arcs, X
    <2>9. Offers(X, labels, values)
      BY <1>5, <2>6, <2>8 DEF StateGoes, Offers
    <2>10. Distinct(labels)
      BY <2>6, RisingDistinct
    <2>11. \A m \in 1 .. Len(labels) : Stores(labels[m], values[m])
      BY <1>5, <2>6 DEF Stores
    <2>12. Roomy(array, Based(B), o, labels, values) /\ o \in 1 .. MaxOffset - 1
      <3>1. Layout(B) /\ Told(array, Lo(array.size), Taken(B), Based(B))
        BY <2>2 DEF LaidOut
      <3>2. HasRing(array) /\ Len(labels) >= 1
        BY <1>1, <1>3, <2>6 DEF ArrayInv
      <3>3. o = FindOffset(array, c.id, labels) /\ ~ (XorOf(c.id, o) >= MaxOffset)
        BY <1>7 DEF o
      <3> QED
        BY <2>6, <2>10, <2>11, <3>1, <3>2, <3>3, FoundRoomy
    <2>13. Spliced(work, calls, work') /\ Len(calls) = Len(deeper)
      BY <1>1, <1>3, <1>7, <2>3, <2>4, SpliceAny
    <2>14. CallsFor(calls, F, X, o, labels)
      <3>1. \A i \in 1 .. Len(deeper) : CallWords(calls[i], F) = Rest(X, labels[deeper[i]])
        <4> SUFFICES ASSUME NEW i \in 1 .. Len(deeper) PROVE CallWords(calls[i], F) = Rest(X, labels[deeper[i]])
          OBVIOUS
        <4> DEFINE d == deeper[i]
        <4>1. d \in 1 .. Len(arcs) /\ arcs[d].label # 0 /\ labels[d] = arcs[d].label /\ calls[i].state = arcs[d].to
          BY <2>3, <2>5, <2>6
        <4> HIDE DEF d
        <4>2. Rest(X, arcs[d].label) = F[arcs[d].to]
          BY <2>8, <4>1 DEF StateGoes
        <4> QED
          BY <2>6, <4>1, <4>2 DEF CallWords, d
      <3>2. o \in Numbers
        BY <2>12 DEF Roomy
      <3> QED
        BY <2>5, <2>6, <2>10, <2>13, <3>1, <3>2, CallsForWhere DEF deeper
    <2>15. NotedNext(F, X, o, table, table')
      BY <1>7 DEF NotedNext, X
    <2> DEFINE C == More(B, o, X)
               id == c.id
               e == array'
               v == work'
               u == table'
    <2>16. id = work[1].id /\ e = Arrange(array, id, o, labels, values)
      BY <1>3, <1>7
    <2>17. Spliced(work, calls, v) /\ NotedNext(F, X, o, table, u)
      BY <2>13, <2>15
    <2> HIDE DEF C, id, e, v, u
    <2>18. LaidOut(F, C, All, Lo(e.size), e, v, u)
      BY <2>2, <2>7, <2>9, <2>12, <2>14, <2>16, <2>17, LaidMore DEF C
    <2> QED
      BY <1>1, <2>18, UnderwayNext DEF All, e, v, u
  <1> QED
    BY <1>2, <1>6, <1>7

\* What build_from_keyset has where it goes on: keys with different labels are in
\* different groups.
KeysKnown(c, groups, labels) ==
    KeysReady(c, groups, labels) /\ InputKnown /\ Agreed(input.keys, c) /\ Distinct(labels)

InGroup(c, groups, i, m) == m \in groups[i] .. GroupEnd(c, groups, i) - 1

LEMMA GroupOf ==
    ASSUME NEW c, NEW groups, NEW labels, KeysKnown(c, groups, labels), NEW m \in c.begin .. c.end - 1
    PROVE  /\ \E i \in 1 .. Len(groups) : InGroup(c, groups, i, m)
           /\ \A i \in 1 .. Len(groups) : InGroup(c, groups, i, m) <=> Label(c, m) = labels[i]
  <1>1. Grouped(c, groups) /\ Len(labels) = Len(groups)
    BY DEF KeysKnown, KeysReady
  <1>2. \A i \in 1 .. Len(groups) : labels[i] = Label(c, groups[i])
    BY DEF KeysKnown, KeysReady
  <1>3. PICK i \in 1 .. Len(groups) : InGroup(c, groups, i, m)
    BY <1>1 DEF Grouped, InGroup
  <1>4. \A j \in 1 .. Len(groups) : InGroup(c, groups, j, m) => Label(c, m) = labels[j]
    BY <1>1, <1>2 DEF Grouped, InGroup
  <1>5. ASSUME NEW j \in 1 .. Len(groups), Label(c, m) = labels[j] PROVE InGroup(c, groups, j, m)
    <2>1. labels[i] = labels[j]
      BY <1>3, <1>4, <1>5
    <2>2. i = j
      BY <1>1, <2>1 DEF KeysKnown, Distinct
    <2> QED
      BY <1>3, <2>2
  <1> QED
    BY <1>3, <1>4, <1>5

LEMMA GroupIs ==
    ASSUME NEW c, NEW groups, NEW labels, KeysKnown(c, groups, labels), NEW i \in 1 .. Len(groups)
    PROVE  /\ groups[i] \in c.begin .. c.end - 1 /\ groups[i] \in Nat
           /\ InGroup(c, groups, i, groups[i]) /\ Label(c, groups[i]) = labels[i]
           /\ \A m : InGroup(c, groups, i, m) => m \in c.begin .. c.end - 1 /\ m \in Nat /\ groups[i] <= m
  <1>1. /\ groups[i] \in c.begin .. c.end - 1 /\ groups[i] < GroupEnd(c, groups, i)
        /\ GroupEnd(c, groups, i) \in c.begin .. c.end
    BY DEF KeysKnown, KeysReady, Grouped
  <1>2. c.begin \in Nat /\ c.end \in Nat /\ labels[i] = Label(c, groups[i])
    BY DEF KeysKnown, KeysReady
  <1> QED
    BY <1>1, <1>2 DEF InGroup

\* Of keys that are the same the first is in the group of the others.
LEMMA GroupFirst ==
    ASSUME NEW c, NEW groups, NEW labels, KeysKnown(c, groups, labels), NEW i \in 1 .. Len(groups),
           NEW m, InGroup(c, groups, i, m)
    PROVE  FirstFrom(c.begin, m) <=> FirstFrom(groups[i], m)
  <1>1. /\ groups[i] \in c.begin .. c.end - 1 /\ groups[i] \in Nat /\ groups[i] <= m
        /\ m \in c.begin .. c.end - 1 /\ m \in Nat
    BY GroupIs
  <1>2. c.begin \in Nat /\ c.end \in Nat
    BY DEF KeysKnown, KeysReady
  <1>3. ASSUME NEW j \in c.begin .. m - 1, input.keys[j] = input.keys[m] PROVE j \in groups[i] .. m - 1
    <2>1. j \in c.begin .. c.end - 1 /\ Label(c, j) = Label(c, m)
      BY <1>1, <1>2, <1>3 DEF Label
    <2>2. Label(c, m) = labels[i]
      BY <1>1, GroupOf
    <2>3. InGroup(c, groups, i, j)
      BY <2>1, <2>2, GroupOf
    <2>4. groups[i] <= j /\ j \in Nat
      BY <2>3, GroupIs
    <2> QED
      BY <1>1, <1>2, <2>4
  <1>4. \A j \in groups[i] .. m - 1 : j \in c.begin .. m - 1
    BY <1>1, <1>2
  <1> QED
    BY <1>3, <1>4 DEF FirstFrom

\* What of the word of a key is behind the labels before the depth of a call.
WordGoes(c, m, x) ==
    /\ x \in Words /\ x[0] = Label(c, m) /\ (x[0] = 0 => x[1] = m - 1)
    /\ Drop(x, 1) = Drop(WordOf(m), c.depth)

LEMMA WordAt ==
    ASSUME NEW c, NEW groups, NEW labels, KeysKnown(c, groups, labels), NEW m \in c.begin .. c.end - 1,
           NEW x, x = Drop(WordOf(m), c.depth - 1)
    PROVE  WordGoes(c, m, x)
  <1> DEFINE k == input.keys[m]
             w == WordOf(m)
             d == c.depth - 1
  <1>1. /\ c.begin \in Nat \ {0} /\ c.end \in Nat /\ c.end <= Len(input.keys) + 1 /\ c.depth \in Nat \ {0}
        /\ Len(input.keys) \in Nat /\ Len(input.values) = 0
    BY DEF KeysKnown, KeysReady
  <1>2. m \in 1 .. Len(input.keys)
    BY <1>1
  <1>3. k \in Seq(1 .. MaxLabel) /\ Value(m) \in Nat /\ Value(m) = m - 1
    <2>1. input \in Inputs /\ Value(m) \in Nat
      BY <1>2 DEF KeysKnown, InputKnown
    <2> QED
      BY <1>1, <1>2, <2>1, InputTypes DEF Value
  <1>4. c.depth <= Len(k) + 1 /\ Len(k) \in Nat
    <2>1. c.depth <= Len(k) + 1
      BY DEF KeysKnown, Agreed
    <2> QED
      BY <1>3, <2>1, LenProperties
  <1>5. d \in Nat /\ d \in 0 .. Len(k) /\ d + 1 = c.depth
    BY <1>1, <1>4
  <1> HIDE DEF d
  <1> DEFINE v == Value(m)
  <1>6. w = KeyWord(k, v)
    BY DEF WordOf
  <1> HIDE DEF k, w, v
  <1>7. /\ w \in Words /\ w[d] = LabelAt(k, d + 1) /\ (w[d] = 0 <=> d = Len(k))
        /\ w[Len(k) + 1] = v
    BY <1>3, <1>5, <1>6, KeyWordIs DEF v
  <1>8. x = Drop(w, d)
    BY DEF w, d
  <1>9. /\ x \in Words /\ \A i \in Nat : x[i] = w[i + d]
        /\ Drop(x, 1) = Drop(w, d + 1)
    <2>1. /\ Drop(w, d) \in Words /\ \A i \in Nat : Drop(w, d)[i] = w[i + d]
          /\ \A e \in Nat : Drop(Drop(w, d), e) = Drop(w, d + e)
      BY <1>5, <1>7, DropIs
    <2>2. Drop(Drop(w, d), 1) = Drop(w, d + 1)
      BY <2>1
    <2> QED
      BY <1>8, <2>1, <2>2
  <1>10. x[0] = w[d] /\ x[1] = w[d + 1]
    <2>1. x[0] = w[0 + d] /\ x[1] = w[1 + d] /\ 0 + d = d /\ 1 + d = d + 1
      BY <1>5, <1>9
    <2> QED
      BY <2>1
  <1>11. x[0] = Label(c, m)
    BY <1>5, <1>7, <1>10 DEF Label, k
  <1>12. x[0] = 0 => x[1] = m - 1
    BY <1>3, <1>7, <1>10 DEF v
  <1> QED
    BY <1>5, <1>9, <1>11, <1>12 DEF WordGoes, w

\* The keys of a call that end at its depth are the same.
LEMMA EndsSame ==
    ASSUME NEW c, NEW groups, NEW labels, KeysKnown(c, groups, labels),
           NEW j \in c.begin .. c.end - 1, NEW k \in c.begin .. c.end - 1, Label(c, j) = 0, Label(c, k) = 0
    PROVE  input.keys[j] = input.keys[k]
  <1>1. /\ c.begin \in Nat \ {0} /\ c.end \in Nat /\ c.end <= Len(input.keys) + 1 /\ c.depth \in Nat \ {0}
        /\ Len(input.keys) \in Nat
    BY DEF KeysKnown, KeysReady
  <1>2. input \in Inputs /\ Agreed(input.keys, c)
    BY DEF KeysKnown, InputKnown
  <1>3. ~Before(input.keys[j], input.keys[k]) /\ ~Before(input.keys[k], input.keys[j])
    BY <1>1, <1>2, EndsAlike
  <1>4. j \in 1 .. Len(input.keys) /\ k \in 1 .. Len(input.keys)
    BY <1>1
  <1>5. input.keys[j] \in Seq(1 .. MaxLabel) /\ input.keys[k] \in Seq(1 .. MaxLabel)
    BY <1>2, <1>4, InputTypes
  <1> QED
    BY <1>3, <1>5, SameOrBefore

\* The keys of a call: their words behind its depth, and the first of each group.
LEMMA KeysFirst ==
    ASSUME NEW c, NEW groups, NEW labels, KeysKnown(c, groups, labels),
           NEW X, X = WordsFrom(c.begin, c.end, c.depth)
    PROVE  /\ \A x \in X : \E m \in c.begin .. c.end - 1 :
                 FirstFrom(c.begin, m) /\ x = Drop(WordOf(m), c.depth - 1) /\ WordGoes(c, m, x)
           /\ \A m \in c.begin .. c.end - 1 :
                 FirstFrom(c.begin, m) => Drop(WordOf(m), c.depth - 1) \in X
           /\ \A i \in 1 .. Len(groups) : FirstFrom(c.begin, groups[i])
  <1>1. ASSUME NEW x \in X
        PROVE  \E m \in c.begin .. c.end - 1 :
                 FirstFrom(c.begin, m) /\ x = Drop(WordOf(m), c.depth - 1) /\ WordGoes(c, m, x)
    <2>1. PICK m \in c.begin .. c.end - 1 : FirstFrom(c.begin, m) /\ x = Drop(WordOf(m), c.depth - 1)
      BY DEF WordsFrom
    <2> QED
      BY <2>1, WordAt
  <1>2. ASSUME NEW i \in 1 .. Len(groups) PROVE FirstFrom(c.begin, groups[i])
    <2> DEFINE g == groups[i]
    <2>1. InGroup(c, groups, i, g) /\ g \in Nat
      BY GroupIs
    <2> HIDE DEF g
    <2>2. FirstFrom(c.begin, g) <=> FirstFrom(groups[i], g)
      BY <2>1, GroupFirst
    <2>3. FirstFrom(g, g)
      BY <2>1 DEF FirstFrom
    <2> QED
      BY <2>2, <2>3 DEF g
  <1>3. \A m \in c.begin .. c.end - 1 : FirstFrom(c.begin, m) => Drop(WordOf(m), c.depth - 1) \in X
    BY DEF WordsFrom
  <1> QED
    BY <1>1, <1>2, <1>3

LEMMA KeysOffer ==
    ASSUME NEW c, NEW groups, NEW labels, KeysKnown(c, groups, labels),
           NEW X, X = WordsFrom(c.begin, c.end, c.depth),
           NEW values, \A m \in 1 .. Len(groups) : values[m] = groups[m] - 1
    PROVE  Offers(X, labels, values)
  <1>1. Len(labels) = Len(groups) /\ Len(groups) >= 1
    BY DEF KeysKnown, KeysReady, Grouped
  <1>2. \A x \in X : x \in Words /\ \E i \in 1 .. Len(groups) : x[0] = labels[i]
    <2> SUFFICES ASSUME NEW x \in X PROVE x \in Words /\ \E i \in 1 .. Len(groups) : x[0] = labels[i]
      OBVIOUS
    <2>1. PICK m \in c.begin .. c.end - 1 : WordGoes(c, m, x)
      BY KeysFirst
    <2>2. \E i \in 1 .. Len(groups) : Label(c, m) = labels[i]
      BY GroupOf
    <2> QED
      BY <2>1, <2>2 DEF WordGoes
  <1>3. \A i \in 1 .. Len(groups) : \E x \in X : x[0] = labels[i]
    <2> SUFFICES ASSUME NEW i \in 1 .. Len(groups) PROVE \E x \in X : x[0] = labels[i]
      OBVIOUS
    <2> DEFINE g == groups[i]
               x == Drop(WordOf(g), c.depth - 1)
    <2>1. g \in c.begin .. c.end - 1 /\ Label(c, g) = labels[i] /\ FirstFrom(c.begin, g)
      BY GroupIs, KeysFirst
    <2> HIDE DEF g
    <2>2. x \in X
      BY <2>1, KeysFirst
    <2>3. WordGoes(c, g, x)
      BY <2>1, WordAt
    <2> HIDE DEF x
    <2> QED
      BY <2>1, <2>2, <2>3 DEF WordGoes
  <1>4. Firsts(X) = {labels[m] : m \in 1 .. Len(labels)}
    BY <1>1, <1>2, <1>3 DEF Firsts
  <1>5. X # {}
    BY <1>1, <1>3
  <1>6. ASSUME NEW x \in X, NEW i \in 1 .. Len(groups), x[0] = 0, labels[i] = 0 PROVE x[1] = values[i]
    <2>1. PICK m \in c.begin .. c.end - 1 : FirstFrom(c.begin, m) /\ WordGoes(c, m, x)
      BY KeysFirst
    <2> DEFINE g == groups[i]
    <2>2. i \in 1 .. Len(groups) /\ Label(c, m) = labels[i] /\ Label(c, m) = 0
      BY <1>1, <1>6, <2>1 DEF WordGoes
    <2>3. g \in c.begin .. c.end - 1 /\ g \in Nat /\ Label(c, g) = labels[i]
      BY GroupIs
    <2>4. InGroup(c, groups, i, m)
      BY <2>2, GroupOf
    <2>5. g <= m /\ m \in Nat
      BY <2>2, <2>4, GroupIs
    <2> HIDE DEF g
    <2>6. input.keys[g] = input.keys[m]
      BY <1>6, <2>2, <2>3, EndsSame
    <2>7. g = m
      <3> SUFFICES ASSUME g < m PROVE FALSE
        BY <2>3, <2>5
      <3>1. c.begin \in Nat
        BY DEF KeysKnown, KeysReady
      <3>2. g \in c.begin .. m - 1
        BY <2>3, <2>5, <3>1
      <3> QED
        BY <2>1, <2>6, <3>2 DEF FirstFrom
    <2> QED
      BY <1>6, <2>1, <2>2, <2>7 DEF WordGoes, g
  <1> QED
    BY <1>1, <1>2, <1>4, <1>5, <1>6 DEF Offers

\* The call for a group is to lay out what is behind its label.
LEMMA GroupWords ==
    ASSUME NEW c, NEW groups, NEW labels, KeysKnown(c, groups, labels),
           NEW X, X = WordsFrom(c.begin, c.end, c.depth), NEW d \in 1 .. Len(groups)
    PROVE  WordsFrom(groups[d], GroupEnd(c, groups, d), c.depth + 1) = Rest(X, labels[d])
  <1> DEFINE g == groups[d]
             Y == WordsFrom(groups[d], GroupEnd(c, groups, d), c.depth + 1)
  <1>1. (c.depth + 1) - 1 = c.depth
    BY DEF KeysKnown, KeysReady
  <1>2. ASSUME NEW y \in Y PROVE y \in Rest(X, labels[d])
    <2>1. PICK m \in groups[d] .. GroupEnd(c, groups, d) - 1 : FirstFrom(groups[d], m) /\ y = Drop(WordOf(m), c.depth)
      BY <1>1 DEF WordsFrom
    <2>2. InGroup(c, groups, d, m)
      BY DEF InGroup
    <2>3. m \in c.begin .. c.end - 1
      BY <2>2, GroupIs
    <2>4. FirstFrom(c.begin, m) /\ Label(c, m) = labels[d]
      BY <2>1, <2>2, <2>3, GroupFirst, GroupOf
    <2> DEFINE x == Drop(WordOf(m), c.depth - 1)
    <2>5. x \in X
      BY <2>3, <2>4, KeysFirst
    <2>6. WordGoes(c, m, x)
      BY <2>3, WordAt
    <2> HIDE DEF x
    <2> QED
      BY <2>1, <2>4, <2>5, <2>6 DEF WordGoes, Rest
  <1>3. ASSUME NEW y \in Rest(X, labels[d]) PROVE y \in Y
    <2>1. PICK x \in X : x[0] = labels[d] /\ y = Drop(x, 1)
      BY DEF Rest
    <2>2. PICK m \in c.begin .. c.end - 1 : FirstFrom(c.begin, m) /\ WordGoes(c, m, x)
      BY KeysFirst
    <2>3. InGroup(c, groups, d, m)
      BY <2>1, <2>2, GroupOf DEF WordGoes
    <2>4. FirstFrom(groups[d], m)
      BY <2>2, <2>3, GroupFirst
    <2>5. y = Drop(WordOf(m), c.depth) /\ m \in groups[d] .. GroupEnd(c, groups, d) - 1
      BY <2>1, <2>2, <2>3 DEF WordGoes, InGroup
    <2> QED
      BY <1>1, <2>4, <2>5 DEF WordsFrom
  <1> QED
    BY <1>2, <1>3

\* Where no label is below the one before, all differ.
LEMMA LabelsDistinct ==
    ASSUME NEW c, NEW groups, NEW labels, KeysReady(c, groups, labels),
           \A m \in 2 .. Len(labels) : ~ (labels[m] < labels[m - 1])
    PROVE  Distinct(labels)
  <1>1. Len(labels) \in Nat /\ \A m \in 1 .. Len(labels) : labels[m] \in Nat
    BY DEF KeysReady
  <1>2. ASSUME NEW m \in 2 .. Len(labels) PROVE labels[m - 1] < labels[m]
    <2>1. labels[m] # labels[m - 1] /\ labels[m] \in Nat /\ labels[m - 1] \in Nat
      BY GroupsDiffer
    <2>2. ~ (labels[m] < labels[m - 1])
      OBVIOUS
    <2> QED
      BY <2>1, <2>2
  <1>3. \A i, j \in 1 .. Len(labels) : i < j => labels[i] < labels[j]
    BY <1>1, <1>2, StepsRise
  <1>4. ASSUME NEW i \in 1 .. Len(labels), NEW j \in 1 .. Len(labels), labels[i] = labels[j]
        PROVE  i = j
    <2>1. labels[i] \in Nat /\ i \in Nat /\ j \in Nat
      BY <1>1
    <2>2. ~ (i < j) /\ ~ (j < i)
      BY <1>3, <1>4, <2>1
    <2> QED
      BY <2>1, <2>2
  <1> QED
    BY <1>4 DEF Distinct

LEMMA ArrangeKeysHolds ==
    ASSUME ArrayWords, ArrangeKeys, OrderInv', WordsInv'
    PROVE  ArrayWords'
  <1> DEFINE c == Call
             groups == Groups(c)
             labels == GroupLabels(c)
             values == [m \in 1 .. Len(groups) |-> groups[m] - 1]
             o == FindOffset(array, c.id, labels)
             deeper == Where(labels)
             calls == [m \in 1 .. Len(deeper) |->
                         [begin |-> groups[deeper[m]],
                          end |-> IF deeper[m] = Len(groups) THEN c.end ELSE groups[deeper[m] + 1],
                          depth |-> c.depth + 1,
                          id |-> XorOf(o, labels[deeper[m]])]]
             disorder == \E m \in 2 .. Len(labels) : labels[m] < labels[m - 1]
             All == Known(Len(input.keys))
  <1>1. Placing /\ stage = "arrange" /\ work # <<>> /\ "begin" \in DOMAIN c
    BY DEF ArrangeKeys, Placing
  <1>2. \/ stage' = "error"
        \/ /\ ~disorder /\ ~ (XorOf(c.id, o) >= MaxOffset)
           /\ array' = Arrange(array, c.id, o, labels, values)
           /\ table' = table
           /\ work' = calls \o Tail(work)
           /\ stage' = stage
    BY DEF ArrangeKeys, Done, GroupLabels
  <1>3. c = work[1] /\ ArrayInv /\ ArrayOK(array) /\ work \in Seq(Calls)
    BY DEF Call, ArrayWords, OrderInv, ArrayInv
  <1>4. KeysReady(c, groups, labels)
    BY <1>1, <1>3, KeysCallReady
  <1>5. \A m \in 1 .. Len(groups) : values[m] = groups[m] - 1
    OBVIOUS
  <1>6. CASE stage' = "error"
    BY <1>6, ThrownHolds
  <1>7. CASE /\ ~disorder /\ ~ (XorOf(c.id, o) >= MaxOffset)
             /\ array' = Arrange(array, c.id, o, labels, values)
             /\ table' = table
             /\ work' = calls \o Tail(work)
             /\ stage' = stage
    <2>1. stage' = "arrange"
      BY <1>1, <1>7
    <2> SUFFICES ASSUME ~Misled, Len(input.keys) > 0 PROVE Underway'
      BY <1>1, <2>1, UnderwayHolds
    <2>2. PICK F, B : LaidOut(F, B, All, Lo(array.size), array, work, table)
      BY <1>1 DEF ArrayWords, Underway
    <2> DEFINE X == WordsFrom(c.begin, c.end, c.depth)
    <2>3. Len(deeper) \in Nat /\ \A i \in 1 .. Len(deeper) : deeper[i] \in 1 .. Len(labels) /\ labels[deeper[i]] # 0
      <3> HIDE DEF c, labels
      <3>1. Len(labels) \in Nat
        BY <1>4 DEF KeysReady
      <3>2. Lists(deeper, {m \in Nat : labels[m] # 0}, 1, Len(labels))
        BY <3>1, WhereLists
      <3> HIDE DEF deeper
      <3> QED
        BY <3>2 DEF Lists
    <2> DEFINE called == {calls[m] : m \in 1 .. Len(deeper)}
    <2>4. calls \in [1 .. Len(deeper) -> called]
      OBVIOUS
    <2>5. \A i \in 1 .. Len(deeper) :
             /\ calls[i].id = XorOf(o, labels[deeper[i]])
             /\ calls[i].begin = groups[deeper[i]] /\ calls[i].depth = c.depth + 1
             /\ calls[i].end = GroupEnd(c, groups, deeper[i])
      BY DEF GroupEnd
    <2>6. ~disorder => \A m \in 2 .. Len(labels) : ~ (labels[m] < labels[m - 1])
      OBVIOUS
    <2> HIDE DEF c, groups, labels, values, o, deeper, calls, All, X, called, disorder
    <2>7. /\ Len(input.values) = 0 /\ c.id \in 0 .. array.size - 1
          /\ Len(labels) >= 1 /\ Len(labels) = Len(groups) /\ labels \in Seq(0 .. MaxLabel)
          /\ \A m \in 1 .. Len(groups) : groups[m] - 1 \in Nat
      BY <1>4 DEF KeysReady, Grouped
    <2>8. CallWords(work[1], F) = X
      BY <1>3, <2>7 DEF CallWords, X
    <2>9. Distinct(labels)
      BY <1>4, <1>7, <2>6, LabelsDistinct
    <2>10. KeysKnown(c, groups, labels)
      <3>1. InputKnown
        BY <1>1, <1>3, InputIsKnown DEF ArrayInv
      <3>2. Agreed(input.keys, c)
        <4>1. 1 \in 1 .. Len(work)
          BY <1>1, <1>3, EmptySeq
        <4>2. Agreed(input.keys, work[1])
          BY <2>7, <4>1 DEF ArrayWords, OrderInv
        <4> QED
          BY <1>3, <4>2
      <3> QED
        BY <1>4, <2>9, <3>1, <3>2 DEF KeysKnown
    <2>11. Offers(X, labels, values)
      BY <1>5, <2>10, KeysOffer DEF X
    <2>12. \A m \in 1 .. Len(labels) : Stores(labels[m], values[m])
      BY <1>5, <2>7 DEF Stores
    <2>13. Roomy(array, Based(B), o, labels, values) /\ o \in 1 .. MaxOffset - 1
      <3>1. Layout(B) /\ Told(array, Lo(array.size), Taken(B), Based(B))
        BY <2>2 DEF LaidOut
      <3>2. HasRing(array)
        BY <1>1, <1>3 DEF ArrayInv
      <3>3. o = FindOffset(array, c.id, labels) /\ ~ (XorOf(c.id, o) >= MaxOffset)
        BY <1>7 DEF o
      <3> QED
        BY <2>7, <2>9, <2>12, <3>1, <3>2, <3>3, FoundRoomy
    <2>14. Spliced(work, calls, work') /\ Len(calls) = Len(deeper)
      BY <1>1, <1>3, <1>7, <2>3, <2>4, SpliceAny
    <2>15. CallsFor(calls, F, X, o, labels)
      <3>1. \A i \in 1 .. Len(deeper) : CallWords(calls[i], F) = Rest(X, labels[deeper[i]])
        <4> SUFFICES ASSUME NEW i \in 1 .. Len(deeper) PROVE CallWords(calls[i], F) = Rest(X, labels[deeper[i]])
          OBVIOUS
        <4> DEFINE d == deeper[i]
        <4>1. d \in 1 .. Len(groups)
          BY <2>3, <2>7
        <4> HIDE DEF d
        <4>2. WordsFrom(groups[d], GroupEnd(c, groups, d), c.depth + 1) = Rest(X, labels[d])
          BY <2>10, <4>1, GroupWords DEF X
        <4>3. CallWords(calls[i], F) = WordsFrom(groups[d], GroupEnd(c, groups, d), c.depth + 1)
          BY <2>5, <2>7 DEF CallWords, d
        <4> QED
          BY <4>2, <4>3 DEF d
      <3>2. o \in Numbers
        BY <2>13 DEF Roomy
      <3> QED
        BY <2>5, <2>7, <2>9, <2>14, <3>1, <3>2, CallsForWhere DEF deeper
    <2> DEFINE C == More(B, o, X)
               id == c.id
               e == array'
               v == work'
               u == table'
    <2>16. id = work[1].id /\ e = Arrange(array, id, o, labels, values)
      BY <1>3, <1>7
    <2>17. Spliced(work, calls, v) /\ NotedNext(F, X, o, table, u)
      BY <1>7, <2>14 DEF NotedNext
    <2> HIDE DEF C, id, e, v, u
    <2>18. LaidOut(F, C, All, Lo(e.size), e, v, u)
      BY <2>2, <2>8, <2>11, <2>13, <2>15, <2>16, <2>17, LaidMore DEF C
    <2> QED
      BY <1>1, <2>18, UnderwayNext DEF All, e, v, u
  <1> QED
    BY <1>2, <1>6, <1>7

LEMMA ArrayWordsKept == ArrayWords /\ [BuildNext]_buildVars => ArrayWords'
  <1> SUFFICES ASSUME ArrayWords, [BuildNext]_buildVars PROVE ArrayWords'
    OBVIOUS
  <1>1. OrderInv' /\ WordsInv'
    BY OrderKept, WordsKept DEF ArrayWords
  <1>2. CASE InsertKey
    BY <1>1, <1>2, InsertKeyHolds
  <1>3. CASE FinishDawg
    BY <1>1, <1>3, FinishDawgHolds
  <1>4. CASE PlaceRoot
    BY <1>1, <1>4, PlaceRootHolds
  <1>5. CASE ReuseState
    BY <1>1, <1>5, ReuseStateHolds
  <1>6. CASE ArrangeState
    BY <1>1, <1>6, ArrangeStateHolds
  <1>7. CASE ArrangeKeys
    BY <1>1, <1>7, ArrangeKeysHolds
  <1>8. CASE FixAll
    BY <1>1, <1>8, FixAllHolds
  <1>9. CASE UNCHANGED buildVars
    <2>1. UNCHANGED <<input, stage, n, dawg, array, table, work>>
      BY <1>9 DEF buildVars
    <2>2. Placing
      BY <2>1 DEF Placing
    <2>3. (Misled' <=> Misled) /\ Rooted' = Rooted /\ (Empty(array)' <=> Empty(array))
      BY <2>1, <2>2, PlacingKeeps DEF Rooted, Empty
    <2>4. Underway => Underway'
      <3> SUFFICES ASSUME Underway PROVE Underway'
        OBVIOUS
      <3>1. PICK F, B : LaidOut(F, B, Known(Len(input.keys)), Lo(array.size), array, work, table)
        BY DEF Underway
      <3>2. LaidOut(F, B, Known(Len(input.keys)), Lo(array'.size), array', work', table')
        BY <2>1, <3>1
      <3> QED
        BY <2>2, <3>2, UnderwayNext
    <2>5. Complete => Complete'
      <3> SUFFICES ASSUME Complete PROVE Complete'
        OBVIOUS
      <3>1. PICK F, B : LaidOut(F, B, Known(Len(input.keys)), array.size, array, work, table)
        BY DEF Complete
      <3>2. LaidOut(F, B, Known(Len(input.keys)), array'.size, array', work', table')
        BY <2>1, <3>1
      <3> QED
        BY <2>2, <3>2, CompleteNext
    <2> QED
      BY <1>1, <2>1, <2>3, <2>4, <2>5 DEF ArrayWords
  <1> QED
    BY <1>2, <1>3, <1>4, <1>5, <1>6, <1>7, <1>8, <1>9 DEF BuildNext

LEMMA ArrayWordsAlways == BuildSpec => []ArrayWords
  BY BuildInitHolds, ArrayWordsKept, PTL DEF BuildSpec

LEMMA HoldsAnswers ==
    ASSUME ArrayWords, stage = "done", ~Misled, NEW k \in Seq(1 .. MaxLabel)
    PROVE  Answered(k) /\ (Len(input.keys) > 0 => Traversed(k))
  <1> DEFINE All == Known(Len(input.keys))
  <1>1. KeysInv /\ work = <<>>
    BY DEF ArrayWords, OrderInv, ArrayInv
  <1>2. InputKnown /\ Len(input.keys) \in Nat
    BY <1>1, InputIsKnown
  <1>3. CASE Len(input.keys) = 0
    <2>1. Empty(array) /\ input \in Inputs
      BY <1>2, <1>3 DEF ArrayWords, InputKnown
    <2> QED
      BY <1>3, <2>1, EmptyAnswers
  <1>4. CASE Len(input.keys) > 0
    <2>1. PICK F, B : LaidOut(F, B, All, array.size, array, work, table)
      BY <1>4 DEF ArrayWords, Complete
    <2>2. Todo(work) = {}
      <3> DEFINE none == << >>
      <3>1. Len(none) = 0 /\ work = none
        BY <1>1
      <3> HIDE DEF none
      <3> QED
        BY <3>1 DEF Todo
    <2>3. All \subseteq Words /\ All # {}
      BY <1>2, <1>4, RootWords
    <2> HIDE DEF All
    <2>4. Finished(array, B, All)
      BY <2>1, <2>2, <2>3 DEF LaidOut, Finished
    <2> QED
      BY <1>2, <2>4, FinishedAnswers DEF All
  <1> QED
    BY <1>2, <1>3, <1>4

-----------------------------------------------------------------------------
(* Searches of the dictionary that build returns. *)

\* Once build is done, exactMatchSearch and commonPrefixSearch find for every
\* string, however long, the values of the keys it equals and begins with, and no
\* other; and in a dictionary of some keys traverse tells for every string whether
\* keys go on after it.
THEOREM SearchesHold ==
    BuildSpec => [](stage = "done" /\ ~Misled =>
        \A k \in Seq(1 .. MaxLabel) : Answered(k) /\ (Len(input.keys) > 0 => Traversed(k)))
  <1>1. ArrayWords => (stage = "done" /\ ~Misled =>
          \A k \in Seq(1 .. MaxLabel) : Answered(k) /\ (Len(input.keys) > 0 => Traversed(k)))
    BY HoldsAnswers
  <1> QED
    BY <1>1, ArrayWordsAlways, PTL

\* So they do for the strings of the runs: SearchesRight, for every set of keys,
\* alphabet and size of the array.
THEOREM SearchesCorrect == BuildSpec => []SearchesRight
  <1>1. \A k \in Strings : k \in Seq(1 .. MaxLabel)
    <2> SUFFICES ASSUME NEW m \in 0 .. MaxLength, NEW k \in [1 .. m -> 1 .. MaxLabel] PROVE k \in Seq(1 .. MaxLabel)
      BY DEF Strings
    <2>1. m \in Nat
      OBVIOUS
    <2> DEFINE Labels == 1 .. MaxLabel
    <2>2. k \in [1 .. m -> Labels]
      OBVIOUS
    <2> HIDE DEF Labels
    <2>3. k \in Seq(Labels)
      BY <2>1, <2>2
    <2> QED
      BY <2>3 DEF Labels
  <1>2. ArrayWords => SearchesRight
    <2> SUFFICES ASSUME ArrayWords, stage = "done", ~Misled
                 PROVE  /\ \A k \in Strings : Answered(k)
                        /\ Len(input.keys) > 0 => \A k \in Strings : Traversed(k)
      BY DEF SearchesRight, AnswersRight, TraversesRight, Answered, Traversed
    <2> QED
      BY <1>1, HoldsAnswers
  <1> QED
    BY <1>2, ArrayWordsAlways, PTL
=============================================================================
