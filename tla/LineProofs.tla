----------------------------- MODULE LineProofs -----------------------------
(***************************************************************************)
(* Lemmas about lines: sequences without repetition, as the deque of a     *)
(* waiting room is one.  What joins, leaves and is taken from the front of *)
(* a line, for the proofs about both coordinators.                         *)
(***************************************************************************)
EXTENDS Naturals, Sequences, SequencesExt, SequenceTheorems, FiniteSetTheorems,
        FunctionTheorems, TLAPS

\* What deque.remove leaves: the elements behind the removed one move up.
LEMMA RemoveAtProperties ==
    ASSUME NEW S, NEW s \in Seq(S), NEW i \in 1..Len(s)
    PROVE  /\ RemoveAt(s, i) \in Seq(S)
           /\ Len(RemoveAt(s, i)) = Len(s) - 1
           /\ \A j \in 1..(Len(s) - 1) :
                 RemoveAt(s, i)[j] = IF j < i THEN s[j] ELSE s[j + 1]
<1> DEFINE front == SubSeq(s, 1, i - 1)
           back  == SubSeq(s, i + 1, Len(s))
<1>1. /\ front \in Seq(S) /\ Len(front) = i - 1
      /\ \A j \in 1..(i - 1) : front[j] = s[j]
  BY SubSeqProperties
<1>2. /\ back \in Seq(S) /\ Len(back) = Len(s) - i
      /\ \A j \in 1..(Len(s) - i) : back[j] = s[i + j]
  BY SubSeqProperties
<1>3. /\ front \o back \in Seq(S)
      /\ Len(front \o back) = Len(s) - 1
      /\ \A j \in 1..(Len(s) - 1) :
            (front \o back)[j] = IF j < i THEN s[j] ELSE s[j + 1]
  <2>1. /\ front \o back \in Seq(S)
        /\ Len(front \o back) = (i - 1) + (Len(s) - i)
        /\ \A j \in 1..((i - 1) + (Len(s) - i)) :
              (front \o back)[j] = IF j <= i - 1 THEN front[j] ELSE back[j - (i - 1)]
    <3> HIDE DEF front, back
    <3>1. front \in Seq(S) /\ back \in Seq(S)
      BY <1>1, <1>2
    <3>2. /\ front \o back \in Seq(S)
          /\ Len(front \o back) = Len(front) + Len(back)
          /\ \A j \in 1..(Len(front) + Len(back)) :
                (front \o back)[j] = IF j <= Len(front) THEN front[j] ELSE back[j - Len(front)]
      BY <3>1, ConcatProperties
    <3> QED  BY <1>1, <1>2, <3>2
  <2> HIDE DEF front, back
  <2>2. Len(s) \in Nat /\ i \in Nat /\ i >= 1 /\ i <= Len(s)
    OBVIOUS
  <2>3. (i - 1) + (Len(s) - i) = Len(s) - 1
    BY <2>2
  <2>4. ASSUME NEW j \in 1..(Len(s) - 1)
        PROVE  (front \o back)[j] = IF j < i THEN s[j] ELSE s[j + 1]
    <3>1. CASE j < i
      BY <2>1, <2>2, <2>3, <1>1, <3>1
    <3>2. CASE ~(j < i)
      <4>1. (front \o back)[j] = back[j - (i - 1)]
        BY <2>1, <2>2, <2>3, <3>2
      <4>2. j - (i - 1) \in 1..(Len(s) - i) /\ i + (j - (i - 1)) = j + 1
        BY <2>2, <3>2
      <4> QED  BY <4>1, <4>2, <1>2, <3>2
    <3> QED  BY <3>1, <3>2
  <2> QED  BY <2>1, <2>3, <2>4
<1> QED  BY <1>3 DEF RemoveAt


\* Who is in a sequence, by position.
LEMMA ToSetByPosition ==
    ASSUME NEW S, NEW s \in Seq(S)
    PROVE  /\ DOMAIN s = 1..Len(s) /\ Len(s) \in Nat
           /\ ToSet(s) \subseteq S
           /\ \A x : x \in ToSet(s) <=> \E i \in 1..Len(s) : s[i] = x
           /\ IsInjective(s) <=> \A i, j \in 1..Len(s) : s[i] = s[j] => i = j
<1>1. DOMAIN s = 1..Len(s) /\ Len(s) \in Nat /\ \A i \in 1..Len(s) : s[i] \in S
  BY LenProperties, ElementOfSeq
<1> QED  BY <1>1 DEF ToSet, IsInjective

\* Nobody is in an empty line.
LEMMA EmptyLine == ToSet(<<>>) = {} /\ IsInjective(<<>>)
<1>1. PICK line : line = <<>>
  OBVIOUS
<1>2. line \in Seq({}) /\ Len(line) = 0
  BY <1>1
<1>3. \A i \in 1..Len(line) : FALSE
  BY <1>2
<1>4. (\A x : x \notin ToSet(line)) /\ IsInjective(line)
  BY <1>2, <1>3, ToSetByPosition
<1> QED  BY <1>1, <1>4

\* A newcomer at the end.
LEMMA AppendLine ==
    ASSUME NEW S, NEW s \in Seq(S), NEW x \in S,
           IsInjective(s), x \notin ToSet(s)
    PROVE  /\ Append(s, x) \in Seq(S)
           /\ Len(Append(s, x)) = Len(s) + 1
           /\ ToSet(Append(s, x)) = ToSet(s) \cup {x}
           /\ IsInjective(Append(s, x))
<1> DEFINE t == Append(s, x)
<1>1. /\ t \in Seq(S) /\ Len(t) = Len(s) + 1 /\ t[Len(s) + 1] = x
      /\ \A i \in 1..Len(s) : t[i] = s[i]
  BY AppendProperties
<1>2. Len(s) \in Nat
  BY ToSetByPosition
<1> HIDE DEF t
<1>3. ToSet(t) = ToSet(s) \cup {x}
  <2>1. ASSUME NEW y PROVE y \in ToSet(t) <=> y \in ToSet(s) \cup {x}
    <3>1. y \in ToSet(t) <=> \E i \in 1..Len(t) : t[i] = y
      BY <1>1, ToSetByPosition
    <3>2. y \in ToSet(s) <=> \E i \in 1..Len(s) : s[i] = y
      BY ToSetByPosition
    <3> QED  BY <3>1, <3>2, <1>1, <1>2
  <2> QED  BY <2>1
<1>4. IsInjective(t)
  <2>1. \A i, j \in 1..Len(s) : s[i] = s[j] => i = j
    BY ToSetByPosition
  <2>2. \A i \in 1..Len(s) : s[i] # x
    BY ToSetByPosition
  <2>3. \A i, j \in 1..Len(t) : t[i] = t[j] => i = j
    BY <2>1, <2>2, <1>1, <1>2
  <2> QED  BY <2>3, <1>1, ToSetByPosition
<1> QED  BY <1>1, <1>3, <1>4 DEF t

\* The first k leave.
LEMMA DropLine ==
    ASSUME NEW S, NEW s \in Seq(S), NEW k \in 0..Len(s), IsInjective(s)
    PROVE  /\ SubSeq(s, k + 1, Len(s)) \in Seq(S)
           /\ SubSeq(s, 1, k) \in Seq(S)
           /\ Len(SubSeq(s, k + 1, Len(s))) = Len(s) - k
           /\ Len(SubSeq(s, 1, k)) = k
           /\ IsInjective(SubSeq(s, k + 1, Len(s)))
           /\ IsInjective(SubSeq(s, 1, k))
           /\ ToSet(SubSeq(s, 1, k)) \subseteq ToSet(s)
           /\ ToSet(SubSeq(s, k + 1, Len(s))) = ToSet(s) \ ToSet(SubSeq(s, 1, k))
<1> DEFINE first == SubSeq(s, 1, k)
           rest  == SubSeq(s, k + 1, Len(s))
<1>0. Len(s) \in Nat /\ k \in Nat /\ k <= Len(s) /\ (\A i \in 1..Len(s) : s[i] \in S)
  BY ToSetByPosition, ElementOfSeq
<1>1. /\ first \in Seq(S) /\ Len(first) = k
      /\ \A i \in 1..k : first[i] = s[i]
  BY <1>0, SubSeqProperties
<1>2. /\ rest \in Seq(S) /\ Len(rest) = Len(s) - k
      /\ \A i \in 1..(Len(s) - k) : rest[i] = s[k + i]
  BY <1>0, SubSeqProperties
<1> HIDE DEF first, rest
<1>3. \A i, j \in 1..Len(s) : s[i] = s[j] => i = j
  BY ToSetByPosition
<1>4. IsInjective(first)
  <2>1. \A i, j \in 1..Len(first) : first[i] = first[j] => i = j
    BY <1>0, <1>1, <1>3
  <2> QED  BY <2>1, <1>1, ToSetByPosition
<1>5. IsInjective(rest)
  <2>1. ASSUME NEW i \in 1..Len(rest), NEW j \in 1..Len(rest), rest[i] = rest[j] PROVE i = j
    <3>1. k + i \in 1..Len(s) /\ k + j \in 1..Len(s) /\ s[k + i] = s[k + j]
      BY <1>0, <1>2, <2>1
    <3>2. k + i = k + j
      BY <1>3, <3>1
    <3> QED  BY <1>0, <3>2
  <2> QED  BY <2>1, <1>2, ToSetByPosition
<1>6. \A x : x \in ToSet(first) <=> \E i \in 1..k : s[i] = x
  BY <1>1, ToSetByPosition
<1>7. \A x : x \in ToSet(rest) <=> \E i \in 1..(Len(s) - k) : s[k + i] = x
  <2>1. \A x : x \in ToSet(rest) <=> \E i \in 1..Len(rest) : rest[i] = x
    BY <1>2, ToSetByPosition
  <2> QED  BY <2>1, <1>2
<1>8. \A x : x \in ToSet(s) <=> \E i \in 1..Len(s) : s[i] = x
  BY ToSetByPosition
<1>9. ToSet(first) \subseteq ToSet(s)
  BY <1>0, <1>6, <1>8
<1>10. ToSet(rest) = ToSet(s) \ ToSet(first)
  <2>1. ASSUME NEW x \in ToSet(rest) PROVE x \in ToSet(s) \ ToSet(first)
    <3>1. PICK i \in 1..(Len(s) - k) : s[k + i] = x
      BY <1>7
    <3>2. k + i \in 1..Len(s)
      BY <1>0
    <3>3. \A j \in 1..k : s[j] # x
      BY <3>1, <3>2, <1>0, <1>3
    <3> QED  BY <3>1, <3>2, <3>3, <1>6, <1>8
  <2>2. ASSUME NEW x \in ToSet(s), x \notin ToSet(first) PROVE x \in ToSet(rest)
    <3>1. PICK i \in 1..Len(s) : s[i] = x
      BY <1>8
    <3>2. i > k
      BY <3>1, <2>2, <1>0, <1>6
    <3>3. i - k \in 1..(Len(s) - k) /\ k + (i - k) = i
      BY <3>2, <1>0
    <3> QED  BY <3>1, <3>3, <1>7
  <2> QED  BY <2>1, <2>2
<1>11. /\ rest \in Seq(S) /\ first \in Seq(S)
       /\ Len(rest) = Len(s) - k /\ Len(first) = k
       /\ IsInjective(rest) /\ IsInjective(first)
       /\ ToSet(first) \subseteq ToSet(s)
       /\ ToSet(rest) = ToSet(s) \ ToSet(first)
  BY <1>1, <1>2, <1>4, <1>5, <1>9, <1>10
<1> QED  BY <1>11, Zenon DEF first, rest

\* The head leaves.
LEMMA TailLine ==
    ASSUME NEW S, NEW s \in Seq(S), s # <<>>, IsInjective(s)
    PROVE  /\ Tail(s) \in Seq(S) /\ Head(s) \in ToSet(s)
           /\ Len(s) >= 1 /\ Len(Tail(s)) = Len(s) - 1
           /\ IsInjective(Tail(s))
           /\ ToSet(Tail(s)) = ToSet(s) \ {Head(s)}
           /\ Tail(s) = SubSeq(s, 2, Len(s))
           /\ ToSet(SubSeq(s, 1, 1)) = {Head(s)}
<1>0. Len(s) \in Nat /\ Len(s) # 0
  BY EmptySeq, LenProperties
<1>1. Head(s) = s[1] /\ Tail(s) = SubSeq(s, 2, Len(s))
  BY <1>0, HeadTailProperties 
<1>2. /\ SubSeq(s, 1 + 1, Len(s)) \in Seq(S)
      /\ Len(SubSeq(s, 1 + 1, Len(s))) = Len(s) - 1
      /\ IsInjective(SubSeq(s, 1 + 1, Len(s)))
      /\ ToSet(SubSeq(s, 1 + 1, Len(s))) = ToSet(s) \ ToSet(SubSeq(s, 1, 1))
      /\ SubSeq(s, 1, 1) \in Seq(S) /\ Len(SubSeq(s, 1, 1)) = 1
  <2>1. 1 \in 0..Len(s)
    BY <1>0
  <2>2. IsInjective(s)
    OBVIOUS
  <2>3. \A k \in 0..Len(s) :
           /\ SubSeq(s, k + 1, Len(s)) \in Seq(S) /\ SubSeq(s, 1, k) \in Seq(S)
           /\ Len(SubSeq(s, k + 1, Len(s))) = Len(s) - k /\ Len(SubSeq(s, 1, k)) = k
           /\ IsInjective(SubSeq(s, k + 1, Len(s)))
           /\ ToSet(SubSeq(s, k + 1, Len(s))) = ToSet(s) \ ToSet(SubSeq(s, 1, k))
    BY <2>2, DropLine
  <2> QED  BY <2>1, <2>3, Zenon
<1>3. SubSeq(s, 1, 1)[1] = s[1]
  <2>1. 1 \in Int /\ \A j \in 1..1 : s[j] \in S
    BY <1>0, ElementOfSeq
  <2>2. \A j \in 1..(1 - 1 + 1) : SubSeq(s, 1, 1)[j] = s[1 + j - 1]
    BY <2>1, SubSeqProperties
  <2> HIDE <2>1
  <2>3. SubSeq(s, 1, 1)[1] = s[1 + 1 - 1]
    BY <2>2
  <2>4. 1 + 1 - 1 = 1
    OBVIOUS
  <2> QED  BY <2>3, <2>4, Zenon
<1>4. ToSet(SubSeq(s, 1, 1)) = {Head(s)}
  <2> DEFINE h == SubSeq(s, 1, 1)
  <2>1. h \in Seq(S) /\ Len(h) = 1 /\ h[1] = Head(s)
    BY <1>1, <1>2, <1>3
  <2> HIDE DEF h
  <2>2. \A x : x \in ToSet(h) <=> \E j \in 1..Len(h) : h[j] = x
    BY <2>1, ToSetByPosition
  <2>3. ToSet(h) = {Head(s)}
    BY <2>1, <2>2
  <2> QED  BY <2>3 DEF h
<1>5. Head(s) \in ToSet(s)
  BY <1>0, <1>1, ToSetByPosition
<1>6. SubSeq(s, 1 + 1, Len(s)) = Tail(s)
  BY <1>1
<1>7. Len(s) >= 1
  BY <1>0
<1> QED  BY <1>1, <1>2, <1>4, <1>5, <1>6, <1>7, Zenon

\* One in the middle gives up.
LEMMA RemoveLine ==
    ASSUME NEW S, NEW s \in Seq(S), NEW i \in 1..Len(s), IsInjective(s)
    PROVE  /\ RemoveAt(s, i) \in Seq(S)
           /\ Len(RemoveAt(s, i)) = Len(s) - 1
           /\ IsInjective(RemoveAt(s, i))
           /\ ToSet(RemoveAt(s, i)) = ToSet(s) \ {s[i]}
<1> DEFINE t == RemoveAt(s, i)
<1>1. /\ t \in Seq(S) /\ Len(t) = Len(s) - 1
      /\ \A j \in 1..(Len(s) - 1) : t[j] = IF j < i THEN s[j] ELSE s[j + 1]
  BY RemoveAtProperties
<1>2. /\ Len(s) \in Nat /\ i \in Nat /\ 1 <= i /\ i <= Len(s)
      /\ \A j, m \in 1..Len(s) : s[j] = s[m] => j = m
  BY ToSetByPosition
<1> HIDE DEF t
<1>3. \A j, m \in 1..Len(t) : t[j] = t[m] => j = m
  BY <1>1, <1>2
<1>4. IsInjective(t)
  BY <1>1, <1>3, ToSetByPosition
<1>5. \A x : x \in ToSet(t) <=> \E j \in 1..(Len(s) - 1) : t[j] = x
  BY <1>1, ToSetByPosition
<1>6. \A x : x \in ToSet(s) <=> \E j \in 1..Len(s) : s[j] = x
  BY ToSetByPosition
<1>7. ToSet(t) = ToSet(s) \ {s[i]}
  <2>1. ASSUME NEW x \in ToSet(t) PROVE x \in ToSet(s) /\ x # s[i]
    <3>1. PICK j \in 1..(Len(s) - 1) : t[j] = x
      BY <1>5
    <3>2. \E m \in 1..Len(s) : s[m] = x /\ m # i
      <4>1. CASE j < i
        BY <4>1, <3>1, <1>1, <1>2
      <4>2. CASE ~(j < i)
        BY <4>2, <3>1, <1>1, <1>2
      <4> QED  BY <4>1, <4>2
    <3> QED  BY <3>2, <1>2, <1>6
  <2>2. ASSUME NEW x \in ToSet(s), x # s[i] PROVE x \in ToSet(t)
    <3>1. PICK m \in 1..Len(s) : s[m] = x
      BY <1>6
    <3>2. \E j \in 1..(Len(s) - 1) : t[j] = x
      <4>1. CASE m < i
        BY <4>1, <3>1, <1>1, <1>2
      <4>2. CASE m > i
        <5>1. m - 1 \in 1..(Len(s) - 1) /\ ~(m - 1 < i) /\ (m - 1) + 1 = m
          BY <4>2, <1>2
        <5> QED  BY <5>1, <3>1, <1>1
      <4> QED  BY <4>1, <4>2, <3>1, <2>2, <1>2
    <3> QED  BY <3>2, <1>5
  <2> QED  BY <2>1, <2>2
<1> QED  BY <1>1, <1>4, <1>7 DEF t

\* The set of a line has as many elements as the line is long.
LEMMA LineCardinality ==
    ASSUME NEW S, NEW s \in Seq(S), IsInjective(s)
    PROVE  IsFiniteSet(ToSet(s)) /\ Cardinality(ToSet(s)) = Len(s)
<1>1. /\ Len(s) \in Nat /\ DOMAIN s = 1..Len(s)
      /\ \A x : x \in ToSet(s) <=> \E i \in 1..Len(s) : s[i] = x
      /\ \A i, j \in 1..Len(s) : s[i] = s[j] => i = j
  BY ToSetByPosition
<1> DEFINE f == [i \in 1..Len(s) |-> s[i]]
<1>2. f \in Bijection(1..Len(s), ToSet(s))
  BY <1>1, Fun_IsBij
<1>3. IsFiniteSet(1..Len(s)) /\ Cardinality(1..Len(s)) = Len(s)
  BY <1>1, FS_Interval
<1> QED  BY <1>2, <1>3, FS_Bijection DEF ExistsBijection
=============================================================================
