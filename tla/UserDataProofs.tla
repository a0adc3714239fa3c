--------------------------- MODULE UserDataProofs ---------------------------
(***************************************************************************)
(* What the two functions of UserData do to every document a bootstrap     *)
(* provider hands over, of any length and for any commands.                *)
(***************************************************************************)
EXTENDS UserData, FiniteSetTheorems, SequenceTheorems, TLAPS

-----------------------------------------------------------------------------
(* Sets of numbers in order *)

(* In a finite set of numbers a rank is a position.                         *)
LEMMA RankRange ==
    ASSUME NEW S \in SUBSET Nat, IsFiniteSet(S), NEW i \in S
    PROVE  Rank(S, i) \in 1..Cardinality(S)
<1> DEFINE T == {j \in S : j <= i}
<1>1. T \in SUBSET S /\ i \in T
  OBVIOUS
<1>2. IsFiniteSet(T) /\ Cardinality(T) <= Cardinality(S)
  BY <1>1, FS_Subset
<1>3. Cardinality(T) \in Nat /\ Cardinality(S) \in Nat /\ Cardinality(T) # 0
  BY <1>1, <1>2, FS_CardinalityType, FS_EmptySet
<1> QED BY <1>2, <1>3 DEF Rank

(* A larger element has a larger rank.                                      *)
LEMMA RankIncreases ==
    ASSUME NEW S \in SUBSET Nat, IsFiniteSet(S), NEW i \in S, NEW j \in S, i < j
    PROVE  Rank(S, i) < Rank(S, j)
<1> DEFINE T == {k \in S : k <= i}
           U == {k \in S : k <= j}
<1>1. /\ U \in SUBSET S /\ j \in U /\ j \notin T
      /\ \A k \in S : k <= i => k <= j
  OBVIOUS
<1>2. IsFiniteSet(U)
  BY <1>1, FS_Subset
<1>3. IsFiniteSet(T) /\ Cardinality(T) <= Cardinality(U) /\ Cardinality(T) # Cardinality(U)
  <2>1. T \in SUBSET U
    BY <1>1
  <2> QED BY <1>1, <1>2, <2>1, FS_Subset
<1>4. Cardinality(T) \in Nat /\ Cardinality(U) \in Nat
  BY <1>2, <1>3, FS_CardinalityType
<1> QED BY <1>3, <1>4 DEF Rank

(* The element of a given rank.                                             *)
LEMMA OrderedAt ==
    ASSUME NEW S \in SUBSET Nat, IsFiniteSet(S), NEW i \in S
    PROVE  Ordered(S)[Rank(S, i)] = i
<1>1. Rank(S, i) \in 1..Cardinality(S)
  BY RankRange
<1>2. ASSUME NEW j \in S, Rank(S, j) = Rank(S, i) PROVE j = i
  <2>1. Rank(S, i) \in Int
    BY <1>1
  <2>2. ~(i < j) /\ ~(j < i)
    BY <1>2, <2>1, RankIncreases
  <2> QED BY <2>2
<1>3. Ordered(S)[Rank(S, i)] = CHOOSE j \in S : Rank(S, j) = Rank(S, i)
  BY <1>1 DEF Ordered
<1> QED BY <1>2, <1>3

(* Every position up to the size of the set is the rank of an element.      *)
LEMMA OrderedIn ==
    ASSUME NEW S \in SUBSET Nat, IsFiniteSet(S), NEW n \in 1..Cardinality(S)
    PROVE  Ordered(S)[n] \in S /\ Rank(S, Ordered(S)[n]) = n
<1> DEFINE f == [i \in S |-> Rank(S, i)]
<1>1. Cardinality(S) \in Nat
  BY FS_CardinalityType
<1>2. IsFiniteSet(1..Cardinality(S)) /\ Cardinality(1..Cardinality(S)) = Cardinality(S)
  BY <1>1, FS_Interval
<1>3. ASSUME NEW i \in S, NEW j \in S, f[i] = f[j] PROVE i = j
  BY <1>3, OrderedAt
<1>4. f \in Injection(S, 1..Cardinality(S))
  BY <1>3, RankRange DEF Injection, IsInjective
<1>5. f \in Surjection(S, 1..Cardinality(S))
  BY <1>2, <1>4, FS_Injection
<1>6. PICK i \in S : Rank(S, i) = n
  BY <1>5 DEF Surjection
<1> QED BY <1>6, OrderedAt

(* The order of ranks is that of the elements.                              *)
LEMMA OrderedIncreases ==
    ASSUME NEW S \in SUBSET Nat, IsFiniteSet(S),
           NEW a \in 1..Cardinality(S), NEW b \in 1..Cardinality(S), a < b
    PROVE  Ordered(S)[a] < Ordered(S)[b]
<1> DEFINE i == Ordered(S)[a]
           j == Ordered(S)[b]
<1>1. i \in S /\ j \in S /\ Rank(S, i) = a /\ Rank(S, j) = b
  BY OrderedIn
<1>2. Cardinality(S) \in Nat
  BY FS_CardinalityType
<1>3. ~(j < i)
  <2>1. j < i => Rank(S, j) < Rank(S, i)
    BY <1>1, RankIncreases
  <2> QED BY <1>1, <1>2, <2>1
<1>4. i # j
  BY <1>1, <1>2
<1>5. i \in Nat /\ j \in Nat
  BY <1>1
<1> QED BY <1>3, <1>4, <1>5

(* A finite set of numbers has a least and a greatest element.              *)
LEMMA LeastAndGreatest ==
    ASSUME NEW S \in SUBSET Nat, IsFiniteSet(S), S # {}
    PROVE  /\ \E i \in S : \A j \in S : i <= j
           /\ \E i \in S : \A j \in S : j <= i
<1>1. Cardinality(S) \in Nat /\ Cardinality(S) # 0
  BY FS_CardinalityType, FS_EmptySet
<1>2. 1 \in 1..Cardinality(S) /\ Cardinality(S) \in 1..Cardinality(S)
  BY <1>1
<1>3. PICK i \in S : Rank(S, i) = 1
  BY <1>2, OrderedIn
<1>4. PICK k \in S : Rank(S, k) = Cardinality(S)
  BY <1>2, OrderedIn
<1>5. ASSUME NEW j \in S PROVE i <= j /\ j <= k
  <2>1. Rank(S, j) \in 1..Cardinality(S)
    BY RankRange
  <2>2. ~(j < i) /\ ~(k < j)
    BY <1>1, <1>3, <1>4, <2>1, RankIncreases
  <2> QED BY <2>2
<1> QED BY <1>5

(* Min of the community modules is the least element.                       *)
LEMMA MinIsLeast ==
    ASSUME NEW n \in Nat, NEW S \in SUBSET (1..n), S # {}
    PROVE  Min(S) \in S /\ \A j \in S : Min(S) <= j
<1>1. IsFiniteSet(S)
  <2>1. IsFiniteSet(1..n)
    BY FS_Interval
  <2> QED BY <2>1, FS_Subset
<1>2. S \in SUBSET Nat
  OBVIOUS
<1>3. \E i \in S : \A j \in S : i <= j
  BY <1>1, <1>2, LeastAndGreatest
<1> QED BY <1>3 DEF Min

(* e lists the n elements of S in order.                                    *)
Lists(e, n, S) ==
    /\ e \in [1..n -> S]
    /\ \A a, b \in 1..n : a < b => e[a] < e[b]
    /\ \A i \in S : \E a \in 1..n : e[a] = i

(* There is one list of a set of numbers.                                   *)
LEMMA OrderedIs ==
    ASSUME NEW S \in SUBSET Nat, NEW n \in Nat, NEW e, Lists(e, n, S)
    PROVE  /\ IsFiniteSet(S) /\ Cardinality(S) = n
           /\ \A a \in 1..n : Ordered(S)[a] = e[a]
<1> USE DEF Lists
<1>1. ASSUME NEW a \in 1..n, NEW b \in 1..n, e[a] <= e[b] PROVE a <= b
  <2>1. a \in Nat /\ b \in Nat /\ e[a] \in S /\ e[b] \in S
    OBVIOUS
  <2>2. e[a] \in Nat /\ e[b] \in Nat
    BY <2>1
  <2>3. b < a => e[b] < e[a]
    OBVIOUS
  <2> QED BY <1>1, <2>1, <2>2, <2>3
<1>2. ASSUME NEW a \in 0..n, NEW T, T = {e[b] : b \in 1..a}
      PROVE  IsFiniteSet(T) /\ Cardinality(T) = a
  <2> DEFINE f == [b \in 1..a |-> e[b]]
  <2>1. ASSUME NEW b \in 1..a, NEW c \in 1..a, f[b] = f[c] PROVE b = c
    <3>1. b \in 1..n /\ c \in 1..n /\ b \in Nat /\ c \in Nat
      OBVIOUS
    <3>2. e[b] \in Nat /\ e[c] \in Nat /\ e[b] = e[c]
      BY <2>1, <3>1
    <3>3. b <= c /\ c <= b
      BY <1>1, <3>1, <3>2
    <3> QED BY <3>1, <3>3
  <2>2. f \in Injection(1..a, T)
    BY <1>2, <2>1 DEF Injection, IsInjective
  <2>3. f \in Surjection(1..a, T)
    BY <1>2 DEF Surjection
  <2>4. ExistsBijection(1..a, T)
    BY <2>2, <2>3 DEF ExistsBijection, Bijection
  <2>5. IsFiniteSet(1..a) /\ a \in Nat
    BY FS_Interval
  <2> QED BY <2>4, <2>5, FS_Bijection, FS_CountingElements
<1>3. IsFiniteSet(S) /\ Cardinality(S) = n
  <2>1. S \subseteq {e[b] : b \in 1..n}
    OBVIOUS
  <2>2. {e[b] : b \in 1..n} \subseteq S
    OBVIOUS
  <2>3. n \in 0..n
    OBVIOUS
  <2> QED BY <1>2, <2>1, <2>2, <2>3
<1>4. ASSUME NEW a \in 1..n PROVE Ordered(S)[a] = e[a]
  <2>1. {j \in S : j <= e[a]} = {e[b] : b \in 1..a}
    <3>1. ASSUME NEW j \in S, j <= e[a] PROVE j \in {e[b] : b \in 1..a}
      <4>1. PICK b \in 1..n : e[b] = j
        OBVIOUS
      <4>2. b <= a
        BY <1>1, <3>1, <4>1
      <4>3. b \in 1..a
        BY <4>2
      <4> QED BY <4>1, <4>3
    <3>2. ASSUME NEW b \in 1..a PROVE e[b] \in S /\ e[b] <= e[a]
      <4>1. b \in 1..n /\ (b < a \/ b = a)
        OBVIOUS
      <4>2. e[b] \in S /\ e[b] \in Nat /\ e[a] \in Nat
        BY <4>1
      <4>3. b < a => e[b] < e[a]
        BY <4>1
      <4> QED BY <4>1, <4>2, <4>3
    <3> QED BY <3>1, <3>2
  <2>2. Rank(S, e[a]) = a
    BY <1>2, <2>1 DEF Rank
  <2>3. e[a] \in S
    OBVIOUS
  <2>4. Ordered(S)[Rank(S, e[a])] = e[a]
    BY <1>3, <2>3, OrderedAt
  <2> QED BY <2>2, <2>4
<1> QED BY <1>3, <1>4

-----------------------------------------------------------------------------
(* Documents *)

(* What lines are made of. That a literal is a string is nothing the        *)
(* provers know.                                                            *)
Text == STRING \cup Keys \cup Skipped \cup Items \cup {Header, Torn, "#!/bin/sh"}

(* The section of a line is the last key up to it.                          *)
LEMMA SectionIs ==
    ASSUME NEW d, NEW i \in Nat, NEW k \in 1..i, d[k] \in Keys,
           \A j \in (k + 1)..i : d[j] \notin Keys
    PROVE  Section(d, i) = d[k]
<1> DEFINE before == {j \in 1..i : d[j] \in Keys}
<1>1. k \in before /\ \A j \in before : j <= k
  OBVIOUS
<1>2. ASSUME NEW c \in before, \A j \in before : j <= c PROVE c = k
  BY <1>1, <1>2
<1>3. (CHOOSE c \in before : \A j \in before : j <= c) = k
  BY <1>1, <1>2
<1> QED BY <1>1, <1>3 DEF Section

(* A line before the first key has none.                                    *)
LEMMA NoSection ==
    ASSUME NEW d, NEW i \in Nat, \A j \in 1..i : d[j] \notin Keys
    PROVE  Section(d, i) = ""
  BY DEF Section

(* One of the two is the case.                                              *)
LEMMA SectionCases ==
    ASSUME NEW d, NEW i \in Nat
    PROVE  \/ Section(d, i) = "" /\ \A j \in 1..i : d[j] \notin Keys
           \/ \E k \in 1..i : /\ d[k] \in Keys /\ Section(d, i) = d[k]
                              /\ \A j \in (k + 1)..i : d[j] \notin Keys
<1> DEFINE before == {j \in 1..i : d[j] \in Keys}
<1>1. CASE before = {}
  BY <1>1, NoSection
<1>2. CASE before # {}
  <2>1. IsFiniteSet(1..i)
    BY FS_Interval
  <2>2. before \in SUBSET (1..i) /\ before \in SUBSET Nat
    OBVIOUS
  <2>3. IsFiniteSet(before)
    BY <2>1, <2>2, FS_Subset
  <2>4. PICK k \in before : \A j \in before : j <= k
    BY <1>2, <2>2, <2>3, LeastAndGreatest
  <2>5. k \in 1..i /\ d[k] \in Keys /\ \A j \in (k + 1)..i : d[j] \notin Keys
    BY <2>4
  <2>6. Section(d, i) = d[k]
    BY <2>5, SectionIs
  <2> QED BY <2>5, <2>6
<1> QED BY <1>1, <1>2

(* What is under a key, given the list of its lines.                        *)
LEMMA UnderIs ==
    ASSUME NEW d \in Seq(Text), NEW key, IsCloudConfig(d),
           NEW n \in Nat, NEW e, Lists(e, n, ItemsOf(d, key))
    PROVE  /\ Under(d, key) \in Seq(Text) /\ Len(Under(d, key)) = n
           /\ \A a \in 1..n : e[a] \in ItemsOf(d, key) /\ Under(d, key)[a] = d[e[a]]
<1> DEFINE S == ItemsOf(d, key)
<1>1. S \in SUBSET Nat /\ \A i \in S : d[i] \in Text
  BY DEF ItemsOf
<1>2. Cardinality(S) = n /\ \A a \in 1..n : Ordered(S)[a] = e[a]
  BY <1>1, OrderedIs
<1>3. DOMAIN Ordered(S) = 1..n
  BY <1>2 DEF Ordered
<1>4. Under(d, key) = [a \in 1..n |-> d[e[a]]]
  BY <1>2, <1>3 DEF Under
<1>5. \A a \in 1..n : e[a] \in S
  BY DEF Lists
<1>6. \A a \in 1..n : d[e[a]] \in Text
  BY <1>1, <1>5
<1>7. Under(d, key) \in Seq(Text) /\ Len(Under(d, key)) = n
  BY <1>4, <1>6
<1> QED BY <1>4, <1>5, <1>7

(* The lines of a key have such a list.                                     *)
LEMMA UnderOrder ==
    ASSUME NEW d \in Seq(Text), NEW key, IsCloudConfig(d)
    PROVE  \E n \in Nat : \E e : Lists(e, n, ItemsOf(d, key))
<1> DEFINE S == ItemsOf(d, key)
<1>1. S \in SUBSET (1..Len(d)) /\ S \in SUBSET Nat /\ Len(d) \in Nat
  BY DEF ItemsOf
<1>2. IsFiniteSet(S)
  <2>1. IsFiniteSet(1..Len(d))
    BY <1>1, FS_Interval
  <2> QED BY <1>1, <2>1, FS_Subset
<1>3. PICK n \in Nat : n = Cardinality(S)
  BY <1>2, FS_CardinalityType
<1>4. Ordered(S) \in [1..n -> S]
  <2>1. \A a \in 1..n : Ordered(S)[a] \in S
    BY <1>1, <1>2, <1>3, OrderedIn
  <2> QED BY <1>3, <2>1 DEF Ordered
<1>5. \A a, b \in 1..n : a < b => Ordered(S)[a] < Ordered(S)[b]
  BY <1>1, <1>2, <1>3, OrderedIncreases
<1>6. \A i \in S : \E a \in 1..n : Ordered(S)[a] = i
  BY <1>1, <1>2, <1>3, RankRange, OrderedAt
<1>7. Lists(Ordered(S), n, S)
  BY <1>4, <1>5, <1>6 DEF Lists
<1> QED BY <1>7

(* Nothing under a key that is not in the document.                         *)
LEMMA UnderNothing ==
    ASSUME NEW d \in Seq(Text), NEW key \in Keys,
           \A i \in DOMAIN d : d[i] # key
    PROVE  Under(d, key) = <<>>
<1>1. ItemsOf(d, key) = {}
  <2> SUFFICES ASSUME NEW i \in DOMAIN d, Section(d, i) = key PROVE FALSE
    BY DEF ItemsOf
  <2>1. i \in Nat /\ 1..i \subseteq DOMAIN d
    OBVIOUS
  <2>2. key # ""
    BY DEF Keys, List, Scalar, Files
  <2> QED BY <2>1, <2>2, SectionCases
<1>2. Cardinality(ItemsOf(d, key)) = 0
  BY <1>1, FS_EmptySet
<1>3. Ordered(ItemsOf(d, key)) = <<>>
  BY <1>2 DEF Ordered
<1> QED BY <1>3 DEF Under

(* What is under a key is a sequence of lines that are neither keys nor     *)
(* skipped.                                                                 *)
LEMMA UnderType ==
    ASSUME NEW d \in Seq(Text), NEW key
    PROVE  /\ Under(d, key) \in Seq(Text)
           /\ \A a \in 1..Len(Under(d, key)) : Under(d, key)[a] \notin Keys \cup Skipped
<1>1. CASE ~IsCloudConfig(d)
  BY <1>1 DEF Under
<1>2. CASE IsCloudConfig(d)
  <2>1. PICK n \in Nat : \E e : Lists(e, n, ItemsOf(d, key))
    BY <1>2, UnderOrder
  <2>2. PICK e : Lists(e, n, ItemsOf(d, key))
    BY <2>1
  <2>3. /\ Under(d, key) \in Seq(Text) /\ Len(Under(d, key)) = n
        /\ \A a \in 1..n : e[a] \in ItemsOf(d, key) /\ Under(d, key)[a] = d[e[a]]
    BY <1>2, <2>2, UnderIs
  <2>4. \A i \in ItemsOf(d, key) : d[i] \notin Keys \cup Skipped
    BY DEF ItemsOf
  <2> QED BY <2>3, <2>4
<1> QED BY <1>1, <1>2

(* They are the lines of the key.                                           *)
LEMMA UnderLines ==
    ASSUME NEW d \in Seq(Text), NEW key, IsCloudConfig(d)
    PROVE  /\ \A a \in 1..Len(Under(d, key)) :
                 \E i \in ItemsOf(d, key) : Under(d, key)[a] = d[i]
           /\ \A i \in ItemsOf(d, key) :
                 \E a \in 1..Len(Under(d, key)) : Under(d, key)[a] = d[i]
<1>1. PICK n \in Nat : \E e : Lists(e, n, ItemsOf(d, key))
  BY UnderOrder
<1>2. PICK e : Lists(e, n, ItemsOf(d, key))
  BY <1>1
<1>3. /\ Len(Under(d, key)) = n
      /\ \A a \in 1..n : e[a] \in ItemsOf(d, key) /\ Under(d, key)[a] = d[e[a]]
  BY <1>2, UnderIs
<1>4. \A i \in ItemsOf(d, key) : \E a \in 1..n : e[a] = i
  BY <1>2 DEF Lists
<1> QED BY <1>3, <1>4

(* t has the length of s and lines of the same kinds, at two spaces.        *)
Reads(t, s) ==
    /\ t \in Seq(Text) /\ Len(t) = Len(s) /\ Len(s) \in Nat
    /\ \A a \in 1..Len(s) :
         /\ t[a] # Shifted
         /\ s[a] = Torn => t[a] = Torn
         /\ s[a] # Torn => t[a] # Torn
         /\ s[a] \notin Keys \cup Skipped => t[a] \notin Keys \cup Skipped

(* What is read in a list does.                                             *)
LEMMA ContentsRead ==
    ASSUME NEW s \in Seq(Text)
    PROVE  Reads(Contents(s), s)
<1>1. Item \in Text /\ Item \notin Keys \cup Skipped \cup {Shifted, Torn} /\ Shifted # Torn
  BY DEF Text, Items, Item, Shifted, Torn, Keys, Skipped, Blank, List, Scalar, Files
<1>2. ASSUME NEW l \in Text
      PROVE  /\ Content(l) \in Text /\ Content(l) # Shifted
             /\ l = Torn => Content(l) = Torn
             /\ l # Torn => Content(l) # Torn
             /\ l \notin Keys \cup Skipped => Content(l) \notin Keys \cup Skipped
  BY <1>1 DEF Content
<1>3. PICK n \in Nat : n = Len(s) /\ DOMAIN s = 1..n /\ \A a \in 1..n : s[a] \in Text
  OBVIOUS
<1>4. PICK t : t = [a \in 1..n |-> Content(s[a])] /\ t = Contents(s)
  BY <1>3 DEF Contents
<1>5. t \in Seq(Text) /\ Len(t) = n
  <2>1. \A a \in 1..n : Content(s[a]) \in Text
    BY <1>2, <1>3
  <2> QED BY <1>4, <2>1
<1>6. \A a \in 1..n : t[a] = Content(s[a]) /\ s[a] \in Text
  BY <1>3, <1>4
<1>7. Reads(t, s)
  BY <1>2, <1>3, <1>5, <1>6 DEF Reads
<1> QED BY <1>4, <1>7

(* What cloud-init reads under a key.                                       *)
LEMMA ContentsUnder ==
    ASSUME NEW d \in Seq(Text), NEW key
    PROVE  /\ Reads(Contents(Under(d, key)), Under(d, key))
           /\ \A a \in 1..Len(Under(d, key)) :
                 Contents(Under(d, key))[a] \notin Keys \cup Skipped
<1>1. PICK s \in Seq(Text) : /\ s = Under(d, key)
                            /\ \A a \in 1..Len(s) : s[a] \notin Keys \cup Skipped
  BY UnderType
<1>2. Reads(Contents(s), s)
  BY ContentsRead
<1>3. \A a \in 1..Len(s) : Contents(s)[a] \notin Keys \cup Skipped
  BY <1>1, <1>2 DEF Reads
<1> QED BY <1>1, <1>2, <1>3

(* A list at two spaces is read as it is, and is aligned.                   *)
LEMMA ContentsSame ==
    ASSUME NEW s \in Seq(Text), \A a \in 1..Len(s) : s[a] # Shifted
    PROVE  Contents(s) = s /\ Aligned(s)
  BY DEF Contents, Content, Aligned

(* The header of a cloud-config is the first line that is not skipped.      *)
LEMMA HeaderFirst ==
    ASSUME NEW d \in Seq(Text), NEW h,
           h = SelectInSeq(d, LAMBDA line : line \notin Skipped)
    PROVE  /\ IsCloudConfig(d) <=> h # 0 /\ d[h] = Header
           /\ h # 0 => h \in 1..Len(d) /\ \A i \in 1..(h - 1) : d[i] \in Skipped
<1> DEFINE I == {i \in 1..Len(d) : d[i] \notin Skipped}
<1>1. h = IF I # {} THEN Min(I) ELSE 0
  BY DEF SelectInSeq
<1>2. Len(d) \in Nat /\ DOMAIN d = 1..Len(d) /\ I \in SUBSET (1..Len(d))
  OBVIOUS
<1>3. I # {} => h \in I /\ \A j \in I : h <= j
  BY <1>1, <1>2, MinIsLeast
<1>4. ASSUME h # 0 PROVE h \in 1..Len(d) /\ \A i \in 1..(h - 1) : d[i] \in Skipped
  <2>1. h \in 1..Len(d) /\ \A j \in I : h <= j
    BY <1>1, <1>3, <1>4
  <2>2. ASSUME NEW i \in 1..(h - 1) PROVE d[i] \in Skipped
    <3>1. i \in 1..Len(d) /\ ~(h <= i)
      BY <1>2, <2>1
    <3> QED BY <2>1, <3>1
  <2> QED BY <2>1, <2>2
<1>5. h # 0 /\ d[h] = Header => IsCloudConfig(d)
  BY <1>2, <1>4 DEF IsCloudConfig
<1>6. ASSUME IsCloudConfig(d) PROVE h # 0 /\ d[h] = Header
  <2>1. PICK g \in 1..Len(d) : d[g] = Header /\ \A i \in 1..(g - 1) : d[i] \in Skipped
    BY <1>2, <1>6 DEF IsCloudConfig
  <2>2. g \in I
    BY <2>1 DEF Header, Skipped, Blank
  <2>3. h \in I /\ h <= g
    BY <1>3, <2>2
  <2>4. ~(h < g)
    BY <2>1, <2>3
  <2>5. h = g
    BY <2>3, <2>4
  <2> QED BY <2>1, <2>5
<1> QED BY <1>4, <1>5, <1>6

(* The lines of two documents put together.                                 *)
LEMMA Joined ==
    ASSUME NEW s \in Seq(Text), NEW t \in Seq(Text), NEW u, u = s \o t
    PROVE  /\ u \in Seq(Text)
           /\ Len(s) \in Nat /\ Len(t) \in Nat /\ Len(u) = Len(s) + Len(t)
           /\ \A i \in 1..Len(u) : u[i] = IF i <= Len(s) THEN s[i] ELSE t[i - Len(s)]
  OBVIOUS

(* Line h of d is the header, and no line before it counts.                 *)
Headed(d, h) == h # 0 /\ d[h] = Header /\ \A i \in 1..(h - 1) : d[i] \in Skipped

(* Lines a to b of d are items.                                             *)
AllItems(d, a, b) == \A i \in a..b : d[i] \notin Keys \cup Skipped

(* After line b of d come the lines of s.                                   *)
Has(d, b, s) == \A i \in 1..Len(s) : d[b + i] = s[i]

(* out is four documents put together, with a line after the first.         *)
Joins(out, P, l, C, U, T) ==
    /\ out \in Seq(Text) /\ Len(out) = Len(P) + 1 + Len(C) + Len(U) + Len(T)
    /\ \A i \in 1..Len(P) : out[i] = P[i]
    /\ out[Len(P) + 1] = l
    /\ Has(out, Len(P) + 1, C)
    /\ Has(out, Len(P) + 1 + Len(C), U)
    /\ Has(out, Len(P) + 1 + Len(C) + Len(U), T)

(* The concatenation is.                                                    *)
LEMMA JoinedFive ==
    ASSUME NEW P \in Seq(Text), NEW l \in Text, NEW C \in Seq(Text), NEW U \in Seq(Text),
           NEW T \in Seq(Text)
    PROVE  Joins(P \o <<l>> \o C \o U \o T, P, l, C, U, T)
<1>1. ASSUME NEW X, X = P \o <<l>>, NEW Y, Y = X \o C, NEW Z, Z = Y \o U,
             NEW out, out = Z \o T,
             NEW p, p = Len(P), NEW c, c = Len(C), NEW u, u = Len(U), NEW t, t = Len(T)
      PROVE  Joins(out, P, l, C, U, T)
  <2> USE <1>1
  <2>1. <<l>> \in Seq(Text) /\ Len(<<l>>) = 1 /\ <<l>>[1] = l
    OBVIOUS
  <2>2. X \in Seq(Text) /\ p \in Nat /\ Len(X) = p + 1
    BY <2>1, Joined
  <2>3. Y \in Seq(Text) /\ c \in Nat /\ Len(Y) = p + 1 + c
    BY <2>2, Joined
  <2>4. Z \in Seq(Text) /\ u \in Nat /\ Len(Z) = p + 1 + c + u
    BY <2>3, Joined
  <2>5. out \in Seq(Text) /\ t \in Nat /\ Len(out) = p + 1 + c + u + t
    BY <2>4, Joined
  <2>6. \A i \in 1..p : out[i] = P[i]
    OBVIOUS
  <2>7. out[p + 1] = l
    OBVIOUS
  <2>8. \A i \in 1..c : out[p + 1 + i] = C[i]
    OBVIOUS
  <2>9. \A i \in 1..u : out[p + 1 + c + i] = U[i]
    OBVIOUS
  <2>10. \A i \in 1..t : out[p + 1 + c + u + i] = T[i]
    OBVIOUS
  <2> QED BY <2>5, <2>6, <2>7, <2>8, <2>9, <2>10 DEF Joins, Has
<1> QED BY <1>1, Zenon

(* s is lines b to l of d.                                                  *)
Copies(s, d, b, l) ==
    /\ s \in Seq(Text) /\ Len(s) = l + 1 - b
    /\ \A a \in 1..(l + 1 - b) : s[a] = d[(b - 1) + a]

(* What is under a key whose lines follow each other.                       *)
LEMMA UnderRun ==
    ASSUME NEW d \in Seq(Text), NEW key, IsCloudConfig(d), NEW b \in Nat, NEW l \in Nat,
           b <= l + 1, ItemsOf(d, key) = b..l
    PROVE  Copies(Under(d, key), d, b, l)
<1> DEFINE n == l + 1 - b
           e == [a \in 1..n |-> (b - 1) + a]
<1>1. n \in Nat /\ e \in [1..n -> b..l] /\ \A a, a2 \in 1..n : a < a2 => e[a] < e[a2]
  OBVIOUS
<1>2. ASSUME NEW i \in b..l PROVE \E a \in 1..n : e[a] = i
  <2>1. i - (b - 1) \in 1..n /\ e[i - (b - 1)] = i
    OBVIOUS
  <2> QED BY <2>1
<1>3. Lists(e, n, ItemsOf(d, key))
  BY <1>1, <1>2 DEF Lists
<1>4. /\ Under(d, key) \in Seq(Text) /\ Len(Under(d, key)) = n
      /\ \A a \in 1..n : Under(d, key)[a] = d[e[a]]
  <2>1. d \in Seq(Text) /\ IsCloudConfig(d) /\ n \in Nat /\ Lists(e, n, ItemsOf(d, key))
    BY <1>1, <1>3
  <2> HIDE DEF n, e
  <2> QED BY ONLY <2>1, UnderIs
<1> QED BY <1>4 DEF Copies

(* Two documents are the same when their lines are.                         *)
LEMMA SameLines ==
    ASSUME NEW s \in Seq(Text), NEW t \in Seq(Text), Len(s) = Len(t),
           \A i \in 1..Len(s) : s[i] = t[i]
    PROVE  s = t
  OBVIOUS

(* The document PrependCloudConfigRunCmds writes: the header on line p, the *)
(* commands up to line q, and the files.                                    *)
LEMMA Rewritten ==
    ASSUME NEW out \in Seq(Text), NEW p \in Nat, NEW q \in Nat, NEW z \in Nat,
           z = Len(out), p < q, q <= z,
           Headed(out, p), out[p + 1] = List, AllItems(out, p + 2, q),
           q # z => out[q + 1] = Files, AllItems(out, q + 2, z)
    PROVE  /\ IsCloudConfig(out)
           /\ ItemsOf(out, List) = (p + 2)..q
           /\ q = z => \A i \in DOMAIN out : out[i] # Files
           /\ q # z => ItemsOf(out, Files) = (q + 2)..z
<1> USE DEF Headed, AllItems
<1>1. DOMAIN out = 1..z /\ p \in DOMAIN out
  OBVIOUS
<1>2. IsCloudConfig(out)
  BY <1>1 DEF IsCloudConfig
<1>3. List # Files /\ List # "" /\ Files # "" /\ List \in Keys /\ Files \in Keys
  BY DEF List, Files, Keys
<1>4. ASSUME NEW i \in 1..p PROVE out[i] \notin Keys
  <2>1. i \in 1..(p - 1) \/ i = p
    OBVIOUS
  <2> QED BY <2>1 DEF Skipped, Blank, Header, Keys, List, Scalar, Files
<1>5. ASSUME NEW i \in 1..p PROVE Section(out, i) = ""
  <2>1. i \in Nat /\ 1..i \subseteq 1..p
    OBVIOUS
  <2> QED BY <1>4, <2>1, NoSection
<1>6. ASSUME NEW i \in (p + 1)..q PROVE Section(out, i) = List
  <2>1. i \in Nat /\ p + 1 \in 1..i
    BY <1>1
  <2>2. \A j \in ((p + 1) + 1)..i : j \in (p + 2)..q
    BY <1>1
  <2>3. \A j \in ((p + 1) + 1)..i : out[j] \notin Keys
    BY <2>2
  <2>4. out[p + 1] \in Keys
    BY <1>3
  <2> QED BY <2>1, <2>3, <2>4, SectionIs
<1>7. ASSUME NEW i \in (q + 1)..z PROVE Section(out, i) = Files
  <2>1. i \in Nat /\ q + 1 \in 1..i /\ q # z
    BY <1>1
  <2>2. \A j \in ((q + 1) + 1)..i : j \in (q + 2)..z
    BY <1>1
  <2>3. \A j \in ((q + 1) + 1)..i : out[j] \notin Keys
    BY <2>2
  <2>4. out[q + 1] = Files /\ out[q + 1] \in Keys
    BY <1>3, <2>1
  <2> QED BY <2>1, <2>3, <2>4, SectionIs
<1>8. ItemsOf(out, List) = (p + 2)..q
  <2>1. ASSUME NEW i \in 1..z
        PROVE  i \in ItemsOf(out, List) <=> i \in (p + 2)..q
    <3>1. i \in 1..p \/ i = p + 1 \/ i \in (p + 2)..q \/ i \in (q + 1)..z
      BY <1>1
    <3>2. CASE i \in 1..p
      <4>1. Section(out, i) # List
        BY <1>3, <1>5, <3>2
      <4>2. i \notin (p + 2)..q
        BY <1>1, <3>2
      <4> QED BY <4>1, <4>2 DEF ItemsOf
    <3>3. CASE i = p + 1
      <4>1. out[i] \in Keys /\ i \notin (p + 2)..q
        BY <1>3, <3>3
      <4> QED BY <4>1 DEF ItemsOf
    <3>4. CASE i \in (p + 2)..q
      <4>1. i \in (p + 1)..q
        BY <3>4
      <4>2. Section(out, i) = List /\ out[i] \notin Keys \cup Skipped
        BY <1>6, <3>4, <4>1
      <4> QED BY <1>1, <3>4, <4>2 DEF ItemsOf
    <3>5. CASE i \in (q + 1)..z
      <4>1. Section(out, i) # List
        BY <1>3, <1>7, <3>5
      <4>2. i \notin (p + 2)..q
        BY <1>1, <3>5
      <4> QED BY <4>1, <4>2 DEF ItemsOf
    <3> QED BY <3>1, <3>2, <3>3, <3>4, <3>5
  <2>2. ItemsOf(out, List) \subseteq 1..z
    BY <1>1 DEF ItemsOf
  <2>3. (p + 2)..q \subseteq 1..z
    BY <1>1
  <2> QED BY <2>1, <2>2, <2>3
<1>9. ASSUME q = z, NEW i \in DOMAIN out PROVE out[i] # Files
  <2>1. i \in 1..p \/ i = p + 1 \/ i \in (p + 2)..q
    BY <1>1, <1>9
  <2> QED BY <1>3, <1>4, <2>1
<1>10. ASSUME q # z PROVE ItemsOf(out, Files) = (q + 2)..z
  <2>1. ASSUME NEW i \in 1..z
        PROVE  i \in ItemsOf(out, Files) <=> i \in (q + 2)..z
    <3>1. i \in 1..p \/ i \in (p + 1)..q \/ i = q + 1 \/ i \in (q + 2)..z
      BY <1>1
    <3>2. CASE i \in 1..p
      <4>1. Section(out, i) # Files
        BY <1>3, <1>5, <3>2
      <4>2. i \notin (q + 2)..z
        BY <1>1, <3>2
      <4> QED BY <4>1, <4>2 DEF ItemsOf
    <3>3. CASE i \in (p + 1)..q
      <4>1. Section(out, i) # Files
        BY <1>3, <1>6, <3>3
      <4>2. i \notin (q + 2)..z
        BY <1>1, <3>3
      <4> QED BY <4>1, <4>2 DEF ItemsOf
    <3>4. CASE i = q + 1
      <4>1. out[i] \in Keys /\ i \notin (q + 2)..z
        BY <1>1, <1>3, <1>10, <3>4
      <4> QED BY <4>1 DEF ItemsOf
    <3>5. CASE i \in (q + 2)..z
      <4>1. i \in (q + 1)..z
        BY <1>1, <3>5
      <4>2. Section(out, i) = Files /\ out[i] \notin Keys \cup Skipped
        BY <1>7, <3>5, <4>1
      <4> QED BY <1>1, <3>5, <4>2 DEF ItemsOf
    <3> QED BY <3>1, <3>2, <3>3, <3>4, <3>5
  <2>2. ItemsOf(out, Files) \subseteq 1..z
    BY <1>1 DEF ItemsOf
  <2>3. (q + 2)..z \subseteq 1..z
    BY <1>1
  <2> QED BY <2>1, <2>2, <2>3
<1> QED BY <1>2, <1>8, <1>9, <1>10

(* What cloud-init finds in it: the commands before those that were there,  *)
(* and the files.                                                           *)
LEMMA RewrittenReads ==
    ASSUME NEW P \in Seq(Text), NEW C \in Seq(Text), NEW U \in Seq(Text), NEW T \in Seq(Text),
           NEW out, Joins(out, P, List, C, U, T),
           Headed(P, Len(P)), AllItems(C, 1, Len(C)), AllItems(U, 1, Len(U)),
           T # <<>> => T[1] = Files, AllItems(T, 2, Len(T))
    PROVE  /\ IsCloudConfig(out)
           /\ Under(out, List) = C \o U
           /\ T = <<>> => Under(out, Files) = <<>>
           /\ T # <<>> => /\ Under(out, Files) \in Seq(Text)
                          /\ Len(Under(out, Files)) = Len(T) - 1
                          /\ \A a \in 1..(Len(T) - 1) : Under(out, Files)[a] = T[1 + a]
<1>1. PICK p \in Nat, c \in Nat, u \in Nat, t \in Nat :
         p = Len(P) /\ c = Len(C) /\ u = Len(U) /\ t = Len(T)
  OBVIOUS
<1>2. /\ out \in Seq(Text) /\ Len(out) = p + 1 + c + u + t /\ out[p + 1] = List
      /\ Has(out, p + 1, C) /\ Has(out, p + 1 + c, U) /\ Has(out, p + 1 + c + u, T)
  BY <1>1 DEF Joins
<1>3. Headed(out, p)
  BY <1>1, SMTT(20) DEF Headed, Joins
<1>4. PICK m \in Nat, q \in Nat : m = c + u /\ q = p + 1 + m
  OBVIOUS
<1>5. t = 0 <=> T = <<>>
  BY <1>1
<1>6. PICK z \in Nat : z = Len(out) /\ z = q + t
  BY <1>2, <1>4
<1>8. AllItems(out, p + 2, q)
  <2> SUFFICES ASSUME NEW i \in (p + 2)..q PROVE out[i] \notin Keys \cup Skipped
    BY DEF AllItems
  <2>1. CASE i <= p + 1 + c
    <3>1. i - (p + 1) \in 1..c /\ i = p + 1 + (i - (p + 1))
      BY <1>4, <2>1
    <3>2. out[i] = C[i - (p + 1)]
      BY <1>1, <1>2, <3>1 DEF Has
    <3> QED BY <1>1, <3>1, <3>2 DEF AllItems
  <2>2. CASE ~(i <= p + 1 + c)
    <3>1. i - (p + 1 + c) \in 1..u /\ i = p + 1 + c + (i - (p + 1 + c))
      BY <1>4, <2>2
    <3>2. out[i] = U[i - (p + 1 + c)]
      BY <1>1, <1>2, <3>1 DEF Has
    <3> QED BY <1>1, <3>1, <3>2 DEF AllItems
  <2> QED BY <2>1, <2>2
<1>9. ASSUME NEW i \in 1..t PROVE out[q + i] = T[i]
  <2>1. q + i = p + 1 + c + u + i
    BY <1>4
  <2> QED BY <1>1, <1>2, <2>1 DEF Has
<1>10. ASSUME t # 0 PROVE out[q + 1] = Files
  <2>1. 1 \in 1..t
    BY <1>10
  <2> QED BY <1>5, <1>9, <1>10, <2>1
<1>11. AllItems(out, q + 2, q + t)
  <2> SUFFICES ASSUME NEW i \in (q + 2)..(q + t) PROVE out[i] \notin Keys \cup Skipped
    BY DEF AllItems
  <2>1. i - q \in 2..t /\ i - q \in 1..t /\ i = q + (i - q)
    BY <1>4
  <2>2. out[i] = T[i - q]
    BY <1>9, <2>1
  <2> QED BY <1>1, <2>1, <2>2 DEF AllItems
<1>12. /\ IsCloudConfig(out)
       /\ ItemsOf(out, List) = (p + 2)..q
       /\ q = z => \A i \in DOMAIN out : out[i] # Files
       /\ q # z => ItemsOf(out, Files) = (q + 2)..z
  <2>1. p < q /\ q <= z /\ (q = z <=> t = 0)
    BY <1>4, <1>6
  <2>2. AllItems(out, q + 2, z)
    BY <1>6, <1>11
  <2>3. q # z => out[q + 1] = Files
    BY <1>10, <2>1
  <2> QED BY <1>2, <1>3, <1>6, <1>8, <2>1, <2>2, <2>3, Rewritten
<1>13. Under(out, List) = C \o U
  <2>1. PICK b \in Nat : b = p + 2 /\ b <= q + 1 /\ q + 1 - b = m /\ b - 1 = p + 1
    BY <1>4
  <2>2. Copies(Under(out, List), out, b, q)
    <3>1. IsCloudConfig(out) /\ ItemsOf(out, List) = b..q /\ b <= q + 1
      BY <1>12, <2>1
    <3> QED BY <1>2, <3>1, UnderRun
  <2>3. /\ Under(out, List) \in Seq(Text) /\ Len(Under(out, List)) = m
        /\ \A a \in 1..m : Under(out, List)[a] = out[(p + 1) + a]
    BY <2>1, <2>2 DEF Copies
  <2>4. PICK v : v = C \o U
    OBVIOUS
  <2>5. /\ v \in Seq(Text) /\ Len(v) = m
        /\ \A a \in 1..m : v[a] = IF a <= c THEN C[a] ELSE U[a - c]
    BY <1>1, <1>4, <2>4, Joined
  <2>6. ASSUME NEW a \in 1..m PROVE Under(out, List)[a] = v[a]
    <3>1. CASE a <= c
      <4>1. a \in 1..c /\ (p + 1) + a = p + 1 + a
        BY <3>1
      <4>2. out[(p + 1) + a] = C[a]
        BY <1>1, <1>2, <4>1 DEF Has
      <4> QED BY <2>3, <2>5, <3>1, <4>2
    <3>2. CASE ~(a <= c)
      <4>1. a - c \in 1..u /\ (p + 1) + a = p + 1 + c + (a - c)
        BY <1>4, <3>2
      <4>2. out[(p + 1) + a] = U[a - c]
        BY <1>1, <1>2, <4>1 DEF Has
      <4> QED BY <2>3, <2>5, <3>2, <4>2
    <3> QED BY <3>1, <3>2
  <2>7. Under(out, List) = v
    BY <2>3, <2>5, <2>6, SameLines
  <2> QED BY <2>4, <2>7
<1>14. ASSUME T = <<>> PROVE Under(out, Files) = <<>>
  <2>1. Files \in Keys
    BY DEF Keys
  <2>2. q = z
    BY <1>5, <1>6, <1>14
  <2> QED BY <1>2, <1>12, <2>1, <2>2, UnderNothing
<1>15. ASSUME T # <<>>
       PROVE  /\ Under(out, Files) \in Seq(Text)
              /\ Len(Under(out, Files)) = Len(T) - 1
              /\ \A a \in 1..(Len(T) - 1) : Under(out, Files)[a] = T[1 + a]
  <2>1. PICK b \in Nat : /\ b = q + 2 /\ b <= z + 1 /\ q # z
                        /\ z + 1 - b = t - 1 /\ b - 1 = q + 1
    <3>1. q + 2 \in Nat /\ t # 0
      BY <1>5, <1>15
    <3> QED BY <1>4, <1>6, <3>1
  <2>2. Copies(Under(out, Files), out, b, z)
    <3>1. IsCloudConfig(out) /\ ItemsOf(out, Files) = b..z /\ b <= z + 1
      BY <1>12, <2>1
    <3> QED BY <1>2, <3>1, UnderRun
  <2>3. /\ Under(out, Files) \in Seq(Text) /\ Len(Under(out, Files)) = t - 1
        /\ \A a \in 1..(t - 1) : Under(out, Files)[a] = out[(q + 1) + a]
    BY <2>1, <2>2 DEF Copies
  <2>4. ASSUME NEW a \in 1..(t - 1) PROVE out[(q + 1) + a] = T[1 + a]
    <3>1. 1 + a \in 1..t /\ (q + 1) + a = q + (1 + a)
      BY <1>4
    <3> QED BY <1>9, <3>1
  <2> QED BY <1>1, <2>3, <2>4
<1> QED BY <1>12, <1>13, <1>14, <1>15

-----------------------------------------------------------------------------
(* Bare metal servers *)

(* The beginning of a document.                                             *)
LEMMA Beginning ==
    ASSUME NEW d \in Seq(Text), NEW h \in 0..Len(d), NEW P, P = SubSeq(d, 1, h)
    PROVE  P \in Seq(Text) /\ Len(P) = h /\ \A i \in 1..h : P[i] = d[i]
  OBVIOUS

(* The files with their key.                                                *)
LEMMA FilesWithKey ==
    ASSUME NEW F \in Seq(Text), AllItems(F, 1, Len(F)), NEW T, T = <<Files>> \o F
    PROVE  /\ T \in Seq(Text) /\ T # <<>> /\ Len(T) = Len(F) + 1 /\ T[1] = Files
           /\ AllItems(T, 2, Len(T)) /\ \A a \in 1..Len(F) : T[1 + a] = F[a]
<1>1. Files \in Text
  BY DEF Text, Keys
<1>2. T \in Seq(Text) /\ Len(T) = Len(F) + 1 /\ T[1] = Files /\ Len(F) \in Nat
  BY <1>1
<1>3. \A a \in 1..Len(F) : T[1 + a] = F[a]
  BY <1>1
<1>4. ASSUME NEW i \in 2..Len(T) PROVE T[i] \notin Keys \cup Skipped
  <2>1. i - 1 \in 1..Len(F) /\ i = 1 + (i - 1)
    BY <1>2
  <2> QED BY <1>3, <2>1 DEF AllItems
<1> QED BY <1>2, <1>3, <1>4 DEF AllItems

(* The commands are lines, and items.                                       *)
LEMMA CmdsAreItems ==
    /\ Cmds \in Seq(Text) /\ Cmds # <<>> /\ AllItems(Cmds, 1, Len(Cmds))
    /\ \A i \in 1..Len(Cmds) : Cmds[i] # Shifted
<1>1. Cmds \in Seq(STRING) /\ Cmds # <<>>
  BY CmdsAssumption
<1>2. \A i \in 1..Len(Cmds) : /\ Cmds[i] \in STRING /\ Cmds[i] # Shifted
                              /\ Cmds[i] \notin Keys \cup Skipped
  BY <1>1, CmdsAssumption
<1>3. Cmds \in Seq(Text)
  <2>1. \A i \in 1..Len(Cmds) : Cmds[i] \in Text
    BY <1>2 DEF Text
  <2>2. Len(Cmds) \in Nat /\ DOMAIN Cmds = 1..Len(Cmds) /\ Cmds = [i \in 1..Len(Cmds) |-> Cmds[i]]
    BY <1>1
  <2> QED BY <2>1, <2>2
<1> QED BY <1>1, <1>2, <1>3 DEF AllItems

(* v is the commands followed by the lines of U.                            *)
Prefixed(v, U) ==
    /\ v \in Seq(Text) /\ v # <<>> /\ Len(Cmds) \in Nat /\ Len(Cmds) # 0
    /\ Len(U) \in Nat /\ Len(v) = Len(Cmds) + Len(U)
    /\ \A a \in 1..Len(Cmds) : v[a] = Cmds[a] /\ v[a] # Shifted
    /\ \A a \in 1..Len(U) : v[Len(Cmds) + a] = U[a]
    /\ \A a \in 1..Len(v) : a \in 1..Len(Cmds) \/ a - Len(Cmds) \in 1..Len(U)

(* The concatenation is.                                                    *)
LEMMA CmdsBefore ==
    ASSUME NEW U \in Seq(Text)
    PROVE  Prefixed(Cmds \o U, U)
<1>1. PICK v : v = Cmds \o U
  OBVIOUS
<1>2. /\ Cmds \in Seq(Text) /\ Cmds # <<>>
      /\ \A i \in 1..Len(Cmds) : Cmds[i] # Shifted
  BY CmdsAreItems
<1>3. /\ v \in Seq(Text) /\ Len(Cmds) \in Nat /\ Len(U) \in Nat /\ Len(v) = Len(Cmds) + Len(U)
      /\ \A a \in 1..Len(v) : v[a] = IF a <= Len(Cmds) THEN Cmds[a] ELSE U[a - Len(Cmds)]
  BY <1>1, <1>2, Joined
<1>4. Len(Cmds) # 0
  BY <1>2
<1>5. \A a \in 1..Len(Cmds) : v[a] = Cmds[a] /\ v[a] # Shifted
  BY <1>2, <1>3
<1>6. ASSUME NEW a \in 1..Len(U) PROVE v[Len(Cmds) + a] = U[a]
  <2>1. /\ Len(Cmds) + a \in 1..Len(v) /\ ~(Len(Cmds) + a <= Len(Cmds))
        /\ (Len(Cmds) + a) - Len(Cmds) = a
    BY <1>3
  <2> QED BY <1>3, <2>1
<1>7. \A a \in 1..Len(v) : a \in 1..Len(Cmds) \/ a - Len(Cmds) \in 1..Len(U)
  BY <1>3
<1>8. v # <<>>
  BY <1>3, <1>4
<1>9. Prefixed(v, U)
  BY <1>3, <1>4, <1>5, <1>6, <1>7, <1>8 DEF Prefixed
<1> QED BY <1>1, <1>9

(* When U is at two spaces all of it is.                                    *)
LEMMA CmdsBeforeItems ==
    ASSUME NEW U \in Seq(Text), \A a \in 1..Len(U) : U[a] # Shifted
    PROVE  Contents(Cmds \o U) = Cmds \o U /\ Aligned(Cmds \o U)
<1>1. PICK v : v = Cmds \o U /\ Prefixed(v, U)
  BY CmdsBefore
<1>2. ASSUME NEW a \in 1..Len(v) PROVE v[a] # Shifted
  <2>1. CASE a \in 1..Len(Cmds)
    BY <1>1, <2>1 DEF Prefixed
  <2>2. CASE a - Len(Cmds) \in 1..Len(U)
    <3>1. PICK b \in 1..Len(U) : a = Len(Cmds) + b
      BY <1>1, <2>2 DEF Prefixed
    <3>2. v[Len(Cmds) + b] = U[b]
      BY <1>1 DEF Prefixed
    <3> QED BY <3>1, <3>2
  <2> QED BY <1>1, <2>1, <2>2 DEF Prefixed
<1>3. v \in Seq(Text)
  BY <1>1 DEF Prefixed
<1>4. Contents(v) = v /\ Aligned(v)
  BY <1>2, <1>3, ContentsSame
<1> QED BY <1>1, <1>4

(* A cloud-config that ends with a header ends with its header.             *)
LEMMA EmptyEndsAtHeader ==
    ASSUME NEW d \in Seq(Text), WellFormed(d), IsCloudConfig(d), NEW h,
           h = SelectInSeq(d, LAMBDA line : line \notin Skipped)
    PROVE  Empty(d) <=> h = Len(d)
<1>1. h # 0 /\ d[h] = Header /\ h \in 1..Len(d)
  BY HeaderFirst
<1>2. \A i \in (h + 1)..Len(d) : d[i] \in Keys \cup {Blank} \cup Items
  <2>1. d[h] # "#!/bin/sh"
    BY <1>1 DEF Header
  <2> QED BY <1>1, <2>1 DEF WellFormed
<1>3. ASSUME Empty(d), h # Len(d) PROVE FALSE
  <2>1. Len(d) \in (h + 1)..Len(d)
    BY <1>1, <1>3
  <2>2. Header \in Keys \cup {Blank} \cup Items
    BY <1>2, <1>3, <2>1 DEF Empty
  <2> QED BY <2>2 DEF Keys, Items, Item, Shifted, Mention, Blank, Header, List, Scalar, Files
<1>4. ASSUME h = Len(d) PROVE Empty(d)
  BY <1>1, <1>4 DEF Empty
<1> QED BY <1>3, <1>4

(* PrependCloudConfigRunCmds keeps its promise.                             *)
LEMMA PrependRunsFirst ==
    ASSUME doc \in Seq(Text), WellFormed(doc)
    PROVE  BareMetalRunsFirst
<1>1. PICK h : h = SelectInSeq(doc, LAMBDA line : line \notin Skipped)
  OBVIOUS
<1>2. /\ IsCloudConfig(doc) <=> h # 0 /\ doc[h] = Header
      /\ h # 0 => h \in 1..Len(doc) /\ \A i \in 1..(h - 1) : doc[i] \in Skipped
  BY <1>1, HeaderFirst
<1>3. splitCloudConfigHeader(doc) = IF IsCloudConfig(doc) THEN h ELSE 0
  BY <1>1, <1>2 DEF splitCloudConfigHeader
<1>4. IsCloudConfig(doc) => (Empty(doc) <=> h = Len(doc))
  BY <1>1, EmptyEndsAtHeader
<1>5. Cmds \in Seq(Text) /\ Cmds # <<>> /\ AllItems(Cmds, 1, Len(Cmds))
  BY CmdsAreItems
<1>6. CASE ~IsCloudConfig(doc) \/ Empty(doc)
  <2>1. splitCloudConfigHeader(doc) \in {0, Len(doc)}
    BY <1>3, <1>4, <1>6
  <2>2. PrependCloudConfigRunCmds(doc, Cmds) = doc
    BY <2>1 DEF PrependCloudConfigRunCmds
  <2> QED BY <1>6, <2>2 DEF BareMetalRunsFirst
<1>7. CASE IsCloudConfig(doc) /\ ~Empty(doc)
  <2>1. /\ splitCloudConfigHeader(doc) = h /\ h \notin {0, Len(doc)}
        /\ h \in 0..Len(doc) /\ doc[h] = Header /\ \A i \in 1..(h - 1) : doc[i] \in Skipped
    BY <1>2, <1>3, <1>4, <1>7
  <2>2. CASE \E i \in DOMAIN doc : doc[i] = Scalar
    <3>1. PrependCloudConfigRunCmds(doc, Cmds) = Failed
      BY <1>5, <2>1, <2>2 DEF PrependCloudConfigRunCmds
    <3> QED BY <1>7, <2>2, <3>1 DEF BareMetalRunsFirst
  <2>3. CASE ~\E i \in DOMAIN doc : doc[i] = Scalar
    <3>1. PICK P : P = SubSeq(doc, 1, h)
      OBVIOUS
    <3>2. P \in Seq(Text) /\ Headed(P, Len(P))
      <4>1. P \in Seq(Text) /\ Len(P) = h /\ \A i \in 1..h : P[i] = doc[i]
        BY <2>1, <3>1, Beginning
      <4>2. h \in 1..h /\ \A i \in 1..(h - 1) : i \in 1..h
        BY <2>1
      <4> QED BY <2>1, <4>1, <4>2 DEF Headed
    <3>3. PICK U : U = Contents(Under(doc, List))
      OBVIOUS
    <3>4. U \in Seq(Text) /\ AllItems(U, 1, Len(U)) /\ \A a \in 1..Len(U) : U[a] # Shifted
      <4>1. PICK W : /\ W = Under(doc, List) /\ Reads(U, W)
                     /\ \A a \in 1..Len(W) : U[a] \notin Keys \cup Skipped
        BY <3>3, ContentsUnder, Zenon
      <4> QED BY <4>1 DEF AllItems, Reads
    <3>5. PICK F : F = Contents(Under(doc, Files))
      OBVIOUS
    <3>6. F \in Seq(Text) /\ AllItems(F, 1, Len(F)) /\ \A a \in 1..Len(F) : F[a] # Shifted
      <4>1. PICK W : /\ W = Under(doc, Files) /\ Reads(F, W)
                     /\ \A a \in 1..Len(W) : F[a] \notin Keys \cup Skipped
        BY <3>5, ContentsUnder, Zenon
      <4> QED BY <4>1 DEF AllItems, Reads
    <3>7. PICK T : T = IF \E i \in DOMAIN doc : doc[i] = Files THEN <<Files>> \o F ELSE <<>>
      OBVIOUS
    <3>8. /\ T \in Seq(Text) /\ AllItems(T, 2, Len(T))
          /\ T # <<>> => T[1] = Files
          /\ T = <<>> => F = <<>>
          /\ T # <<>> => Len(T) - 1 = Len(F) /\ \A a \in 1..Len(F) : T[1 + a] = F[a]
      <4>1. CASE \E i \in DOMAIN doc : doc[i] = Files
        <5>1. T = <<Files>> \o F
          BY <3>7, <4>1
        <5>2. /\ T \in Seq(Text) /\ T # <<>> /\ Len(T) = Len(F) + 1 /\ T[1] = Files
              /\ AllItems(T, 2, Len(T)) /\ \A a \in 1..Len(F) : T[1 + a] = F[a]
          BY <3>6, <5>1, FilesWithKey
        <5>3. Len(F) \in Nat
          BY <3>6
        <5> QED BY <5>2, <5>3
      <4>2. CASE ~\E i \in DOMAIN doc : doc[i] = Files
        <5>1. T = <<>>
          BY <3>7, <4>2
        <5>2. Files \in Keys
          BY DEF Keys
        <5>3. F = <<>>
          <6>1. Under(doc, Files) = <<>>
            BY <4>2, <5>2, UnderNothing
          <6> QED BY <3>5, <6>1 DEF Contents
        <5>4. AllItems(T, 2, Len(T))
          BY <5>1 DEF AllItems
        <5> QED BY <5>1, <5>3, <5>4
      <4> QED BY <4>1, <4>2
    <3>9. PICK out : out = P \o <<List>> \o Cmds \o U \o T
      OBVIOUS
    <3>10. PrependCloudConfigRunCmds(doc, Cmds) = out
      BY <1>5, <2>1, <2>3, <3>1, <3>3, <3>5, <3>7, <3>9 DEF PrependCloudConfigRunCmds
    <3>11. Joins(out, P, List, Cmds, U, T)
      <4>1. List \in Text
        BY DEF Text, Keys
      <4>2. P \in Seq(Text) /\ Cmds \in Seq(Text) /\ U \in Seq(Text) /\ T \in Seq(Text)
        BY <1>5, <3>2, <3>4, <3>8
      <4>3. Joins(P \o <<List>> \o Cmds \o U \o T, P, List, Cmds, U, T)
        BY <4>1, <4>2, JoinedFive, Zenon
      <4> QED BY <3>9, <4>3, Zenon
    <3>12. /\ IsCloudConfig(out)
           /\ Under(out, List) = Cmds \o U
           /\ T = <<>> => Under(out, Files) = <<>>
           /\ T # <<>> => /\ Under(out, Files) \in Seq(Text)
                          /\ Len(Under(out, Files)) = Len(T) - 1
                          /\ \A a \in 1..(Len(T) - 1) : Under(out, Files)[a] = T[1 + a]
      <4>1. P \in Seq(Text) /\ Cmds \in Seq(Text) /\ U \in Seq(Text) /\ T \in Seq(Text)
        BY <1>5, <3>2, <3>4, <3>8
      <4>2. /\ Headed(P, Len(P)) /\ AllItems(Cmds, 1, Len(Cmds)) /\ AllItems(U, 1, Len(U))
            /\ AllItems(T, 2, Len(T))
        BY <1>5, <3>2, <3>4, <3>8
      <4>3. T # <<>> => T[1] = Files
        BY <3>8
      <4> QED BY <3>11, <4>1, <4>2, <4>3, RewrittenReads
    <3>13. Under(out, Files) = F
      <4>1. CASE T = <<>>
        BY <3>8, <3>12, <4>1
      <4>2. CASE T # <<>>
        <5>1. /\ Under(out, Files) \in Seq(Text) /\ Len(Under(out, Files)) = Len(F)
              /\ \A a \in 1..Len(F) : Under(out, Files)[a] = F[a]
          BY <3>8, <3>12, <4>2
        <5> QED BY <3>6, <5>1, SameLines
      <4> QED BY <4>1, <4>2
    <3>14. RunsFirst(doc, out)
      <4>1. /\ Contents(Under(out, List)) = Under(out, List)
            /\ Aligned(Under(out, List))
        BY <3>4, <3>12, CmdsBeforeItems
      <4>2. Contents(Under(out, Files)) = F /\ Aligned(Under(out, Files))
        BY <3>6, <3>13, ContentsSame
      <4> QED BY <3>3, <3>5, <3>12, <4>1, <4>2 DEF RunsFirst
    <3> QED BY <1>7, <2>3, <3>10, <3>12, <3>14 DEF BareMetalRunsFirst
  <2> QED BY <2>2, <2>3
<1> QED BY <1>6, <1>7

-----------------------------------------------------------------------------
(* VMs *)

(* The lines of a cloud-config: nothing but the header counts up to the     *)
(* header, an item below it is under a runcmd list or under the files,      *)
(* there is one runcmd, and each list has one indentation.                  *)
LEMMA CloudConfigLines ==
    ASSUME NEW d \in Seq(Text), WellFormed(d), IsCloudConfig(d)
    PROVE  \E h \in 1..Len(d) :
             /\ Headed(d, h)
             /\ \A i \in 1..h : d[i] \in Skipped \cup {Header}
             /\ \A i \in (h + 1)..Len(d) :
                   \/ d[i] \in Keys \cup {Blank}
                   \/ d[i] \in Items /\ Section(d, i) \in {List, Files}
             /\ \A j, k \in 1..Len(d) :
                   d[j] \in {List, Scalar} /\ d[k] \in {List, Scalar} => j = k
             /\ Aligned(Under(d, List)) /\ Aligned(Under(d, Files))
<1>1. PICK h : h = SelectInSeq(d, LAMBDA line : line \notin Skipped)
  OBVIOUS
<1>2. h # 0 /\ d[h] = Header /\ h \in 1..Len(d) /\ \A i \in 1..(h - 1) : d[i] \in Skipped
  BY <1>1, HeaderFirst
<1>3. d[h] # "#!/bin/sh"
  BY <1>2 DEF Header
<1>4. /\ \A i \in (h + 1)..Len(d) :
            \/ d[i] \in Keys \cup {Blank}
            \/ d[i] \in Items /\ Section(d, i) \in {List, Files}
      /\ \A j, k \in {k \in DOMAIN d : d[k] \in Keys} : j # k => (d[j] = Files) # (d[k] = Files)
      /\ Aligned(Under(d, List)) /\ Aligned(Under(d, Files))
  BY <1>1, <1>2, <1>3 DEF WellFormed
<1>5. ASSUME NEW j \in 1..Len(d), NEW k \in 1..Len(d),
             d[j] \in {List, Scalar}, d[k] \in {List, Scalar}
      PROVE  j = k
  <2>1. List # Files /\ Scalar # Files /\ List \in Keys /\ Scalar \in Keys
    BY DEF Keys, List, Scalar, Files
  <2>2. d[j] \in Keys /\ d[k] \in Keys /\ d[j] # Files /\ d[k] # Files
    BY <1>5, <2>1
  <2>3. j \in {i \in DOMAIN d : d[i] \in Keys} /\ k \in {i \in DOMAIN d : d[i] \in Keys}
    BY <2>2
  <2> QED BY <1>4, <2>2, <2>3
<1>6. \A i \in 1..h : i \in 1..(h - 1) \/ i = h
  BY <1>2
<1>7. \A i \in 1..h : d[i] \in Skipped \cup {Header}
  BY <1>2, <1>6
<1> QED BY <1>2, <1>4, <1>5, <1>7 DEF Headed

(* Line `at' of d is the first with "runcmd:", there is none when it is 0.  *)
IsFirst(d, at) ==
    /\ at = 0 => \A i \in 1..Len(d) : ~HasRunCmd(d[i])
    /\ at # 0 => /\ at \in 1..Len(d) /\ HasRunCmd(d[at])
                 /\ \A i \in 1..(at - 1) : ~HasRunCmd(d[i])

(* Where the text is cut.                                                   *)
LEMMA FirstRunCmd ==
    ASSUME NEW d \in Seq(Text)
    PROVE  IsFirst(d, SelectInSeq(d, HasRunCmd))
<1> DEFINE I == {i \in 1..Len(d) : HasRunCmd(d[i])}
           at == SelectInSeq(d, HasRunCmd)
<1>1. at = IF I # {} THEN Min(I) ELSE 0
  BY DEF SelectInSeq
<1> HIDE DEF at
<1>2. Len(d) \in Nat /\ I \in SUBSET (1..Len(d))
  OBVIOUS
<1>3. I # {} => at \in I /\ \A j \in I : at <= j
  BY <1>1, <1>2, MinIsLeast
<1>4. ASSUME at # 0
      PROVE  at \in 1..Len(d) /\ HasRunCmd(d[at]) /\ \A i \in 1..(at - 1) : ~HasRunCmd(d[i])
  <2>1. at \in 1..Len(d) /\ HasRunCmd(d[at]) /\ \A j \in I : at <= j
    BY <1>1, <1>3, <1>4
  <2>2. ASSUME NEW i \in 1..(at - 1) PROVE ~HasRunCmd(d[i])
    <3>1. i \in 1..Len(d) /\ ~(at <= i)
      BY <1>2, <2>1
    <3> QED BY <2>1, <3>1
  <2> QED BY <2>1, <2>2
<1>5. ASSUME at = 0 PROVE \A i \in 1..Len(d) : ~HasRunCmd(d[i])
  BY <1>2, <1>3, <1>5
<1>6. IsFirst(d, at)
  BY <1>4, <1>5 DEF IsFirst
<1> QED BY <1>6 DEF at

(* out is three documents put together.                                     *)
JoinsThree(out, A, K, B) ==
    /\ out \in Seq(Text) /\ Len(out) = Len(A) + Len(K) + Len(B)
    /\ Has(out, 0, A) /\ Has(out, Len(A), K) /\ Has(out, Len(A) + Len(K), B)

(* The concatenation is.                                                    *)
LEMMA JoinedThree ==
    ASSUME NEW A \in Seq(Text), NEW K \in Seq(Text), NEW B \in Seq(Text)
    PROVE  JoinsThree(A \o K \o B, A, K, B)
<1>1. ASSUME NEW X, X = A \o K, NEW out, out = X \o B,
             NEW a, a = Len(A), NEW k, k = Len(K), NEW b, b = Len(B)
      PROVE  JoinsThree(out, A, K, B)
  <2> USE <1>1
  <2>1. X \in Seq(Text) /\ a \in Nat /\ k \in Nat /\ Len(X) = a + k
    BY Joined
  <2>2. out \in Seq(Text) /\ b \in Nat /\ Len(out) = a + k + b
    BY <2>1, Joined
  <2>3. \A i \in 1..a : out[0 + i] = A[i]
    OBVIOUS
  <2>4. \A i \in 1..k : out[a + i] = K[i]
    OBVIOUS
  <2>5. \A i \in 1..b : out[a + k + i] = B[i]
    OBVIOUS
  <2> QED BY <2>2, <2>3, <2>4, <2>5 DEF JoinsThree, Has
<1> QED BY <1>1, Zenon

(* The rest of a document.                                                  *)
LEMMA Ending ==
    ASSUME NEW d \in Seq(Text), NEW at \in 1..Len(d), NEW B, B = SubSeq(d, at + 1, Len(d))
    PROVE  /\ B \in Seq(Text) /\ Len(B) = Len(d) - at
           /\ \A i \in 1..(Len(d) - at) : B[i] = d[at + i]
  OBVIOUS

(* out is d with line `at' replaced by the lines of K.                      *)
CutAt(out, d, at, K) ==
    /\ out \in Seq(Text) /\ Len(out) = Len(d) + (Len(K) - 1)
    /\ \A i \in 1..(at - 1) : out[i] = d[i]
    /\ Has(out, at - 1, K)
    /\ \A i \in (at + 1)..Len(d) : out[i + (Len(K) - 1)] = d[i]

(* What the cut makes of a document.                                        *)
LEMMA Cut ==
    ASSUME NEW d \in Seq(Text), NEW at \in 1..Len(d), NEW K \in Seq(Text), K # <<>>
    PROVE  CutAt(SubSeq(d, 1, at - 1) \o K \o SubSeq(d, at + 1, Len(d)), d, at, K)
<1>1. PICK A : A = SubSeq(d, 1, at - 1)
  OBVIOUS
<1>2. PICK B : B = SubSeq(d, at + 1, Len(d))
  OBVIOUS
<1>3. PICK out : out = A \o K \o B
  OBVIOUS
<1>4. PICK n \in Nat, k \in Nat : n = Len(d) /\ k = Len(K) /\ k # 0
  OBVIOUS
<1>5. A \in Seq(Text) /\ Len(A) = at - 1 /\ \A i \in 1..(at - 1) : A[i] = d[i]
  <2>1. PICK h \in 0..Len(d) : h = at - 1
    OBVIOUS
  <2>2. A = SubSeq(d, 1, h)
    BY <1>1, <2>1
  <2>3. A \in Seq(Text) /\ Len(A) = h /\ \A i \in 1..h : A[i] = d[i]
    BY <2>2, Beginning
  <2> QED BY <2>1, <2>3
<1>6. B \in Seq(Text) /\ Len(B) = n - at /\ \A i \in 1..(n - at) : B[i] = d[at + i]
  BY <1>2, <1>4, Ending
<1>7. JoinsThree(out, A, K, B)
  <2>1. A \in Seq(Text) /\ B \in Seq(Text)
    BY <1>5, <1>6
  <2>2. JoinsThree(A \o K \o B, A, K, B)
    BY <2>1, JoinedThree, Zenon
  <2> QED BY <1>3, <2>2, Zenon
<1>8. out \in Seq(Text) /\ Len(out) = n + (k - 1)
  BY <1>4, <1>5, <1>6, <1>7 DEF JoinsThree
<1>9. ASSUME NEW i \in 1..(at - 1) PROVE out[i] = d[i]
  <2>1. 0 + i = i /\ i \in 1..Len(A)
    BY <1>5
  <2> QED BY <1>5, <1>7, <2>1 DEF JoinsThree, Has
<1>10. Has(out, at - 1, K)
  BY <1>5, <1>7 DEF JoinsThree
<1>11. ASSUME NEW i \in (at + 1)..n PROVE out[i + (k - 1)] = d[i]
  <2>1. i - at \in 1..(n - at) /\ at + (i - at) = i /\ i + (k - 1) = ((at - 1) + k) + (i - at)
    BY <1>4
  <2>2. Has(out, (at - 1) + k, B)
    BY <1>4, <1>5, <1>7 DEF JoinsThree
  <2>3. out[((at - 1) + k) + (i - at)] = B[i - at]
    BY <1>6, <2>1, <2>2 DEF Has
  <2> QED BY <1>6, <2>1, <2>3
<1>12. CutAt(out, d, at, K)
  BY <1>4, <1>8, <1>9, <1>10, <1>11 DEF CutAt
<1> QED BY <1>1, <1>2, <1>3, <1>12, Zenon

(* A torn line is no command and no file.                                   *)
LEMMA TornIsLost ==
    ASSUME NEW d \in Seq(Text), NEW out \in Seq(Text), RunsFirst(d, out),
           \A i \in 1..Len(d) : d[i] # Torn
    PROVE  /\ IsCloudConfig(out)
           /\ \A i \in 1..Len(out) : out[i] = Torn => Section(out, i) \notin {List, Files}
<1>1. /\ Cmds \in Seq(Text) /\ Cmds # <<>>
      /\ \A i \in 1..Len(Cmds) : Cmds[i] # Torn
  BY CmdsAreItems, CmdsAssumption
<1>2. ASSUME NEW key
      PROVE  Under(d, key) \in Seq(Text) /\ \A a \in 1..Len(Under(d, key)) : Under(d, key)[a] # Torn
  <2>1. CASE ~IsCloudConfig(d)
    BY <2>1 DEF Under
  <2>2. CASE IsCloudConfig(d)
    <3>1. PICK n \in Nat : \E e : Lists(e, n, ItemsOf(d, key))
      BY <2>2, UnderOrder
    <3>2. PICK e : Lists(e, n, ItemsOf(d, key))
      BY <3>1
    <3>3. /\ Under(d, key) \in Seq(Text) /\ Len(Under(d, key)) = n
          /\ \A a \in 1..n : e[a] \in ItemsOf(d, key) /\ Under(d, key)[a] = d[e[a]]
      BY <2>2, <3>2, UnderIs
    <3>4. ItemsOf(d, key) \subseteq 1..Len(d)
      BY DEF ItemsOf
    <3> QED BY <3>3, <3>4
  <2> QED BY <2>1, <2>2
<1>3. PICK v : v = Cmds \o Contents(Under(d, List))
  OBVIOUS
<1>4. v \in Seq(Text) /\ v # <<>> /\ \A a \in 1..Len(v) : v[a] # Torn
  <2>1. PICK W, U : W = Under(d, List) /\ U = Contents(W) /\ Reads(U, W)
    BY ContentsUnder, Zenon
  <2>2. U \in Seq(Text) /\ \A a \in 1..Len(U) : U[a] # Torn
    BY <1>2, <2>1 DEF Reads
  <2>3. Prefixed(v, U)
    BY <1>3, <2>1, <2>2, CmdsBefore
  <2>4. ASSUME NEW a \in 1..Len(v) PROVE v[a] # Torn
    <3>1. CASE a \in 1..Len(Cmds)
      BY <1>1, <2>3, <3>1 DEF Prefixed
    <3>2. CASE a - Len(Cmds) \in 1..Len(U)
      <4>1. PICK b \in 1..Len(U) : a = Len(Cmds) + b
        <5>1. Len(Cmds) \in Nat /\ Len(U) \in Nat /\ Len(v) \in Nat
          BY <2>3 DEF Prefixed
        <5>2. a = Len(Cmds) + (a - Len(Cmds))
          BY <5>1
        <5> QED BY <3>2, <5>2
      <4>2. v[Len(Cmds) + b] = U[b]
        BY <2>3 DEF Prefixed
      <4> QED BY <2>2, <4>1, <4>2
    <3> QED BY <2>3, <3>1, <3>2 DEF Prefixed
  <2> QED BY <2>3, <2>4 DEF Prefixed
<1>5. Contents(Under(out, List)) = v
  BY <1>3 DEF RunsFirst
<1>6. IsCloudConfig(out)
  <2>1. Contents(<<>>) = <<>>
    BY DEF Contents
  <2> QED BY <1>4, <1>5, <2>1 DEF Under
<1>7. ASSUME NEW i \in 1..Len(out), out[i] = Torn, NEW key \in {List, Files}, Section(out, i) = key
      PROVE  FALSE
  <2>1. i \in ItemsOf(out, key)
    <3>1. Torn \notin Keys \cup Skipped
      BY DEF Torn, Keys, Skipped, Blank, List, Scalar, Files
    <3> QED BY <1>7, <3>1 DEF ItemsOf
  <2>2. PICK n \in Nat : \E e : Lists(e, n, ItemsOf(out, key))
    BY <1>6, UnderOrder
  <2>3. PICK e : Lists(e, n, ItemsOf(out, key))
    BY <2>2
  <2>4. /\ Len(Under(out, key)) = n
        /\ \A a \in 1..n : e[a] \in ItemsOf(out, key) /\ Under(out, key)[a] = out[e[a]]
    BY <1>6, <2>3, UnderIs
  <2>5. PICK a \in 1..n : e[a] = i
    BY <2>1, <2>3 DEF Lists
  <2>6. a \in 1..Len(Contents(Under(out, key))) /\ Contents(Under(out, key))[a] = Torn
    <3>1. a \in 1..Len(Under(out, key)) /\ Under(out, key)[a] = Torn
      BY <1>7, <2>4, <2>5
    <3>2. PICK W, R : W = Under(out, key) /\ R = Contents(W) /\ Reads(R, W)
      BY ContentsUnder, Zenon
    <3> QED BY <3>1, <3>2 DEF Reads
  <2>7. CASE key = List
    BY <1>4, <1>5, <2>6, <2>7
  <2>8. CASE key = Files
    <3>1. Contents(Under(out, key)) = Contents(Under(d, key))
      BY <2>8 DEF RunsFirst
    <3>2. PICK W, R : W = Under(d, key) /\ R = Contents(W) /\ Reads(R, W)
      BY ContentsUnder, Zenon
    <3> QED BY <1>2, <2>6, <3>1, <3>2 DEF Reads
  <2> QED BY <2>7, <2>8
<1> QED BY <1>6, <1>7

(* A document whose first line that is not blank is neither the header nor  *)
(* skipped is no cloud-config.                                              *)
LEMMA NoHeader ==
    ASSUME NEW out \in Seq(Text), NEW k \in 1..Len(out), \A i \in 1..(k - 1) : out[i] = Blank,
           out[k] \notin Skipped \cup {Header}
    PROVE  ~IsCloudConfig(out)
<1> SUFFICES ASSUME IsCloudConfig(out) PROVE FALSE
  OBVIOUS
<1>1. DOMAIN out = 1..Len(out) /\ Len(out) \in Nat
  OBVIOUS
<1>2. PICK g \in 1..Len(out) : out[g] = Header /\ \A i \in 1..(g - 1) : out[i] \in Skipped
  BY <1>1, Zenon DEF IsCloudConfig
<1>3. g \in 1..(k - 1)
  <2>1. g # k
    BY <1>2
  <2>2. k \notin 1..(g - 1)
    BY <1>2
  <2> QED BY <1>1, <2>1, <2>2
<1>4. out[g] = Blank
  BY <1>3
<1> QED BY <1>2, <1>4 DEF Header, Blank

(* The first line that is not blank.                                        *)
LEMMA FirstText ==
    ASSUME NEW d \in Seq(Text), NEW f, f = SelectInSeq(d, LAMBDA line : line # Blank),
           NEW g \in 1..Len(d), d[g] # Blank
    PROVE  f \in 1..Len(d) /\ \A i \in 1..(f - 1) : d[i] = Blank
<1> DEFINE I == {i \in 1..Len(d) : d[i] # Blank}
<1>1. f = Min(I) /\ I # {}
  BY DEF SelectInSeq
<1>2. Len(d) \in Nat /\ I \in SUBSET (1..Len(d))
  <2>1. Len(d) \in Nat
    OBVIOUS
  <2>2. I \in SUBSET (1..Len(d))
    BY Zenon
  <2> QED BY <2>1, <2>2
<1>3. f \in I /\ \A j \in I : f <= j
  BY <1>1, <1>2, MinIsLeast
<1>4. ASSUME NEW i \in 1..(f - 1) PROVE d[i] = Blank
  <2>1. PICK n \in Nat : n = Len(d)
    BY <1>2
  <2>2. f \in 1..n
    BY <1>3, <2>1
  <2>3. i \in 1..n /\ ~(f <= i)
    BY <2>2
  <2> QED BY <1>3, <2>1, <2>3
<1> QED BY <1>3, <1>4

(* All commands but the last.                                               *)
LEMMA FrontCmds ==
    ASSUME NEW F, F = Front(Cmds)
    PROVE  /\ F \in Seq(Text) /\ Len(Cmds) \in Nat /\ Len(Cmds) # 0 /\ Len(F) = Len(Cmds) - 1
           /\ \A i \in 1..(Len(Cmds) - 1) : F[i] = Cmds[i]
<1>1. Cmds \in Seq(Text) /\ Cmds # <<>>
  BY CmdsAreItems
<1>2. Len(Cmds) \in Nat /\ Len(Cmds) # 0
  BY <1>1
<1>3. PICK h \in 0..Len(Cmds) : h = Len(Cmds) - 1
  BY <1>2, SMTT(20)
<1>4. F = SubSeq(Cmds, 1, h)
  BY <1>3 DEF Front
<1>5. F \in Seq(Text) /\ Len(F) = h /\ \A i \in 1..h : F[i] = Cmds[i]
  BY <1>1, <1>4, Beginning
<1> QED BY <1>2, <1>3, <1>5

(* K is x and the commands, the last of them torn.                          *)
IsTorn(K, x) ==
    /\ K \in Seq(Text) /\ K # <<>> /\ Len(K) = Len(Cmds) + 1
    /\ K[1] = x /\ K[Len(Cmds) + 1] = Torn
    /\ \A i \in 1..(Len(Cmds) - 1) : K[1 + i] = Cmds[i]

(* What a line that is no list is replaced by.                              *)
LEMMA TornCmds ==
    ASSUME NEW x \in Text
    PROVE  IsTorn(<<x>> \o Front(Cmds) \o <<Torn>>, x)
<1>0. PICK K : K = <<x>> \o Front(Cmds) \o <<Torn>>
  OBVIOUS
<1>1. PICK F : F = Front(Cmds)
  OBVIOUS
<1>2. PICK c \in Nat : c = Len(Cmds) /\ c # 0
  BY FrontCmds
<1>3. F \in Seq(Text) /\ Len(F) = c - 1 /\ \A i \in 1..(c - 1) : F[i] = Cmds[i]
  BY <1>1, <1>2, FrontCmds
<1>4. PICK A : A = <<x>>
  OBVIOUS
<1>5. PICK B : B = <<Torn>>
  OBVIOUS
<1>6. A \in Seq(Text) /\ Len(A) = 1 /\ A[1] = x
  BY <1>4
<1>7. B \in Seq(Text) /\ Len(B) = 1 /\ B[1] = Torn
  <2>1. Torn \in Text
    BY DEF Text
  <2> QED BY <1>5, <2>1
<1>8. JoinsThree(K, A, F, B)
  <2>1. A \in Seq(Text) /\ F \in Seq(Text) /\ B \in Seq(Text) /\ K = A \o F \o B
    BY <1>0, <1>1, <1>3, <1>4, <1>5, <1>6, <1>7
  <2>2. JoinsThree(A \o F \o B, A, F, B)
    BY <2>1, JoinedThree, Zenon
  <2> QED BY <2>1, <2>2, Zenon
<1>9. K \in Seq(Text) /\ Len(K) = c + 1
  BY <1>2, <1>3, <1>6, <1>7, <1>8 DEF JoinsThree
<1>10. K[1] = x
  <2>1. 0 + 1 = 1 /\ 1 \in 1..1
    OBVIOUS
  <2> QED BY <1>6, <1>8, <2>1 DEF JoinsThree, Has
<1>11. \A i \in 1..(c - 1) : K[1 + i] = Cmds[i]
  BY <1>3, <1>6, <1>8 DEF JoinsThree, Has
<1>12. K[c + 1] = Torn
  <2>1. Has(K, c, B)
    <3>1. Len(A) + Len(F) = c
      BY <1>2, <1>3, <1>6
    <3> QED BY <1>8, <3>1 DEF JoinsThree
  <2>2. 1 \in 1..1
    OBVIOUS
  <2> QED BY <1>7, <2>1, <2>2 DEF Has
<1>13. IsTorn(K, x)
  BY <1>2, <1>9, <1>10, <1>11, <1>12 DEF IsTorn
<1> QED BY <1>0, <1>13, Zenon

(* Without a "runcmd:" the first line of the text is torn, or a command is  *)
(* put before it: what is left is no cloud-config.                          *)
LEMMA WithoutRunCmd ==
    ASSUME NEW d \in Seq(Text), IsCloudConfig(d), \A i \in 1..Len(d) : d[i] # Torn,
           SelectInSeq(d, HasRunCmd) = 0
    PROVE  ~RunsFirst(d, appendToUserDataCloudConfig(d, Cmds))
<1>1. PICK f : f = SelectInSeq(d, LAMBDA line : line # Blank)
  OBVIOUS
<1>2. f \in 1..Len(d) /\ \A i \in 1..(f - 1) : d[i] = Blank
  <2>1. PICK g \in 1..Len(d) : d[g] = Header
    BY DEF IsCloudConfig
  <2>2. d[g] # Blank
    BY <2>1 DEF Header, Blank
  <2> QED BY <1>1, <2>2, FirstText
<1>3. \A i \in 1..Len(d) : ~HasRunCmd(d[i])
  BY FirstRunCmd DEF IsFirst
<1>4. PICK out : out = appendToUserDataCloudConfig(d, Cmds)
  OBVIOUS
<1>5. ASSUME out \in Seq(Text), ~IsCloudConfig(out) PROVE ~RunsFirst(d, out)
  BY <1>5, TornIsLost
<1>6. Torn \notin Skipped \cup {Header} /\ Torn \in Text
  BY DEF Torn, Skipped, Blank, Header, Text
<1>7. CASE f <= 6
  <2>1. PICK K : K = <<Torn>> \o Front(Cmds) \o <<Torn>>
    OBVIOUS
  <2>2. K \in Seq(Text) /\ K # <<>> /\ K[1] = Torn
    <3>1. IsTorn(<<Torn>> \o Front(Cmds) \o <<Torn>>, Torn)
      BY <1>6, TornCmds, Zenon
    <3>2. IsTorn(K, Torn)
      BY <2>1, <3>1, Zenon
    <3> QED BY <3>2 DEF IsTorn
  <2>3. out = SubSeq(d, 1, f - 1) \o K \o SubSeq(d, f + 1, Len(d))
    <3>1. f \in 1..6
      BY <1>2, <1>7
    <3>2. d[f] # List /\ d[f] # Scalar
      BY <1>2, <1>3 DEF HasRunCmd
    <3> QED BY <1>1, <1>4, <2>1, <3>1, <3>2 DEF appendToUserDataCloudConfig
  <2>4. CutAt(out, d, f, K)
    <3>1. CutAt(SubSeq(d, 1, f - 1) \o K \o SubSeq(d, f + 1, Len(d)), d, f, K)
      BY <1>2, <2>2, Cut, Zenon
    <3> QED BY <2>3, <3>1, Zenon
  <2>5. out \in Seq(Text) /\ f \in 1..Len(out) /\ \A i \in 1..(f - 1) : out[i] = Blank
    <3>1. out \in Seq(Text) /\ Len(out) = Len(d) + (Len(K) - 1)
      BY <2>4 DEF CutAt
    <3>2. Len(K) \in Nat /\ Len(K) # 0 /\ Len(d) \in Nat
      BY <2>2
    <3>3. f \in 1..Len(out)
      BY <1>2, <3>1, <3>2
    <3> QED BY <1>2, <2>4, <3>1, <3>3 DEF CutAt
  <2>6. out[f] = Torn
    <3>1. (f - 1) + 1 = f
      BY <1>2
    <3>2. 1 \in 1..Len(K)
      BY <2>2
    <3> QED BY <2>2, <2>4, <3>1, <3>2 DEF CutAt, Has
  <2>7. ~IsCloudConfig(out)
    BY <1>6, <2>5, <2>6, NoHeader
  <2> QED BY <1>4, <1>5, <2>5, <2>7
<1>8. CASE ~(f <= 6)
  <2>1. /\ f \notin 1..6 /\ Len(d) \in Nat /\ ~(Len(d) < 6) /\ 6 \in 0..Len(d)
        /\ 7 \in 1..Len(d) /\ \A i \in 1..6 : i \in 1..(f - 1)
    <3>1. PICK n \in Nat : n = Len(d) /\ f \in 1..n
      BY <1>2
    <3> QED BY <1>8, <3>1
  <2>2. PICK l : l = IF Len(d) = 6 \/ d[7] = Blank THEN Cmds[Len(Cmds)] ELSE Torn
    OBVIOUS
  <2>3. PICK c \in Nat : c = Len(Cmds) /\ c # 0
    BY FrontCmds
  <2>4. \A i \in 1..c : Cmds[i] \in Text /\ Cmds[i] \notin Skipped \cup {Header}
    BY <2>3, CmdsAreItems, CmdsAssumption
  <2>5. l \in Text /\ l \notin Skipped \cup {Header}
    <3>1. c \in 1..c
      BY <2>3
    <3> QED BY <1>6, <2>2, <2>3, <2>4, <3>1
  <2>6. PICK P : P = SubSeq(d, 1, 6)
    OBVIOUS
  <2>7. P \in Seq(Text) /\ Len(P) = 6 /\ \A i \in 1..6 : P[i] = Blank
    <3>1. P \in Seq(Text) /\ Len(P) = 6 /\ \A i \in 1..6 : P[i] = d[i]
      BY <2>1, <2>6, Beginning
    <3> QED BY <1>2, <2>1, <3>1
  <2>8. PICK F : F = Front(Cmds)
    OBVIOUS
  <2>9. F \in Seq(Text) /\ Len(F) = c - 1 /\ \A i \in 1..(c - 1) : F[i] = Cmds[i]
    BY <2>3, <2>8, FrontCmds
  <2>10. PICK U : U = <<l>>
    OBVIOUS
  <2>11. U \in Seq(Text) /\ Len(U) = 1 /\ U[1] = l
    BY <2>5, <2>10
  <2>12. PICK T : T = SubSeq(d, 8, Len(d))
    OBVIOUS
  <2>13. T \in Seq(Text)
    <3>1. T = SubSeq(d, 7 + 1, Len(d))
      BY <2>12
    <3> QED BY <2>1, <3>1, Ending
  <2>14. out = P \o <<Blank>> \o F \o U \o T
    BY <1>1, <1>4, <2>1, <2>2, <2>6, <2>8, <2>10, <2>12 DEF appendToUserDataCloudConfig
  <2>15. Joins(out, P, Blank, F, U, T)
    <3>1. Blank \in Text
      BY DEF Text, Skipped
    <3>2. P \in Seq(Text) /\ F \in Seq(Text) /\ U \in Seq(Text)
      BY <2>7, <2>9, <2>11
    <3>3. Joins(P \o <<Blank>> \o F \o U \o T, P, Blank, F, U, T)
      BY <2>13, <3>1, <3>2, JoinedFive, Zenon
    <3> QED BY <2>14, <3>3, Zenon
  <2>16. /\ out \in Seq(Text) /\ Len(out) = 6 + 1 + (c - 1) + 1 + Len(T)
         /\ \A i \in 1..6 : out[i] = Blank
         /\ out[7] = Blank /\ Has(out, 7, F) /\ Has(out, 7 + (c - 1), U)
    <3>1. 6 + 1 = 7
      OBVIOUS
    <3> QED BY <2>7, <2>9, <2>11, <2>15, <3>1 DEF Joins
  <2>17. out[8] \notin Skipped \cup {Header}
    <3>1. CASE c = 1
      <4>1. 7 + (c - 1) + 1 = 8 /\ 1 \in 1..1
        BY <3>1
      <4>2. out[8] = l
        BY <2>11, <2>16, <4>1 DEF Has
      <4> QED BY <2>5, <4>2
    <3>2. CASE c # 1
      <4>1. 7 + 1 = 8 /\ 1 \in 1..(c - 1) /\ 1 \in 1..c
        BY <2>3, <3>2
      <4>2. out[8] = Cmds[1]
        BY <2>9, <2>16, <4>1 DEF Has
      <4> QED BY <2>4, <4>1, <4>2
    <3> QED BY <3>1, <3>2
  <2>18. 8 \in 1..Len(out) /\ \A i \in 1..(8 - 1) : out[i] = Blank
    <3>1. Len(T) \in Nat
      BY <2>13
    <3>2. \A i \in 1..7 : i \in 1..6 \/ i = 7
      OBVIOUS
    <3>3. 8 \in 1..Len(out)
      BY <2>3, <2>16, <3>1
    <3>4. 8 - 1 = 7
      OBVIOUS
    <3> QED BY <2>16, <3>2, <3>3, <3>4
  <2>19. ~IsCloudConfig(out)
    BY <2>16, <2>17, <2>18, NoHeader
  <2> QED BY <1>4, <1>5, <2>16, <2>19
<1> QED BY <1>2, <1>7, <1>8

(* A runcmd that is no list leaves a torn command under runcmd, a mention   *)
(* of "runcmd:" a torn file.                                                *)
LEMMA WithoutList ==
    ASSUME NEW d \in Seq(Text), WellFormed(d), IsCloudConfig(d),
           \A i \in 1..Len(d) : d[i] # Torn,
           NEW at, at = SelectInSeq(d, HasRunCmd), at # 0, d[at] # List
    PROVE  ~RunsFirst(d, appendToUserDataCloudConfig(d, Cmds))
<1>1. at \in 1..Len(d) /\ HasRunCmd(d[at]) /\ \A i \in 1..(at - 1) : ~HasRunCmd(d[i])
  <2>1. IsFirst(d, at)
    BY FirstRunCmd
  <2> QED BY <2>1, Zenon DEF IsFirst
<1>2. PICK n \in Nat : n = Len(d) /\ at \in 1..n
  BY <1>1
<1>3. PICK x : x = IF d[at] = Scalar THEN List ELSE Torn
  OBVIOUS
<1>4. PICK K : K = <<x>> \o Front(Cmds) \o <<Torn>>
  OBVIOUS
<1>5. PICK c \in Nat : c = Len(Cmds) /\ c # 0
  BY FrontCmds
<1>6. Torn \notin Keys /\ List \in Keys /\ Files \in Keys
  BY DEF Keys, Torn, List, Scalar, Files
<1>7. /\ K \in Seq(Text) /\ K # <<>> /\ Len(K) = c + 1 /\ K[1] = x /\ K[c + 1] = Torn
      /\ \A i \in 1..(c - 1) : K[1 + i] = Cmds[i]
  <2>1. x \in Text
    BY <1>3, <1>6 DEF Text
  <2>2. IsTorn(<<x>> \o Front(Cmds) \o <<Torn>>, x)
    BY <2>1, TornCmds, Zenon
  <2>3. IsTorn(K, x)
    BY <1>4, <2>2, Zenon
  <2> QED BY <1>5, <2>3 DEF IsTorn
<1>8. PICK out : out = appendToUserDataCloudConfig(d, Cmds)
  OBVIOUS
<1>9. CutAt(out, d, at, K)
  <2>1. out = SubSeq(d, 1, at - 1) \o K \o SubSeq(d, at + 1, Len(d))
    BY <1>3, <1>4, <1>8 DEF appendToUserDataCloudConfig
  <2>2. K \in Seq(Text) /\ K # <<>>
    BY <1>7
  <2>3. CutAt(SubSeq(d, 1, at - 1) \o K \o SubSeq(d, at + 1, Len(d)), d, at, K)
    BY <1>1, <2>2, Cut, Zenon
  <2> QED BY <2>1, <2>3, Zenon
<1>10. out \in Seq(Text) /\ Len(out) = n + c /\ \A i \in 1..(at - 1) : out[i] = d[i]
  BY <1>2, <1>5, <1>7, <1>9 DEF CutAt
<1>11. ASSUME NEW i \in 1..(c + 1) PROVE out[(at - 1) + i] = K[i]
  BY <1>7, <1>9 DEF CutAt, Has
<1>12. SUFFICES ASSUME RunsFirst(d, out) PROVE FALSE
  BY <1>8
<1>13. \A i \in 1..Len(out) : out[i] = Torn => Section(out, i) \notin {List, Files}
  BY <1>10, <1>12, TornIsLost
<1>14. out[at] = x
  <2>1. (at - 1) + 1 = at /\ 1 \in 1..(c + 1)
    BY <1>2
  <2> QED BY <1>7, <1>11, <2>1
<1>15. CASE d[at] = Scalar
  <2>1. out[at] = List
    BY <1>3, <1>14, <1>15
  <2>2. ASSUME NEW j \in (at + 1)..(at + c) PROVE out[j] \notin Keys
    <3>1. PICK i \in 1..c : i = j - at /\ j = (at - 1) + (1 + i) /\ 1 + i \in 1..(c + 1)
      <4>1. /\ j - at \in 1..c /\ j = (at - 1) + (1 + (j - at))
            /\ 1 + (j - at) \in 1..(c + 1)
        BY <1>2, SMTT(20)
      <4> QED BY <4>1
    <3>2. out[j] = K[1 + i]
      BY <1>11, <3>1
    <3>3. CASE i = c
      <4>1. K[1 + i] = Torn
        <5>1. 1 + i = c + 1
          BY <3>3
        <5> QED BY <1>7, <5>1
      <4> QED BY <1>6, <3>2, <4>1
    <3>4. CASE i # c
      <4>1. i \in 1..(c - 1)
        BY <3>4
      <4>2. Cmds[i] \notin Keys
        BY <1>5, CmdsAreItems DEF AllItems
      <4> QED BY <1>7, <3>2, <4>1, <4>2
    <3> QED BY <3>3, <3>4
  <2>3. PICK l \in Nat : l = at + c /\ at \in 1..l /\ l \in 1..(n + c) /\ l = (at - 1) + (c + 1)
    BY <1>2, <1>5
  <2>4. \A j \in (at + 1)..l : out[j] \notin Keys
    BY <2>2, <2>3
  <2>5. Section(out, l) = List
    <3>1. out[at] \in Keys
      BY <1>6, <2>1
    <3> QED BY <2>1, <2>3, <2>4, <3>1, SectionIs
  <2>6. out[l] = Torn
    <3>1. c + 1 \in 1..(c + 1)
      OBVIOUS
    <3> QED BY <1>7, <1>11, <2>3, <3>1
  <2> QED BY <1>10, <1>13, <2>3, <2>5, <2>6
<1>16. CASE d[at] # Scalar
  <2>1. d[at] = Mention /\ out[at] = Torn
    BY <1>1, <1>3, <1>14, <1>16 DEF HasRunCmd
  <2>2. Mention \notin Skipped \cup {Header} /\ Mention \notin Keys \cup {Blank}
    BY DEF Mention, Skipped, Blank, Header, Keys, List, Scalar, Files
  <2>3. Section(d, at) \in {List, Files}
    <3>1. PICK h \in 1..Len(d) :
             /\ \A i \in 1..h : d[i] \in Skipped \cup {Header}
             /\ \A i \in (h + 1)..Len(d) :
                   \/ d[i] \in Keys \cup {Blank}
                   \/ d[i] \in Items /\ Section(d, i) \in {List, Files}
      BY CloudConfigLines
    <3>2. at \notin 1..h
      BY <2>1, <2>2, <3>1
    <3>3. at \in (h + 1)..Len(d)
      BY <1>2, <3>2
    <3> QED BY <2>1, <2>2, <3>1, <3>3
  <2>4. PICK k \in 1..at : /\ d[k] \in Keys /\ Section(d, at) = d[k]
                           /\ \A j \in (k + 1)..at : d[j] \notin Keys
    <3>1. at \in Nat
      BY <1>2
    <3>2. Section(d, at) # ""
      BY <2>3 DEF List, Files
    <3> QED BY <3>1, <3>2, SectionCases
  <2>5. k \in 1..(at - 1)
    <3>1. k # at
      BY <2>1, <2>2, <2>4
    <3> QED BY <1>2, <3>1
  <2>6. d[k] = Files
    <3>1. d[k] # List
      BY <1>1, <2>5 DEF HasRunCmd
    <3> QED BY <2>3, <2>4, <3>1
  <2>7. ASSUME NEW j \in (k + 1)..at PROVE out[j] \notin Keys
    <3>1. j = at \/ j \in 1..(at - 1)
      BY <1>2
    <3> QED BY <1>6, <1>10, <2>1, <2>4, <2>7, <3>1
  <2>8. Section(out, at) = Files
    <3>1. at \in Nat /\ out[k] = Files /\ out[k] \in Keys
      BY <1>2, <1>6, <1>10, <2>5, <2>6
    <3> QED BY <2>7, <3>1, SectionIs
  <2>9. at \in 1..Len(out)
    BY <1>2, <1>10
  <2> QED BY <1>13, <2>1, <2>8, <2>9
<1> QED BY <1>15, <1>16

(* out is d with the commands after line `at'.                              *)
Inserted(out, d, at) ==
    /\ out \in Seq(Text) /\ Len(out) = Len(d) + Len(Cmds)
    /\ \A i \in 1..at : out[i] = d[i]
    /\ Has(out, at, Cmds)
    /\ \A i \in (at + 1)..Len(d) : out[i + Len(Cmds)] = d[i]

(* What a list is replaced by.                                              *)
LEMMA ListInserted ==
    ASSUME NEW d \in Seq(Text), NEW at \in 1..Len(d), d[at] = List
    PROVE  Inserted(SubSeq(d, 1, at - 1) \o (<<List>> \o Cmds) \o SubSeq(d, at + 1, Len(d)),
                    d, at)
<1>1. PICK K : K = <<List>> \o Cmds
  OBVIOUS
<1>2. PICK out : out = SubSeq(d, 1, at - 1) \o K \o SubSeq(d, at + 1, Len(d))
  OBVIOUS
<1>3. PICK n \in Nat, c \in Nat : n = Len(d) /\ c = Len(Cmds) /\ at \in 1..n
  BY CmdsAreItems
<1>4. PICK A : A = <<List>>
  OBVIOUS
<1>5. A \in Seq(Text) /\ Len(A) = 1 /\ A[1] = List
  <2>1. List \in Text
    BY DEF Text, Keys
  <2> QED BY <1>4, <2>1
<1>6. /\ K \in Seq(Text) /\ Len(K) = 1 + c
      /\ \A i \in 1..Len(K) : K[i] = IF i <= 1 THEN A[i] ELSE Cmds[i - 1]
  <2>1. Cmds \in Seq(Text) /\ K = A \o Cmds
    BY <1>1, <1>4, CmdsAreItems
  <2>2. /\ K \in Seq(Text) /\ Len(K) = Len(A) + Len(Cmds)
        /\ \A i \in 1..Len(K) : K[i] = IF i <= Len(A) THEN A[i] ELSE Cmds[i - Len(A)]
    <3>1. A \in Seq(Text)
      BY <1>5
    <3> QED BY <2>1, <3>1, Joined
  <2> QED BY <1>3, <1>5, <2>2
<1>7. K[1] = List /\ \A i \in 1..c : K[1 + i] = Cmds[i]
  <2>1. 1 \in 1..Len(K) /\ 1 <= 1
    BY <1>6
  <2>2. ASSUME NEW i \in 1..c PROVE K[1 + i] = Cmds[i]
    <3>1. 1 + i \in 1..Len(K) /\ ~(1 + i <= 1) /\ (1 + i) - 1 = i
      BY <1>6
    <3> QED BY <1>6, <3>1
  <2> QED BY <1>5, <1>6, <2>1, <2>2
<1>8. CutAt(out, d, at, K)
  <2>1. K \in Seq(Text) /\ K # <<>>
    BY <1>6
  <2>2. CutAt(SubSeq(d, 1, at - 1) \o K \o SubSeq(d, at + 1, Len(d)), d, at, K)
    BY <2>1, Cut, Zenon
  <2> QED BY <1>2, <2>2, Zenon
<1>9. Len(K) - 1 = c
  BY <1>6
<1>10. out \in Seq(Text) /\ Len(out) = n + c
  BY <1>3, <1>8, <1>9 DEF CutAt
<1>11. ASSUME NEW i \in 1..(1 + c) PROVE out[(at - 1) + i] = K[i]
  BY <1>6, <1>8 DEF CutAt, Has
<1>12. ASSUME NEW i \in 1..at PROVE out[i] = d[i]
  <2>1. CASE i = at
    <3>1. (at - 1) + 1 = at /\ 1 \in 1..(1 + c)
      BY <1>3
    <3> QED BY <1>7, <1>11, <2>1, <3>1
  <2>2. CASE i # at
    <3>1. i \in 1..(at - 1)
      BY <1>3, <2>2
    <3> QED BY <1>8, <3>1 DEF CutAt
  <2> QED BY <2>1, <2>2
<1>13. ASSUME NEW i \in 1..c PROVE out[at + i] = Cmds[i]
  <2>1. (at - 1) + (1 + i) = at + i /\ 1 + i \in 1..(1 + c)
    BY <1>3
  <2> QED BY <1>7, <1>11, <2>1
<1>14. \A i \in (at + 1)..n : out[i + c] = d[i]
  BY <1>3, <1>8, <1>9 DEF CutAt
<1>15. Inserted(out, d, at)
  BY <1>3, <1>10, <1>12, <1>13, <1>14 DEF Inserted, Has
<1> QED BY <1>1, <1>2, <1>15, Zenon

(* The sections of the document with the commands.                          *)
LEMMA InsertedSections ==
    ASSUME NEW d \in Seq(Text), NEW at \in 1..Len(d), d[at] = List, NEW out, Inserted(out, d, at),
           NEW n \in Nat, n = Len(d), NEW c \in Nat, c = Len(Cmds)
    PROVE  /\ \A i \in 1..at : Section(out, i) = Section(d, i)
           /\ \A i \in (at + 1)..(at + c) : Section(out, i) = List
           /\ \A i \in (at + 1)..n : Section(out, i + c) = Section(d, i)
<1>1. at \in Nat /\ List \in Keys /\ at \in 1..n
  BY DEF Keys
<1>2. /\ \A i \in 1..at : out[i] = d[i]
      /\ \A i \in (at + 1)..n : out[i + c] = d[i]
  BY DEF Inserted
<1>3. out[at] = List /\ out[at] \in Keys
  <2>1. at \in 1..at
    BY <1>1
  <2> QED BY <1>1, <1>2, <2>1
<1>4. ASSUME NEW j \in (at + 1)..(at + c) PROVE out[j] \notin Keys
  <2>1. j - at \in 1..c /\ at + (j - at) = j
    BY <1>1
  <2>2. out[j] = Cmds[j - at]
    BY <2>1 DEF Inserted, Has
  <2> QED BY <2>1, <2>2, CmdsAreItems DEF AllItems
<1>5. ASSUME NEW i \in 1..at PROVE Section(out, i) = Section(d, i)
  <2>1. i \in Nat /\ \A j \in 1..i : out[j] = d[j]
    <3>1. \A j \in 1..i : j \in 1..at
      BY <1>1
    <3> QED BY <1>2, <3>1
  <2>2. CASE Section(d, i) = "" /\ \A j \in 1..i : d[j] \notin Keys
    BY <2>1, <2>2, NoSection
  <2>3. ASSUME NEW k \in 1..i, d[k] \in Keys, Section(d, i) = d[k],
               \A j \in (k + 1)..i : d[j] \notin Keys
        PROVE  Section(out, i) = Section(d, i)
    <3>1. \A j \in (k + 1)..i : j \in 1..i
      BY <2>1
    <3>2. out[k] = d[k] /\ out[k] \in Keys /\ \A j \in (k + 1)..i : out[j] \notin Keys
      BY <2>1, <2>3, <3>1
    <3> QED BY <2>1, <2>3, <3>2, SectionIs
  <2> QED BY <2>1, <2>2, <2>3, SectionCases
<1>6. ASSUME NEW i \in (at + 1)..(at + c) PROVE Section(out, i) = List
  <2>1. i \in Nat /\ at \in 1..i /\ \A j \in (at + 1)..i : j \in (at + 1)..(at + c)
    BY <1>1
  <2>2. \A j \in (at + 1)..i : out[j] \notin Keys
    BY <1>4, <2>1
  <2> QED BY <1>3, <2>1, <2>2, SectionIs
<1>7. ASSUME NEW i \in (at + 1)..n PROVE Section(out, i + c) = Section(d, i)
  <2>1. i \in Nat /\ at \in 1..i
    BY <1>1
  <2>2. PICK k \in 1..i : /\ d[k] \in Keys /\ Section(d, i) = d[k]
                          /\ \A j \in (k + 1)..i : d[j] \notin Keys
    BY <1>1, <2>1, SectionCases
  <2>3. ~(k < at)
    <3>1. k < at => at \in (k + 1)..i
      BY <1>1, <2>1
    <3> QED BY <1>1, <2>2, <3>1
  <2>4. PICK l \in Nat : l = i + c
    BY <2>1
  <2>5. CASE k = at
    <3>1. ASSUME NEW j \in (at + 1)..l PROVE out[j] \notin Keys
      <4>1. CASE j <= at + c
        <5>1. j \in (at + 1)..(at + c)
          BY <4>1
        <5> QED BY <1>4, <5>1
      <4>2. CASE ~(j <= at + c)
        <5>1. j - c \in (at + 1)..i /\ j - c \in (at + 1)..n /\ (j - c) + c = j
          BY <1>1, <2>1, <2>4, <4>2
        <5>2. out[j] = d[j - c]
          BY <1>2, <5>1
        <5> QED BY <2>2, <2>5, <5>1, <5>2
      <4> QED BY <4>1, <4>2
    <3>2. at \in 1..l
      BY <2>1, <2>4
    <3>3. Section(out, l) = out[at]
      BY <1>3, <2>4, <3>1, <3>2, SectionIs
    <3> QED BY <1>3, <2>2, <2>4, <2>5, <3>3
  <2>6. CASE k # at
    <3>1. PICK m \in 1..l : m = k + c /\ k \in (at + 1)..n
      <4>1. k + c \in 1..l /\ k \in (at + 1)..n
        BY <1>1, <2>1, <2>3, <2>4, <2>6
      <4> QED BY <4>1
    <3>2. out[m] = d[k]
      BY <1>2, <3>1
    <3>3. ASSUME NEW j \in (m + 1)..l PROVE out[j] \notin Keys
      <4>1. j - c \in (k + 1)..i /\ j - c \in (at + 1)..n /\ (j - c) + c = j
        BY <1>1, <2>1, <2>4, <3>1
      <4>2. out[j] = d[j - c]
        BY <1>2, <4>1
      <4> QED BY <2>2, <4>1, <4>2
    <3>4. Section(out, l) = out[m]
      <4>1. out[m] \in Keys
        BY <2>2, <3>2
      <4> QED BY <2>4, <3>3, <4>1, SectionIs
    <3> QED BY <2>2, <2>4, <3>2, <3>4
  <2> QED BY <2>5, <2>6
<1> QED BY <1>5, <1>6, <1>7

(* The lines O under a key, given those of d: the ones up to `at', the      *)
(* commands under runcmd, and the ones after `at', further down.            *)
Moved(O, S, at, n, c, key) ==
    /\ O \subseteq 1..(n + c) /\ S \subseteq 1..n
    /\ \A i \in 1..at : i \in O <=> i \in S
    /\ \A i \in (at + 1)..(at + c) : i \in O <=> key = List
    /\ \A i \in (at + 1)..n : i + c \in O <=> i \in S

(* They are.                                                                *)
LEMMA InsertedItems ==
    ASSUME NEW d \in Seq(Text), NEW at \in 1..Len(d), d[at] = List, NEW out, Inserted(out, d, at),
           NEW n \in Nat, n = Len(d), NEW c \in Nat, c = Len(Cmds), NEW key
    PROVE  Moved(ItemsOf(out, key), ItemsOf(d, key), at, n, c, key)
<1>1. /\ \A i \in 1..at : Section(out, i) = Section(d, i)
      /\ \A i \in (at + 1)..(at + c) : Section(out, i) = List
      /\ \A i \in (at + 1)..n : Section(out, i + c) = Section(d, i)
  BY InsertedSections
<1>2. /\ DOMAIN out = 1..(n + c) /\ DOMAIN d = 1..n /\ at \in 1..n
      /\ \A i \in 1..at : out[i] = d[i]
      /\ \A i \in (at + 1)..n : out[i + c] = d[i]
  BY DEF Inserted
<1>3. ItemsOf(out, key) \subseteq 1..(n + c) /\ ItemsOf(d, key) \subseteq 1..n
  BY <1>2 DEF ItemsOf
<1>4. ASSUME NEW i \in 1..at PROVE i \in ItemsOf(out, key) <=> i \in ItemsOf(d, key)
  <2>1. i \in 1..(n + c) /\ i \in 1..n
    BY <1>2
  <2>2. out[i] = d[i] /\ Section(out, i) = Section(d, i)
    BY <1>1, <1>2
  <2> QED BY <1>2, <2>1, <2>2 DEF ItemsOf
<1>5. ASSUME NEW i \in (at + 1)..(at + c) PROVE i \in ItemsOf(out, key) <=> key = List
  <2>1. i \in 1..(n + c) /\ i - at \in 1..c /\ at + (i - at) = i
    BY <1>2
  <2>2. out[i] = Cmds[i - at] /\ Section(out, i) = List
    BY <1>1, <2>1 DEF Inserted, Has
  <2>3. out[i] \notin Keys \cup Skipped
    BY <2>1, <2>2, CmdsAreItems DEF AllItems
  <2> QED BY <1>2, <2>1, <2>2, <2>3 DEF ItemsOf
<1>6. ASSUME NEW i \in (at + 1)..n PROVE i + c \in ItemsOf(out, key) <=> i \in ItemsOf(d, key)
  <2>1. i + c \in 1..(n + c) /\ i \in 1..n
    BY <1>2
  <2>2. out[i + c] = d[i] /\ Section(out, i + c) = Section(d, i)
    BY <1>1, <1>2
  <2> QED BY <1>2, <2>1, <2>2 DEF ItemsOf
<1> QED BY <1>3, <1>4, <1>5, <1>6 DEF Moved

(* The commands come first under runcmd when its only key is line `at'.     *)
LEMMA InsertedUnderList ==
    ASSUME NEW d \in Seq(Text), IsCloudConfig(d), NEW at \in 1..Len(d), d[at] = List,
           \A k \in 1..Len(d) : d[k] = List => k = at,
           NEW out \in Seq(Text), Inserted(out, d, at), IsCloudConfig(out)
    PROVE  Under(out, List) = Cmds \o Under(d, List)
<1>1. PICK n \in Nat, c \in Nat : n = Len(d) /\ c = Len(Cmds) /\ at \in 1..n
  BY CmdsAreItems
<1>2. PICK S, O : S = ItemsOf(d, List) /\ O = ItemsOf(out, List)
  OBVIOUS
<1>3. /\ O \subseteq 1..(n + c) /\ S \subseteq 1..n
      /\ \A i \in 1..at : i \in O <=> i \in S
      /\ \A i \in (at + 1)..(at + c) : i \in O
      /\ \A i \in (at + 1)..n : i + c \in O <=> i \in S
  <2>1. Moved(O, S, at, n, c, List)
    BY <1>1, <1>2, InsertedItems
  <2> QED BY <2>1 DEF Moved
<1>4. ASSUME NEW i \in S PROVE i \in (at + 1)..n
  <2>1. i \in 1..n /\ i \in Nat /\ d[i] \notin Keys /\ Section(d, i) = List
    BY <1>2, <1>3, <1>4 DEF ItemsOf
  <2>2. List # ""
    BY DEF List
  <2>3. PICK k \in 1..i : Section(d, i) = d[k] /\ d[k] \in Keys
    BY <2>1, <2>2, SectionCases
  <2>4. k \in 1..Len(d) /\ d[k] = List
    BY <1>1, <2>1, <2>3
  <2>5. k = at
    BY <2>4
  <2>6. at # i
    BY <2>1, <2>3, <2>5
  <2> QED BY <1>1, <2>1, <2>3, <2>5, <2>6
<1>5. PICK m \in Nat : \E e : Lists(e, m, S)
  BY <1>2, UnderOrder
<1>6. PICK e : Lists(e, m, S)
  BY <1>5
<1>7. PICK f : f = [a \in 1..(c + m) |-> IF a <= c THEN at + a ELSE e[a - c] + c]
  OBVIOUS
<1>8. /\ \A a \in 1..c : f[a] = at + a
      /\ \A a \in 1..m : f[c + a] = e[a] + c /\ e[a] \in S /\ e[a] \in (at + 1)..n
  <2>1. \A a \in 1..c : a \in 1..(c + m) /\ a <= c
    OBVIOUS
  <2>2. \A a \in 1..m : c + a \in 1..(c + m) /\ ~(c + a <= c) /\ (c + a) - c = a
    OBVIOUS
  <2>3. \A a \in 1..m : e[a] \in S
    BY <1>6 DEF Lists
  <2> QED BY <1>4, <1>7, <2>1, <2>2, <2>3
<1>9. \A a \in 1..(c + m) : a \in 1..c \/ (a - c \in 1..m /\ a = c + (a - c))
  OBVIOUS
<1>10. ASSUME NEW a \in 1..(c + m) PROVE f[a] \in O
  <2>1. CASE a \in 1..c
    <3>1. f[a] \in (at + 1)..(at + c)
      BY <1>1, <1>8, <2>1
    <3> QED BY <1>3, <3>1
  <2>2. CASE a - c \in 1..m /\ a = c + (a - c)
    <3>1. f[a] = e[a - c] + c /\ e[a - c] \in S /\ e[a - c] \in (at + 1)..n
      BY <1>8, <2>2
    <3> QED BY <1>3, <3>1
  <2> QED BY <1>9, <2>1, <2>2
<1>11. ASSUME NEW a \in 1..(c + m), NEW b \in 1..(c + m), a < b PROVE f[a] < f[b]
  <2>1. CASE a \in 1..c /\ b \in 1..c
    BY <1>1, <1>8, <1>11, <2>1
  <2>2. CASE a \in 1..c /\ b - c \in 1..m /\ b = c + (b - c)
    <3>1. f[a] = at + a /\ f[b] = e[b - c] + c /\ e[b - c] \in (at + 1)..n
      BY <1>8, <2>2
    <3> QED BY <1>1, <2>2, <3>1
  <2>3. CASE a - c \in 1..m /\ a = c + (a - c)
    <3>1. b - c \in 1..m /\ b = c + (b - c) /\ a - c < b - c
      BY <1>11, <2>3
    <3>2. /\ f[a] = e[a - c] + c /\ e[a - c] \in (at + 1)..n
          /\ f[b] = e[b - c] + c /\ e[b - c] \in (at + 1)..n
      BY <1>8, <2>3, <3>1
    <3>3. e[a - c] < e[b - c]
      BY <1>6, <2>3, <3>1 DEF Lists
    <3> QED BY <1>1, <3>2, <3>3
  <2> QED BY <1>9, <2>1, <2>2, <2>3
<1>12. ASSUME NEW i \in O PROVE \E a \in 1..(c + m) : f[a] = i
  <2>1. i \in 1..(n + c)
    BY <1>3
  <2>2. ~(i <= at)
    <3>1. i <= at => i \in 1..at
      BY <2>1
    <3>2. i \in S => ~(i <= at)
      BY <1>1, <1>4
    <3> QED BY <1>3, <3>1, <3>2
  <2>3. CASE i <= at + c
    <3>1. i - at \in 1..c /\ at + (i - at) = i
      BY <1>1, <2>1, <2>2, <2>3
    <3>2. f[i - at] = i /\ i - at \in 1..(c + m)
      BY <1>8, <3>1
    <3> QED BY <3>2
  <2>4. CASE ~(i <= at + c)
    <3>1. i - c \in (at + 1)..n /\ (i - c) + c = i
      BY <1>1, <2>1, <2>4
    <3>2. i - c \in S
      BY <1>3, <3>1
    <3>3. PICK a \in 1..m : e[a] = i - c
      BY <1>6, <3>2 DEF Lists
    <3>4. f[c + a] = i /\ c + a \in 1..(c + m)
      BY <1>8, <3>1, <3>3
    <3> QED BY <3>4
  <2> QED BY <2>3, <2>4
<1>13. Lists(f, c + m, O)
  <2>1. f \in [1..(c + m) -> O]
    BY <1>7, <1>10
  <2> QED BY <1>11, <1>12, <2>1 DEF Lists
<1>14. PICK U, V, v : U = Under(d, List) /\ V = Under(out, List) /\ v = Cmds \o U
  OBVIOUS
<1>15. U \in Seq(Text) /\ Len(U) = m /\ \A a \in 1..m : U[a] = d[e[a]]
  BY <1>2, <1>6, <1>14, UnderIs
<1>16. V \in Seq(Text) /\ Len(V) = c + m /\ \A a \in 1..(c + m) : V[a] = out[f[a]]
  <2>1. PICK l \in Nat : l = c + m /\ Lists(f, l, ItemsOf(out, List))
    BY <1>2, <1>13
  <2>2. V \in Seq(Text) /\ Len(V) = l /\ \A a \in 1..l : V[a] = out[f[a]]
    BY <1>14, <2>1, UnderIs
  <2> QED BY <2>1, <2>2
<1>17. /\ v \in Seq(Text) /\ Len(v) = c + m
       /\ \A a \in 1..(c + m) : v[a] = IF a <= c THEN Cmds[a] ELSE U[a - c]
  <2>1. Cmds \in Seq(Text) /\ U \in Seq(Text) /\ v = Cmds \o U
    BY <1>14, <1>15, CmdsAreItems
  <2>2. /\ v \in Seq(Text) /\ Len(v) = Len(Cmds) + Len(U)
        /\ \A a \in 1..Len(v) : v[a] = IF a <= Len(Cmds) THEN Cmds[a] ELSE U[a - Len(Cmds)]
    BY <2>1, Joined
  <2> QED BY <1>1, <1>15, <2>2
<1>18. ASSUME NEW a \in 1..(c + m) PROVE V[a] = v[a]
  <2>1. CASE a \in 1..c
    <3>1. out[at + a] = Cmds[a]
      BY <1>1, <2>1 DEF Inserted, Has
    <3>2. a <= c /\ f[a] = at + a
      BY <1>8, <2>1
    <3> QED BY <1>16, <1>17, <3>1, <3>2
  <2>2. CASE a - c \in 1..m /\ a = c + (a - c)
    <3>1. f[a] = e[a - c] + c /\ e[a - c] \in (at + 1)..n /\ ~(a <= c)
      BY <1>8, <2>2
    <3>2. out[e[a - c] + c] = d[e[a - c]]
      BY <1>1, <3>1 DEF Inserted
    <3>3. U[a - c] = d[e[a - c]]
      BY <1>15, <2>2
    <3> QED BY <1>16, <1>17, <3>1, <3>2, <3>3
  <2> QED BY <1>9, <2>1, <2>2
<1>19. V = v
  BY <1>16, <1>17, <1>18, SameLines
<1> QED BY <1>14, <1>19

(* The files are as they were.                                              *)
LEMMA InsertedUnderFiles ==
    ASSUME NEW d \in Seq(Text), IsCloudConfig(d), NEW at \in 1..Len(d), d[at] = List,
           NEW out \in Seq(Text), Inserted(out, d, at), IsCloudConfig(out)
    PROVE  Under(out, Files) = Under(d, Files)
<1>1. PICK n \in Nat, c \in Nat : n = Len(d) /\ c = Len(Cmds) /\ at \in 1..n
  BY CmdsAreItems
<1>2. PICK S, O : S = ItemsOf(d, Files) /\ O = ItemsOf(out, Files)
  OBVIOUS
<1>3. /\ O \subseteq 1..(n + c) /\ S \subseteq 1..n
      /\ \A i \in 1..at : i \in O <=> i \in S
      /\ \A i \in (at + 1)..(at + c) : i \notin O
      /\ \A i \in (at + 1)..n : i + c \in O <=> i \in S
  <2>1. Files # List
    BY DEF Files, List
  <2>2. Moved(O, S, at, n, c, Files)
    BY <1>1, <1>2, InsertedItems
  <2> QED BY <2>1, <2>2 DEF Moved
<1>4. PICK m \in Nat : \E e : Lists(e, m, S)
  BY <1>2, UnderOrder
<1>5. PICK e : Lists(e, m, S)
  BY <1>4
<1>6. PICK f : f = [a \in 1..m |-> IF e[a] <= at THEN e[a] ELSE e[a] + c]
  OBVIOUS
<1>7. ASSUME NEW a \in 1..m
      PROVE  /\ e[a] \in S /\ e[a] \in 1..n
             /\ \/ e[a] \in 1..at /\ f[a] = e[a]
                \/ e[a] \in (at + 1)..n /\ f[a] = e[a] + c
  <2>1. e[a] \in S /\ e[a] \in 1..n
    BY <1>3, <1>5 DEF Lists
  <2>2. e[a] \in 1..at \/ e[a] \in (at + 1)..n
    BY <1>1, <2>1
  <2>3. e[a] \in 1..at => e[a] <= at
    BY <1>1
  <2>4. e[a] \in (at + 1)..n => ~(e[a] <= at)
    BY <1>1
  <2> QED BY <1>6, <2>1, <2>2, <2>3, <2>4
<1>8. \A a \in 1..m : f[a] \in O
  BY <1>3, <1>7, SMTT(20)
<1>9. ASSUME NEW a \in 1..m, NEW b \in 1..m, a < b PROVE f[a] < f[b]
  <2>1. e[a] < e[b]
    BY <1>5, <1>9 DEF Lists
  <2> QED BY <1>1, <1>7, <2>1, SMTT(20)
<1>10. ASSUME NEW i \in O PROVE \E a \in 1..m : f[a] = i
  <2>1. i \in 1..(n + c) /\ i \notin (at + 1)..(at + c)
    BY <1>3
  <2>2. CASE i <= at
    <3>1. i \in S
      <4>1. i \in 1..at
        BY <1>1, <2>1, <2>2
      <4> QED BY <1>3, <4>1
    <3>2. PICK a \in 1..m : e[a] = i
      BY <1>5, <3>1 DEF Lists
    <3>3. f[a] = i
      BY <1>6, <2>2, <3>2
    <3> QED BY <3>3
  <2>3. CASE ~(i <= at)
    <3>1. i - c \in (at + 1)..n /\ (i - c) + c = i
      BY <1>1, <2>1, <2>3
    <3>2. i - c \in S
      BY <1>3, <3>1
    <3>3. PICK a \in 1..m : e[a] = i - c
      BY <1>5, <3>2 DEF Lists
    <3>4. ~(e[a] <= at)
      BY <1>1, <3>1, <3>3
    <3>5. f[a] = i
      BY <1>6, <3>1, <3>3, <3>4
    <3> QED BY <3>5
  <2> QED BY <2>2, <2>3
<1>11. Lists(f, m, O)
  <2>1. f \in [1..m -> O]
    BY <1>6, <1>8
  <2> QED BY <1>9, <1>10, <2>1 DEF Lists
<1>12. PICK U, V : U = Under(d, Files) /\ V = Under(out, Files)
  OBVIOUS
<1>13. U \in Seq(Text) /\ Len(U) = m /\ \A a \in 1..m : U[a] = d[e[a]]
  BY <1>2, <1>5, <1>12, UnderIs
<1>14. V \in Seq(Text) /\ Len(V) = m /\ \A a \in 1..m : V[a] = out[f[a]]
  BY <1>2, <1>11, <1>12, UnderIs
<1>15. ASSUME NEW a \in 1..m PROVE out[f[a]] = d[e[a]]
  BY <1>1, <1>7 DEF Inserted
<1>16. U = V
  BY <1>13, <1>14, <1>15, SameLines
<1> QED BY <1>12, <1>16

(* When the first "runcmd:" is the list's key the commands are put before   *)
(* the items that are there.                                                *)
LEMMA WithList ==
    ASSUME NEW d \in Seq(Text), WellFormed(d), IsCloudConfig(d),
           NEW at, at = SelectInSeq(d, HasRunCmd), at # 0, d[at] = List
    PROVE  LET out == appendToUserDataCloudConfig(d, Cmds)
           IN  /\ Under(out, List) = Cmds \o Under(d, List)
               /\ Under(out, Files) = Under(d, Files)
<1>1. at \in 1..Len(d)
  <2>1. IsFirst(d, at)
    BY FirstRunCmd
  <2> QED BY <2>1, Zenon DEF IsFirst
<1>2. PICK out : out = appendToUserDataCloudConfig(d, Cmds)
  OBVIOUS
<1>3. Inserted(out, d, at)
  <2>1. out = SubSeq(d, 1, at - 1) \o (<<List>> \o Cmds) \o SubSeq(d, at + 1, Len(d))
    BY <1>2 DEF appendToUserDataCloudConfig
  <2>2. Inserted(SubSeq(d, 1, at - 1) \o (<<List>> \o Cmds) \o SubSeq(d, at + 1, Len(d)),
                 d, at)
    BY <1>1, ListInserted, Zenon
  <2> QED BY <2>1, <2>2, Zenon
<1>4. PICK n \in Nat, c \in Nat : n = Len(d) /\ c = Len(Cmds) /\ at \in 1..n
  BY <1>1, CmdsAreItems
<1>5. out \in Seq(Text) /\ Len(out) = n + c /\ \A i \in 1..at : out[i] = d[i]
  BY <1>3, <1>4 DEF Inserted
<1>6. PICK h \in 1..Len(d) :
         /\ Headed(d, h)
         /\ \A i \in 1..h : d[i] \in Skipped \cup {Header}
         /\ \A j, k \in 1..Len(d) :
               d[j] \in {List, Scalar} /\ d[k] \in {List, Scalar} => j = k
  BY CloudConfigLines
<1>7. List \notin Skipped \cup {Header}
  BY DEF List, Skipped, Blank, Header
<1>8. at \notin 1..h
  BY <1>6, <1>7
<1>9. h \in 1..at /\ h \in 1..(n + c) /\ \A i \in 1..(h - 1) : i \in 1..at
  BY <1>4, <1>6, <1>8
<1>10. IsCloudConfig(out)
  <2>1. out[h] = Header /\ \A i \in 1..(h - 1) : out[i] \in Skipped
    BY <1>5, <1>6, <1>9 DEF Headed
  <2>2. h \in DOMAIN out
    BY <1>5, <1>9
  <2> QED BY <2>1, <2>2 DEF IsCloudConfig
<1>11. \A k \in 1..Len(d) : d[k] = List => k = at
  BY <1>1, <1>6
<1>12. Under(out, List) = Cmds \o Under(d, List)
  BY <1>1, <1>3, <1>5, <1>10, <1>11, InsertedUnderList
<1>13. Under(out, Files) = Under(d, Files)
  BY <1>1, <1>3, <1>5, <1>10, InsertedUnderFiles
<1> QED BY <1>2, <1>12, <1>13

(* They run first when these items are at two spaces, and only then: others *)
(* are no list together with the commands.                                  *)
LEMMA AtTwoSpaces ==
    ASSUME NEW d \in Seq(Text), IsCloudConfig(d), Aligned(Under(d, Files)), NEW out,
           Under(out, List) = Cmds \o Under(d, List), Under(out, Files) = Under(d, Files)
    PROVE  RunsFirst(d, out) <=> \A i \in ItemsOf(d, List) : d[i] # Shifted
<1>1. PICK U \in Seq(Text) : U = Under(d, List)
  BY UnderType
<1>2. PICK v : v = Cmds \o U /\ v = Under(out, List) /\ Prefixed(v, U)
  BY <1>1, CmdsBefore
<1>3. CASE \A i \in ItemsOf(d, List) : d[i] # Shifted
  <2>1. ASSUME NEW a \in 1..Len(U) PROVE U[a] # Shifted
    <3>1. PICK i \in ItemsOf(d, List) : U[a] = d[i]
      BY <1>1, UnderLines
    <3> QED BY <1>3, <3>1
  <2>2. Contents(U) = U
    BY <2>1, ContentsSame
  <2>3. Contents(v) = v /\ Aligned(v)
    BY <1>2, <2>1, CmdsBeforeItems
  <2> QED BY <1>1, <1>2, <1>3, <2>2, <2>3 DEF RunsFirst
<1>4. CASE ~\A i \in ItemsOf(d, List) : d[i] # Shifted
  <2>1. PICK a \in 1..Len(U) : U[a] = Shifted
    BY <1>1, <1>4, UnderLines
  <2>2. 1 \in DOMAIN v /\ Len(Cmds) + a \in DOMAIN v
    BY <1>2 DEF Prefixed
  <2>3. v[1] # Shifted /\ v[Len(Cmds) + a] = Shifted
    BY <1>2, <2>1 DEF Prefixed
  <2>4. ~Aligned(v)
    BY <2>2, <2>3 DEF Aligned
  <2> QED BY <1>2, <1>4, <2>4 DEF RunsFirst
<1> QED BY <1>3, <1>4

(* appendToUserDataCloudConfig keeps its promise exactly then.              *)
LEMMA AppendRunsFirst ==
    ASSUME doc \in Seq(Text), WellFormed(doc)
    PROVE  InstanceRunsFirst
<1> SUFFICES ASSUME IsCloudConfig(doc)
             PROVE  RunsFirst(doc, appendToUserDataCloudConfig(doc, Cmds))
                      <=> (/\ SelectInSeq(doc, HasRunCmd) # 0
                           /\ doc[SelectInSeq(doc, HasRunCmd)] = List
                           /\ \A i \in ItemsOf(doc, List) : doc[i] # Shifted)
  BY DEF InstanceRunsFirst
<1>1. PICK at : at = SelectInSeq(doc, HasRunCmd)
  OBVIOUS
<1>2. \A i \in 1..Len(doc) : doc[i] # Torn
  <2>1. PICK h \in 1..Len(doc) :
           /\ \A i \in 1..h : doc[i] \in Skipped \cup {Header}
           /\ \A i \in (h + 1)..Len(doc) : doc[i] \in Keys \cup {Blank} \cup Items
    BY CloudConfigLines
  <2>2. \A i \in 1..Len(doc) : i \in 1..h \/ i \in (h + 1)..Len(doc)
    OBVIOUS
  <2>3. Torn \notin Skipped \cup {Header} /\ Torn \notin Keys \cup {Blank} \cup Items
    BY DEF Torn, Skipped, Header, Blank, Keys, List, Scalar, Files, Items, Item, Shifted,
           Mention
  <2> QED BY <2>1, <2>2, <2>3
<1>3. CASE at = 0
  BY <1>1, <1>2, <1>3, WithoutRunCmd
<1>4. CASE at # 0 /\ doc[at] = List
  <2>1. PICK out : out = appendToUserDataCloudConfig(doc, Cmds)
    OBVIOUS
  <2>2. Under(out, List) = Cmds \o Under(doc, List) /\ Under(out, Files) = Under(doc, Files)
    BY <1>1, <1>4, <2>1, WithList
  <2>3. Aligned(Under(doc, Files))
    BY CloudConfigLines
  <2>4. RunsFirst(doc, out) <=> \A i \in ItemsOf(doc, List) : doc[i] # Shifted
    BY <2>2, <2>3, AtTwoSpaces
  <2> QED BY <1>1, <1>4, <2>1, <2>4
<1>5. CASE at # 0 /\ doc[at] # List
  BY <1>1, <1>2, <1>5, WithoutList
<1> QED BY <1>3, <1>4, <1>5

-----------------------------------------------------------------------------
(* Every document is a sequence of lines a bootstrap provider writes.       *)
Documents == doc \in Seq(Text) /\ WellFormed(doc)

(* However long it gets, a document stays one: AddLine checks it.           *)
LEMMA OnlyDocuments == Spec => []Documents
<1>1. Init => Documents
  <2>1. <<>> \in Seq(Text)
    OBVIOUS
  <2>2. SelectInSeq(<<>>, LAMBDA line : line \notin Skipped) = 0
    BY DEF SelectInSeq
  <2> QED BY <2>1, <2>2 DEF Init, Documents, WellFormed
<1>2. Documents /\ [Next]_doc => Documents'
  <2> SUFFICES ASSUME Documents, [Next]_doc PROVE Documents'
    OBVIOUS
  <2>1. CASE AddLine
    <3>1. PICK line \in Skipped \cup Keys \cup Items \cup {Header, "#!/bin/sh"} :
             doc' = Append(doc, line)
      BY <2>1 DEF AddLine
    <3>2. line \in Text
      BY <3>1 DEF Text
    <3>3. doc' \in Seq(Text)
      BY <3>1, <3>2 DEF Documents
    <3> QED BY <2>1, <3>3 DEF AddLine, Documents
  <2>2. CASE UNCHANGED doc
    BY <2>2 DEF Documents
  <2> QED BY <2>1, <2>2 DEF Next
<1> QED BY <1>1, <1>2, PTL DEF Spec

(* What a bare metal server is given runs the provider's commands first     *)
(* and loses nothing, whatever the length of the bootstrap data, the        *)
(* indentation of its lists and the commands; only a cloud-config that ends *)
(* with its header gets none.                                               *)
THEOREM BareMetalCommandsFirst == Spec => []BareMetalRunsFirst
<1>1. Documents => BareMetalRunsFirst
  BY PrependRunsFirst DEF Documents
<1> QED BY <1>1, OnlyDocuments, PTL

(* What a VM is given runs the provider's commands first and loses nothing  *)
(* exactly when the first "runcmd:" of the text is the key of the list and  *)
(* every item of the list is indented by two spaces, whatever the length of *)
(* the bootstrap data and whatever the commands.                            *)
THEOREM InstanceCommandsFirst == Spec => []InstanceRunsFirst
<1>1. Documents => InstanceRunsFirst
  BY AppendRunsFirst DEF Documents
<1> QED BY <1>1, OnlyDocuments, PTL

=============================================================================
