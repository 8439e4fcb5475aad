----------------------------- MODULE ListProofs -----------------------------
(***************************************************************************)
(* Lemmas about the lists of commands of CommandLists, for any lists: what *)
(* they consist of and where it is.  None needs an induction: the places   *)
(* that are taken are counted.                                             *)
(***************************************************************************)
EXTENDS CommandLists, SequenceTheorems, FiniteSetTheorems, TLAPS

\* The command o on x, and on each of xs.
Cmd(o, x) == [op |-> o, on |-> x]
On(o, xs) == {Cmd(o, x) : x \in xs}

-----------------------------------------------------------------------------
(* Lists of commands.                                                      *)

\* What a list of commands has at a place.
LEMMA EachOne ==
  ASSUME NEW S, NEW s \in Seq(S), NEW a
  PROVE  /\ DOMAIN Each(<<a>>, s) = 1 .. Len(s)
         /\ \A i \in 1 .. Len(s) : Each(<<a>>, s)[i] = Cmd(a, s[i])
<1> DEFINE ops == <<a>>
           e == Each(ops, s)
<1>1. Len(ops) = 1 /\ ops[1] = a /\ Len(s) \in Nat
  OBVIOUS
<1>2. e = [i \in 1 .. Len(s) |->
            [op |-> ops[1 + ((i - 1) % 1)], on |-> s[1 + ((i - 1) \div 1)]]]
  BY <1>1 DEF Each
<1> HIDE DEF ops, e
<1>3. ASSUME NEW i \in 1 .. Len(s)
      PROVE  (i - 1) % 1 = 0 /\ (i - 1) \div 1 = i - 1
  BY <1>1
<1>4. \A i \in 1 .. Len(s) : e[i] = Cmd(a, s[i])
  BY <1>1, <1>2, <1>3 DEF Cmd
<1> QED BY <1>2, <1>4 DEF e, ops

LEMMA EachThree ==
  ASSUME NEW S, NEW s \in Seq(S), NEW a, NEW b, NEW c
  PROVE  /\ DOMAIN Each(<<a, b, c>>, s) = 1 .. 3 * Len(s)
         /\ \A m \in 1 .. Len(s) :
              /\ Each(<<a, b, c>>, s)[3 * m - 2] = Cmd(a, s[m])
              /\ Each(<<a, b, c>>, s)[3 * m - 1] = Cmd(b, s[m])
              /\ Each(<<a, b, c>>, s)[3 * m] = Cmd(c, s[m])
<1> DEFINE ops == <<a, b, c>>
           e == Each(ops, s)
<1>1. Len(ops) = 3 /\ ops[1] = a /\ ops[2] = b /\ ops[3] = c /\ Len(s) \in Nat
  OBVIOUS
<1>2. e = [i \in 1 .. 3 * Len(s) |->
            [op |-> ops[1 + ((i - 1) % 3)], on |-> s[1 + ((i - 1) \div 3)]]]
  BY <1>1 DEF Each
<1> HIDE DEF ops, e
<1>3. ASSUME NEW m \in 1 .. Len(s)
      PROVE  /\ {3 * m - 2, 3 * m - 1, 3 * m} \subseteq 1 .. 3 * Len(s)
             /\ (3 * m - 2 - 1) % 3 = 0 /\ (3 * m - 2 - 1) \div 3 = m - 1
             /\ (3 * m - 1 - 1) % 3 = 1 /\ (3 * m - 1 - 1) \div 3 = m - 1
             /\ (3 * m - 1) % 3 = 2 /\ (3 * m - 1) \div 3 = m - 1
  BY <1>1
<1>4. ASSUME NEW m \in 1 .. Len(s)
      PROVE  /\ e[3 * m - 2] = Cmd(a, s[m]) /\ e[3 * m - 1] = Cmd(b, s[m])
             /\ e[3 * m] = Cmd(c, s[m])
  BY <1>1, <1>2, <1>3 DEF Cmd
<1> QED BY <1>2, <1>4 DEF e, ops

\* Every place of a list of three operations is one of the three of an element.
LEMMA ThreePlaces ==
  ASSUME NEW n \in Nat, NEW i \in 1 .. 3 * n
  PROVE  \E m \in 1 .. n : i \in {3 * m - 2, 3 * m - 1, 3 * m}
<1>1. (i + 2) \div 3 \in 1 .. n
  OBVIOUS
<1>2. i \in {3 * ((i + 2) \div 3) - 2, 3 * ((i + 2) \div 3) - 1, 3 * ((i + 2) \div 3)}
  OBVIOUS
<1> QED BY <1>1, <1>2

\* The commands of a list.
LEMMA EachElementsOne ==
  ASSUME NEW S, NEW s \in Seq(S), NEW a
  PROVE  Elements(Each(<<a>>, s)) = On(a, Elements(s))
<1>1. Len(s) \in Nat /\ DOMAIN s = 1 .. Len(s)
  OBVIOUS
<1> QED BY <1>1, EachOne DEF Elements, On

LEMMA EachElements ==
  ASSUME NEW S, NEW s \in Seq(S), NEW a, NEW b, NEW c
  PROVE  Elements(Each(<<a, b, c>>, s)) =
           On(a, Elements(s)) \cup On(b, Elements(s)) \cup On(c, Elements(s))
<1> DEFINE e == Each(<<a, b, c>>, s)
           all == On(a, Elements(s)) \cup On(b, Elements(s)) \cup On(c, Elements(s))
<1>1. Len(s) \in Nat /\ DOMAIN s = 1 .. Len(s)
  OBVIOUS
<1>2. ASSUME NEW i \in DOMAIN e PROVE e[i] \in all
  <2>1. i \in 1 .. 3 * Len(s)
    BY EachThree
  <2>2. PICK m \in 1 .. Len(s) : i \in {3 * m - 2, 3 * m - 1, 3 * m}
    BY <1>1, <2>1, ThreePlaces
  <2>3. s[m] \in Elements(s)
    BY <1>1 DEF Elements
  <2>4. /\ e[3 * m - 2] = Cmd(a, s[m]) /\ e[3 * m - 1] = Cmd(b, s[m])
        /\ e[3 * m] = Cmd(c, s[m])
    BY EachThree
  <2> HIDE DEF e
  <2>5. e[i] \in {Cmd(a, s[m]), Cmd(b, s[m]), Cmd(c, s[m])}
    BY <2>2, <2>4
  <2> QED BY <2>3, <2>5 DEF On
<1>3. ASSUME NEW x \in Elements(s)
      PROVE  {Cmd(a, x), Cmd(b, x), Cmd(c, x)} \subseteq Elements(e)
  <2>1. PICK m \in 1 .. Len(s) : x = s[m]
    BY <1>1 DEF Elements
  <2>2. {3 * m - 2, 3 * m - 1, 3 * m} \subseteq DOMAIN e
    BY <1>1, EachThree
  <2> QED BY <2>1, <2>2, EachThree DEF Elements
<1>4. \A x \in all : x \in Elements(e)
  BY <1>3 DEF On
<1>5. \A x \in Elements(e) : x \in all
  BY <1>2 DEF Elements
<1> HIDE DEF e, all
<1>6. Elements(e) = all
  BY <1>4, <1>5
<1> QED BY <1>6 DEF e, all

LEMMA EachSeq ==
  ASSUME NEW S, NEW s \in Seq(S), NEW a, NEW b, NEW c, NEW T
  PROVE  /\ Elements(Each(<<a>>, s)) \subseteq T => Each(<<a>>, s) \in Seq(T)
         /\ Elements(Each(<<a, b, c>>, s)) \subseteq T => Each(<<a, b, c>>, s) \in Seq(T)
<1>1. ASSUME NEW n \in Nat, NEW e, e = [i \in 1 .. n |-> e[i]], Elements(e) \subseteq T
      PROVE  e \in Seq(T)
  <2>1. e \in [1 .. n -> T]
    BY <1>1 DEF Elements
  <2> QED BY <2>1, SeqDef
<1>2. Len(s) \in Nat /\ Len(<<a>>) = 1 /\ Len(<<a, b, c>>) = 3
  OBVIOUS
<1>3. /\ Each(<<a>>, s) = [i \in 1 .. Len(s) |-> Each(<<a>>, s)[i]]
      /\ Each(<<a, b, c>>, s) = [i \in 1 .. 3 * Len(s) |-> Each(<<a, b, c>>, s)[i]]
  BY <1>2 DEF Each
<1>4. 3 * Len(s) \in Nat
  BY <1>2
<1> QED BY <1>1, <1>2, <1>3, <1>4

LEMMA EachTwo ==
  ASSUME NEW S, NEW s \in Seq(S), NEW a, NEW b, NEW T,
         On(a, Elements(s)) \cup On(b, Elements(s)) \subseteq T
  PROVE  /\ Each(<<a, b>>, s) \in Seq(T)
         /\ Elements(Each(<<a, b>>, s)) = On(a, Elements(s)) \cup On(b, Elements(s))
<1> DEFINE ops == <<a, b>>
           e == Each(ops, s)
           both == On(a, Elements(s)) \cup On(b, Elements(s))
<1>1. Len(ops) = 2 /\ ops[1] = a /\ ops[2] = b /\ Len(s) \in Nat /\ DOMAIN s = 1 .. Len(s)
  OBVIOUS
<1>2. e = [i \in 1 .. 2 * Len(s) |->
            [op |-> ops[1 + ((i - 1) % 2)], on |-> s[1 + ((i - 1) \div 2)]]]
  BY <1>1 DEF Each
<1> HIDE DEF ops, e
<1>3. ASSUME NEW i \in 1 .. 2 * Len(s) PROVE e[i] \in both
  <2>1. /\ (i - 1) % 2 \in {0, 1} /\ 1 + ((i - 1) \div 2) \in 1 .. Len(s)
    BY <1>1
  <2>2. s[1 + ((i - 1) \div 2)] \in Elements(s)
    BY <1>1, <2>1 DEF Elements
  <2>3. ops[1 + ((i - 1) % 2)] \in {a, b}
    BY <1>1, <2>1
  <2>4. PICK x \in Elements(s), o \in {a, b} : e[i] = [op |-> o, on |-> x]
    BY <1>2, <2>2, <2>3
  <2> QED BY <2>4 DEF On, Cmd
<1>4. ASSUME NEW x \in Elements(s)
      PROVE  {Cmd(a, x), Cmd(b, x)} \subseteq Elements(e)
  <2>1. PICK m \in 1 .. Len(s) : x = s[m]
    BY <1>1 DEF Elements
  <2>2. /\ {2 * m - 1, 2 * m} \subseteq 1 .. 2 * Len(s)
        /\ (2 * m - 1 - 1) % 2 = 0 /\ (2 * m - 1 - 1) \div 2 = m - 1
        /\ (2 * m - 1) % 2 = 1 /\ (2 * m - 1) \div 2 = m - 1
    BY <1>1
  <2>3. DOMAIN e = 1 .. 2 * Len(s)
    BY <1>2
  <2>4. e[2 * m - 1] = Cmd(a, x) /\ e[2 * m] = Cmd(b, x)
    BY <1>1, <1>2, <2>1, <2>2 DEF Cmd
  <2> QED BY <2>2, <2>3, <2>4 DEF Elements
<1>5. DOMAIN e = 1 .. 2 * Len(s) /\ e = [i \in 1 .. 2 * Len(s) |-> e[i]]
  BY <1>2
<1>6. \A x \in both : x \in Elements(e)
  BY <1>4 DEF On
<1>7. \A x \in Elements(e) : x \in both
  BY <1>3, <1>5 DEF Elements
<1>8. Elements(e) = both
  BY <1>6, <1>7
<1>9. e \in [1 .. 2 * Len(s) -> T]
  BY <1>3, <1>5
<1>10. 2 * Len(s) \in Nat
  BY <1>1
<1>11. e \in Seq(T)
  BY <1>9, <1>10, SeqDef
<1> QED BY <1>8, <1>11 DEF e, ops

LEMMA ConcatElements ==
  ASSUME NEW S, NEW s \in Seq(S), NEW u \in Seq(S)
  PROVE  s \o u \in Seq(S) /\ Elements(s \o u) = Elements(s) \cup Elements(u)
<1>1. /\ s \o u \in Seq(S) /\ DOMAIN (s \o u) = 1 .. Len(s) + Len(u)
      /\ DOMAIN s = 1 .. Len(s) /\ DOMAIN u = 1 .. Len(u) /\ Len(s) \in Nat /\ Len(u) \in Nat
      /\ \A i \in 1 .. Len(s) : (s \o u)[i] = s[i]
      /\ \A i \in 1 .. Len(u) : (s \o u)[i + Len(s)] = u[i]
      /\ \A i \in 1 .. Len(s) + Len(u) : i > Len(s) => (s \o u)[i] = u[i - Len(s)]
  BY ConcatProperties
<1>2. ASSUME NEW i \in 1 .. Len(s) + Len(u)
      PROVE  (s \o u)[i] \in Elements(s) \cup Elements(u)
  <2>1. CASE i <= Len(s)
    BY <1>1, <2>1 DEF Elements
  <2>2. CASE i > Len(s)
    <3>1. i - Len(s) \in 1 .. Len(u)
      BY <1>1, <2>2
    <3> QED BY <1>1, <2>2, <3>1 DEF Elements
  <2> QED BY <1>1, <2>1, <2>2
<1>3. ASSUME NEW i \in 1 .. Len(s) PROVE s[i] \in Elements(s \o u)
  <2>1. i \in 1 .. Len(s) + Len(u)
    BY <1>1
  <2> QED BY <1>1, <2>1 DEF Elements
<1>4. ASSUME NEW i \in 1 .. Len(u) PROVE u[i] \in Elements(s \o u)
  <2>1. i + Len(s) \in 1 .. Len(s) + Len(u)
    BY <1>1
  <2> QED BY <1>1, <2>1 DEF Elements
<1>5. \A x \in Elements(s \o u) : x \in Elements(s) \cup Elements(u)
  BY <1>1, <1>2 DEF Elements
<1>6. \A x \in Elements(s) \cup Elements(u) : x \in Elements(s \o u)
  BY <1>1, <1>3, <1>4 DEF Elements
<1>7. Elements(s \o u) = Elements(s) \cup Elements(u)
  BY <1>5, <1>6
<1> QED BY <1>1, <1>7

LEMMA ReversedElements ==
  ASSUME NEW S, NEW s \in Seq(S)
  PROVE  Reversed(s) \in Seq(S) /\ Elements(Reversed(s)) = Elements(s)
<1>1. Len(s) \in Nat /\ DOMAIN s = 1 .. Len(s) /\ \A i \in 1 .. Len(s) : s[i] \in S
  OBVIOUS
<1>2. \A i \in 1 .. Len(s) : 1 + Len(s) - i \in 1 .. Len(s)
  BY <1>1
<1>3. Reversed(s) \in [1 .. Len(s) -> S]
  BY <1>1, <1>2 DEF Reversed
<1>4. Reversed(s) \in Seq(S)
  BY <1>1, <1>3, SeqDef
<1>5. \A i \in 1 .. Len(s) : s[i] = Reversed(s)[1 + Len(s) - i]
  BY <1>1, <1>2 DEF Reversed
<1> QED BY <1>1, <1>2, <1>3, <1>4, <1>5 DEF Reversed, Elements

LEMMA TailElements ==
  ASSUME NEW S, NEW s \in Seq(S), s # <<>>
  PROVE  /\ Tail(s) \in Seq(S) /\ Head(s) \in Elements(s) /\ Head(s) \in S
         /\ Elements(s) = {Head(s)} \cup Elements(Tail(s))
<1>1. /\ Len(s) \in Nat /\ Len(s) > 0 /\ Len(Tail(s)) = Len(s) - 1
      /\ \A i \in 1 .. Len(s) - 1 : Tail(s)[i] = s[i + 1]
      /\ Head(s) = s[1] /\ DOMAIN s = 1 .. Len(s) /\ Tail(s) \in Seq(S)
      /\ DOMAIN Tail(s) = 1 .. Len(s) - 1 /\ Head(s) \in S
  BY HeadTailProperties, LenProperties, EmptySeq
<1>2. ASSUME NEW i \in 1 .. Len(s) PROVE s[i] \in {Head(s)} \cup Elements(Tail(s))
  <2>1. CASE i = 1
    BY <1>1, <2>1
  <2>2. CASE i # 1
    <3>1. i - 1 \in 1 .. Len(s) - 1 /\ i - 1 + 1 = i
      BY <1>1, <2>2
    <3> QED BY <1>1, <3>1 DEF Elements
  <2> QED BY <2>1, <2>2
<1>3. ASSUME NEW i \in 1 .. Len(s) - 1 PROVE Tail(s)[i] \in Elements(s)
  <2>1. i + 1 \in 1 .. Len(s)
    BY <1>1
  <2> QED BY <1>1, <2>1 DEF Elements
<1>4. 1 \in DOMAIN s
  BY <1>1
<1> QED BY <1>1, <1>2, <1>3, <1>4 DEF Elements
-----------------------------------------------------------------------------
(* The elements at some places of a list.                                  *)

\* The places are counted without a gap, in their order.
LEMMA RankCounts ==
  ASSUME NEW m \in Nat, NEW S \in SUBSET (1 .. m)
  PROVE  /\ IsFiniteSet(S) /\ Cardinality(S) \in Nat
         /\ \A i \in S : Rank(S, i) \in 1 .. Cardinality(S)
         /\ \A i, k \in S : i < k => Rank(S, i) < Rank(S, k)
         /\ \A n \in 1 .. Cardinality(S) : \E i \in S : Rank(S, i) = n
<1> DEFINE upto(i) == {j \in S : j <= i}
<1>1. IsFiniteSet(S) /\ Cardinality(S) \in Nat
  <2>1. IsFiniteSet(1 .. m)
    BY FS_Interval
  <2>2. IsFiniteSet(S)
    BY <2>1, FS_Subset
  <2> QED BY <2>2, FS_CardinalityType
<1>2. ASSUME NEW i \in S
      PROVE  /\ IsFiniteSet(upto(i)) /\ Cardinality(upto(i)) \in Nat
             /\ Cardinality(upto(i)) <= Cardinality(S) /\ Cardinality(upto(i)) # 0
  <2>1. upto(i) \in SUBSET S /\ i \in upto(i)
    OBVIOUS
  <2> HIDE DEF upto
  <2>2. IsFiniteSet(upto(i)) /\ Cardinality(upto(i)) <= Cardinality(S)
    BY <1>1, <2>1, FS_Subset
  <2> QED BY <2>1, <2>2, FS_EmptySet, FS_CardinalityType
<1>3. ASSUME NEW i \in S PROVE Rank(S, i) = Cardinality(upto(i))
  BY DEF Rank
<1>4. ASSUME NEW i \in S PROVE Rank(S, i) \in 1 .. Cardinality(S)
  <2> HIDE DEF upto
  <2> QED BY <1>1, <1>2, <1>3
<1>5. ASSUME NEW i \in S, NEW k \in S, i < k PROVE Rank(S, i) < Rank(S, k)
  <2>0. i \in Nat /\ k \in Nat /\ \A j \in S : j \in Nat
    OBVIOUS
  <2>1. upto(i) \in SUBSET upto(k) /\ k \in upto(k) /\ k \notin upto(i)
    <3>1. \A j \in S : j <= i => j <= k
      BY <1>5, <2>0
    <3>2. k <= k /\ ~ (k <= i)
      BY <1>5, <2>0
    <3> QED BY <3>1, <3>2
  <2>2. IsFiniteSet(upto(k)) /\ Cardinality(upto(k)) \in Nat /\ Cardinality(upto(i)) \in Nat
    BY <1>2
  <2> HIDE DEF upto
  <2>3. /\ Cardinality(upto(i)) <= Cardinality(upto(k))
        /\ Cardinality(upto(k)) = Cardinality(upto(i)) => upto(k) = upto(i)
    BY <2>1, <2>2, FS_Subset
  <2> QED BY <1>3, <2>1, <2>2, <2>3
<1>6. ASSUME NEW n \in 1 .. Cardinality(S) PROVE \E i \in S : Rank(S, i) = n
  <2> DEFINE f == [i \in S |-> Rank(S, i)]
             T == 1 .. Cardinality(S)
  <2>1. \A i, k \in S : i # k => f[i] # f[k]
    <3> SUFFICES ASSUME NEW i \in S, NEW k \in S, i # k PROVE f[i] # f[k]
      OBVIOUS
    <3>1. i < k \/ k < i
      OBVIOUS
    <3>2. Rank(S, i) \in Nat /\ Rank(S, k) \in Nat
      BY <1>4
    <3>3. Rank(S, i) < Rank(S, k) \/ Rank(S, k) < Rank(S, i)
      BY <1>5, <3>1
    <3> QED BY <3>2, <3>3
  <2>2. f \in [S -> T]
    BY <1>4
  <2>3. f \in Injection(S, T)
    BY <2>1, <2>2 DEF Injection, IsInjective
  <2>4. IsFiniteSet(T) /\ Cardinality(T) = Cardinality(S)
    BY <1>1, FS_Interval
  <2> HIDE DEF f, T
  <2>5. f \in Surjection(S, T)
    BY <2>3, <2>4, FS_Injection
  <2>6. n \in T
    BY DEF T
  <2>7. PICK i \in S : f[i] = n
    BY <2>5, <2>6 DEF Surjection
  <2> QED BY <2>7 DEF f
<1> QED BY <1>1, <1>4, <1>5, <1>6

LEMMA AtPlacesPlaced ==
  ASSUME NEW T, NEW s \in Seq(T), NEW S \in SUBSET (DOMAIN s)
  PROVE  /\ AtPlaces(s, S) \in Seq(T) /\ Len(AtPlaces(s, S)) = Cardinality(S)
         /\ Cardinality(S) \in Nat
         /\ \E place \in [1 .. Cardinality(S) -> S] :
              /\ \A n \in 1 .. Cardinality(S) : AtPlaces(s, S)[n] = s[place[n]]
              /\ \A n, k \in 1 .. Cardinality(S) : n < k => place[n] < place[k]
              /\ \A i \in S : \E n \in 1 .. Cardinality(S) : place[n] = i
<1> DEFINE place == [n \in 1 .. Cardinality(S) |-> CHOOSE i \in S : Rank(S, i) = n]
<1>1. Len(s) \in Nat /\ DOMAIN s = 1 .. Len(s) /\ \A i \in 1 .. Len(s) : s[i] \in T
  OBVIOUS
<1>2. /\ Cardinality(S) \in Nat
      /\ \A i \in S : Rank(S, i) \in 1 .. Cardinality(S)
      /\ \A i, k \in S : i < k => Rank(S, i) < Rank(S, k)
      /\ \A n \in 1 .. Cardinality(S) : \E i \in S : Rank(S, i) = n
  BY <1>1, RankCounts
<1>3. ASSUME NEW n \in 1 .. Cardinality(S)
      PROVE  place[n] \in S /\ Rank(S, place[n]) = n
  <2>1. \E i \in S : Rank(S, i) = n
    BY <1>2
  <2>2. place[n] = CHOOSE i \in S : Rank(S, i) = n
    OBVIOUS
  <2> QED BY <2>1, <2>2
<1>4. \A n \in 1 .. Cardinality(S) : AtPlaces(s, S)[n] = s[place[n]]
  BY DEF AtPlaces
<1>5. DOMAIN place = 1 .. Cardinality(S) /\ place = [n \in 1 .. Cardinality(S) |-> place[n]]
  OBVIOUS
<1>6. AtPlaces(s, S) = [n \in 1 .. Cardinality(S) |-> s[place[n]]]
  BY DEF AtPlaces
<1> HIDE DEF place
<1>7. place \in [1 .. Cardinality(S) -> S]
  BY <1>3, <1>5
<1>8. \A i \in S : place[Rank(S, i)] = i
  <2> SUFFICES ASSUME NEW i \in S PROVE place[Rank(S, i)] = i
    OBVIOUS
  <2>1. Rank(S, i) \in 1 .. Cardinality(S)
    BY <1>2
  <2>2. place[Rank(S, i)] \in S /\ Rank(S, place[Rank(S, i)]) = Rank(S, i)
    BY <1>3, <2>1
  <2>3. i \in Nat /\ place[Rank(S, i)] \in Nat
    BY <1>1, <2>2
  <2> QED BY <1>2, <2>1, <2>2, <2>3
<1>9. \A n, k \in 1 .. Cardinality(S) : n < k => place[n] < place[k]
  <2> SUFFICES ASSUME NEW n \in 1 .. Cardinality(S), NEW k \in 1 .. Cardinality(S), n < k
               PROVE  place[n] < place[k]
    OBVIOUS
  <2>1. place[n] \in S /\ place[k] \in S /\ Rank(S, place[n]) = n /\ Rank(S, place[k]) = k
    BY <1>3
  <2>2. place[n] \in Nat /\ place[k] \in Nat
    BY <1>1, <2>1
  <2>3. ~ (place[k] < place[n]) /\ place[k] # place[n]
    BY <1>2, <2>1
  <2> QED BY <2>2, <2>3
<1>10. AtPlaces(s, S) \in [1 .. Cardinality(S) -> T]
  BY <1>1, <1>3, <1>6
<1>11. AtPlaces(s, S) \in Seq(T) /\ Len(AtPlaces(s, S)) = Cardinality(S)
  BY <1>2, <1>10, SeqDef
<1>12. \A i \in S : \E n \in 1 .. Cardinality(S) : place[n] = i
  BY <1>2, <1>8
<1> QED BY <1>2, <1>4, <1>7, <1>9, <1>11, <1>12

LEMMA AtPlacesElements ==
  ASSUME NEW T, NEW s \in Seq(T), NEW S \in SUBSET (DOMAIN s)
  PROVE  AtPlaces(s, S) \in Seq(T) /\ Elements(AtPlaces(s, S)) = {s[i] : i \in S}
<1>1. PICK place \in [1 .. Cardinality(S) -> S] :
        /\ \A n \in 1 .. Cardinality(S) : AtPlaces(s, S)[n] = s[place[n]]
        /\ \A i \in S : \E n \in 1 .. Cardinality(S) : place[n] = i
  BY AtPlacesPlaced
<1>2. AtPlaces(s, S) \in Seq(T) /\ DOMAIN AtPlaces(s, S) = 1 .. Cardinality(S)
  BY AtPlacesPlaced
<1> QED BY <1>1, <1>2 DEF Elements

\* A value has a place where it occurs first.
LEMMA FirstOccurrencesElements ==
  ASSUME NEW T, NEW s \in Seq(T)
  PROVE  FirstOccurrences(s) \in Seq(T) /\ Elements(FirstOccurrences(s)) = Elements(s)
<1> DEFINE S == {i \in DOMAIN s : \A j \in 1 .. i - 1 : s[j] # s[i]}
<1>1. FirstOccurrences(s) \in Seq(T) /\ Elements(FirstOccurrences(s)) = {s[i] : i \in S}
  BY AtPlacesElements DEF FirstOccurrences
<1>2. Len(s) \in Nat /\ DOMAIN s = 1 .. Len(s)
  OBVIOUS
<1>3. ASSUME NEW k \in DOMAIN s PROVE \E i \in S : s[i] = s[k]
  <2> DEFINE R == {i \in DOMAIN s : s[i] = s[k]}
  <2>1. R \in SUBSET (1 .. Len(s)) /\ k \in R
    BY <1>2
  <2> HIDE DEF R
  <2>2. /\ IsFiniteSet(R) /\ Cardinality(R) \in Nat
        /\ \A n \in 1 .. Cardinality(R) : \E i \in R : Rank(R, i) = n
        /\ \A i \in R : Rank(R, i) \in 1 .. Cardinality(R)
        /\ \A i, j \in R : i < j => Rank(R, i) < Rank(R, j)
    BY <1>2, <2>1, RankCounts
  <2>3. 1 \in 1 .. Cardinality(R)
    BY <2>1, <2>2
  <2>4. PICK i \in R : Rank(R, i) = 1
    BY <2>2, <2>3
  <2>5. ASSUME NEW j \in R, j < i PROVE FALSE
    <3>1. Rank(R, j) < 1 /\ Rank(R, j) \in 1 .. Cardinality(R)
      BY <2>2, <2>4, <2>5
    <3> QED BY <2>2, <3>1
  <2>6. i \in 1 .. Len(s) /\ s[i] = s[k]
    BY <1>2, <2>4 DEF R
  <2>7. \A j \in 1 .. i - 1 : s[j] # s[i]
    <3> SUFFICES ASSUME NEW j \in 1 .. i - 1, s[j] = s[i] PROVE FALSE
      OBVIOUS
    <3>1. j \in 1 .. Len(s) /\ j < i
      BY <1>2, <2>6
    <3>2. j \in R
      BY <1>2, <2>6, <3>1 DEF R
    <3> QED BY <2>5, <3>1, <3>2
  <2>8. i \in S
    BY <1>2, <2>6, <2>7
  <2> QED BY <2>6, <2>8
<1>4. {s[i] : i \in S} = Elements(s)
  BY <1>3 DEF Elements
<1> QED BY <1>1, <1>4
=============================================================================
