--------------------------- MODULE ServicesProofs ---------------------------
(***************************************************************************)
(* What a gate's verdict, a choice of reviewers, a chain's record, the     *)
(* limiters of the two servers, the event bus and a review's files are     *)
(* worth, for any lists of checks, requests for reviewers, presets, needs, *)
(* tools, clients, streams, patterns and files.                            *)
(*                                                                         *)
(*   lists   Only, by the sequence of positions it takes (OnlyTakes), and  *)
(*           Flat, by what there is after each part (Flattening).          *)
(*   gates   A verdict speaks of all checks at its end; GateInv says of    *)
(*           each result what it found and in which world, and which       *)
(*           checks are still owed.                                        *)
(*   roster  Each step of the choice, as a list without repetition of      *)
(*           those that could review (PickIsSound).                        *)
(*   chains  RunInv adds to the record what the segment being called was   *)
(*           let in by and given; nothing is requested twice               *)
(*           (ResolveKeeps).                                               *)
(*   rest    The limiter's record has every call that could still count,   *)
(*           unless pipelines have crossed (RestInv).                      *)
(*   sockets The lock is held for the client being refused (SocketInv).    *)
(*   files   Each file that is left has its share of the budget, all that  *)
(*           is taken fits it with what remains, and what is handed on is  *)
(*           measured by what was taken (FilesInv).                        *)
(*   bus     A stream has been, or will be, given each event as often as   *)
(*           its patterns cover it (Complete); a call of emit that has not *)
(*           returned accounts for the rest (FramesOK), and so it does for *)
(*           what is neither in the file yet nor lost (Written).           *)
(***************************************************************************)
EXTENDS Services, Sublists, FiniteSetTheorems, WellFoundedInduction, TLAPS

-----------------------------------------------------------------------------
(* Lists *)

\* What is in a list.
Holds(list, name) == \E i \in DOMAIN list : list[i] = name

\* Nothing is in a list twice.
Distinct(list) == \A i, j \in DOMAIN list : list[i] = list[j] => i = j

\* The induction that the loop needs: a set of numbers that is not empty has a
\* least element.
LEMMA Least ==
  ASSUME NEW T \in SUBSET Nat, T # {}
  PROVE  \E x \in T : \A y \in T : ~(y < x)
<1>1. IsWellFoundedOn(OpToRel(<, Nat), Nat)
  BY NatLessThanWellFounded
<1>2. PICK x \in T : \A y \in T : ~(<<y, x>> \in OpToRel(<, Nat))
  BY <1>1, WFMin
<1>3. QED
  BY <1>2 DEF OpToRel

\* Induction up to a number, for what holds of the numbers of a set.
LEMMA Induct ==
  ASSUME NEW P, NEW n \in Nat, 0 \in P, \A m \in 1..n : m - 1 \in P => m \in P
  PROVE  \A m \in 0..n : m \in P
<1> DEFINE T == {m \in 0..n : m \notin P}
<1>1. SUFFICES ASSUME T # {} PROVE FALSE  OBVIOUS
<1>2. T \in SUBSET Nat  OBVIOUS
<1>3. PICK m \in T : \A y \in T : ~(y < m)  BY <1>1, <1>2, Least
<1>4. m # 0 /\ m \in 1..n /\ m - 1 \in 0..n /\ m - 1 < m  BY <1>3
<1>5. m - 1 \in P  BY <1>3, <1>4
<1> QED  BY <1>3, <1>4, <1>5

\* What a loop over 1..n, which begins with x0, makes of it round by round.
Rounds(f, n, X, x0, g) ==
  f \in [0..n -> X] /\ f[0] = x0 /\ \A i \in 1..n : f[i] = g[i][f[i - 1]]

\* There is what a loop makes.
LEMMA Recursion ==
  ASSUME NEW n \in Nat, NEW X, NEW x0 \in X, NEW g \in [1..n -> [X -> X]]
  PROVE  \E f : Rounds(f, n, X, x0, g)
<1> DEFINE P == {m \in 0..n : \E f : Rounds(f, m, X, x0, g)}
<1>1. 0 \in P
  <2> DEFINE f == [k \in 0..0 |-> x0]
  <2>1. Rounds(f, 0, X, x0, g)  BY DEF Rounds
  <2>2. 0 \in 0..n  OBVIOUS
  <2> HIDE DEF f
  <2> QED  BY <2>1, <2>2
<1>2. ASSUME NEW m \in 1..n, m - 1 \in P
      PROVE  m \in P
  <2>1. PICK f : Rounds(f, m - 1, X, x0, g)  BY <1>2
  <2>2. f \in [0..(m - 1) -> X] /\ f[m - 1] \in X  BY <2>1 DEF Rounds
  <2> DEFINE h == [k \in 0..m |-> IF k = m THEN g[m][f[m - 1]] ELSE f[k]]
  <2>3. g[m][f[m - 1]] \in X  BY <2>2
  <2>4. h \in [0..m -> X]  BY <2>2, <2>3
  <2>5. h[0] = x0  BY <2>1 DEF Rounds
  <2>6. h[m] = g[m][h[m - 1]]
    <3>1. h[m] = g[m][f[m - 1]]  OBVIOUS
    <3>2. h[m - 1] = f[m - 1]  OBVIOUS
    <3> QED  BY <3>1, <3>2
  <2>7. ASSUME NEW i \in 1..(m - 1) PROVE h[i] = g[i][h[i - 1]]  BY <2>1 DEF Rounds
  <2>8. \A i \in 1..m : i = m \/ i \in 1..(m - 1)  OBVIOUS
  <2>9. Rounds(h, m, X, x0, g)  BY <2>4, <2>5, <2>6, <2>7, <2>8 DEF Rounds
  <2>10. m \in 0..n  OBVIOUS
  <2> HIDE DEF h
  <2> QED  BY <2>9, <2>10
<1>3. \A m \in 1..n : m - 1 \in P => m \in P  BY <1>2
<1> HIDE DEF P
<1>4. \A m \in 0..n : m \in P  BY <1>1, <1>3, Induct
<1>5. n \in 0..n  OBVIOUS
<1> QED  BY <1>4, <1>5 DEF P

\* What is kept of a list after each of its elements.
KeptOf(f, list, S) ==
  /\ f[0] = <<>>
  /\ \A i \in 1..Len(list) :
       f[i] = IF list[i] \in S THEN Append(f[i - 1], list[i]) ELSE f[i - 1]
  /\ Only(list, S) = f[Len(list)]

\* The recursion that Only is goes through one list for each prefix.
LEMMA OnlyStates ==
  ASSUME NEW U, NEW list \in Seq(U), NEW S
  PROVE  \E f \in [0..Len(list) -> Seq(U)] : KeptOf(f, list, S)
<1> DEFINE n == Len(list)
           Is(f) == f = [i \in 0..n |->
                           IF i = 0 THEN <<>>
                           ELSE IF list[i] \in S THEN Append(f[i - 1], list[i])
                                ELSE f[i - 1]]
           g == [i \in 1..n |-> [x \in Seq(U) |->
                   IF list[i] \in S THEN Append(x, list[i]) ELSE x]]
<1>1. n \in Nat /\ \A i \in 1..n : list[i] \in U  OBVIOUS
<1>2. g \in [1..n -> [Seq(U) -> Seq(U)]]  BY <1>1
<1>3. <<>> \in Seq(U)  OBVIOUS
<1>4. PICK f : Rounds(f, n, Seq(U), <<>>, g)
  <2> HIDE DEF g, n
  <2> QED  BY <1>1, <1>2, <1>3, Recursion
<1>5. /\ f \in [0..n -> Seq(U)] /\ f[0] = <<>>
      /\ \A i \in 1..n : f[i] = g[i][f[i - 1]]
  <2> HIDE DEF g, n
  <2> QED  BY <1>4 DEF Rounds
<1>6. \A i \in 1..n : f[i] = IF list[i] \in S THEN Append(f[i - 1], list[i]) ELSE f[i - 1]
  <2> TAKE i \in 1..n
  <2>1. i - 1 \in 0..n  BY <1>1
  <2>2. f[i - 1] \in Seq(U)  BY <1>5, <2>1
  <2> QED  BY <1>5, <2>2
<1>7. Is(f)
  <2>1. f = [i \in 0..n |-> f[i]]  BY <1>5
  <2>2. \A i \in 0..n : i = 0 \/ i \in 1..n  BY <1>1
  <2>3. \A i \in 0..n : f[i] = IF i = 0 THEN <<>>
                               ELSE IF list[i] \in S THEN Append(f[i - 1], list[i])
                                    ELSE f[i - 1]
    BY <1>5, <1>6, <2>2
  <2> QED  BY <2>1, <2>3
<1> DEFINE d == CHOOSE x : Is(x)
<1>8. Only(list, S) = d[n]  BY DEF Only
<1>9. Is(d)  BY <1>7
<1> HIDE DEF d
<1>10. d[0] = <<>> /\ \A i \in 1..n : d[i] = IF list[i] \in S THEN Append(d[i - 1], list[i])
                                             ELSE d[i - 1]
  <2>1. 0 \in 0..n /\ \A i \in 1..n : i \in 0..n /\ i # 0  BY <1>1
  <2> HIDE DEF n
  <2>2. \A i \in 0..n : d[i] = IF i = 0 THEN <<>>
                               ELSE IF list[i] \in S THEN Append(d[i - 1], list[i])
                                    ELSE d[i - 1]
    BY <1>9, Zenon
  <2> QED  BY <2>1, <2>2
<1>11. KeptOf(d, list, S)  BY <1>8, <1>10 DEF KeptOf
<1>12. d \in [0..n -> Seq(U)]
  <2>1. DOMAIN d = 0..n /\ d = [i \in 0..n |-> d[i]]  BY <1>9
  <2> DEFINE P == {i \in 0..n : d[i] \in Seq(U)}
  <2>2. 0 \in P
    <3>1. 0 \in 0..n /\ d[0] \in Seq(U)  BY <1>1, <1>3, <1>10
    <3> HIDE DEF n
    <3> QED  BY <3>1
  <2>3. ASSUME NEW i \in 1..n, i - 1 \in P PROVE i \in P
    <3>1. d[i - 1] \in Seq(U) /\ list[i] \in U /\ i \in 0..n  BY <1>1, <2>3
    <3>2. Append(d[i - 1], list[i]) \in Seq(U)  BY <3>1
    <3>3. d[i] \in Seq(U)  BY <1>10, <3>1, <3>2
    <3> HIDE DEF n
    <3> QED  BY <3>1, <3>3
  <2> HIDE DEF P
  <2>4. \A i \in 0..n : i \in P  BY <1>1, <2>2, <2>3, Induct
  <2>5. \A i \in 0..n : d[i] \in Seq(U)  BY <2>4 DEF P
  <2> QED  BY <2>1, <2>5
<1> QED  BY <1>11, <1>12
\* Where the elements kept stood: e rises, and leaves none of the set out.
Taken(e, short, list, n, S) ==
  /\ e \in [1..Len(short) -> 1..n]
  /\ \A k \in 1..Len(short) : short[k] = list[e[k]] /\ list[e[k]] \in S
  /\ \A k, m \in 1..Len(short) : k < m => e[k] < e[m]
  /\ \A i \in 1..n : list[i] \in S => \E k \in 1..Len(short) : e[k] = i

\* Only(list, S) is list without what is not in S: in its order, and complete.
LEMMA OnlyTakes ==
  ASSUME NEW U, NEW list \in Seq(U), NEW S
  PROVE  Only(list, S) \in Seq(U) /\ \E e : Taken(e, Only(list, S), list, Len(list), S)
<1> DEFINE n == Len(list)
<1>1. n \in Nat  OBVIOUS
<1>2. PICK f \in [0..n -> Seq(U)] : KeptOf(f, list, S)  BY OnlyStates
<1> DEFINE P == {i \in 0..n : \E e : Taken(e, f[i], list, i, S)}
<1>3. 0 \in P
  <2> DEFINE e == [k \in 1..0 |-> 1]
  <2>1. f[0] = <<>> /\ Len(f[0]) = 0  BY <1>2 DEF KeptOf
  <2>2. Taken(e, f[0], list, 0, S)  BY <2>1 DEF Taken
  <2>3. 0 \in 0..n  BY <1>1
  <2> HIDE DEF e, n
  <2> QED  BY <2>2, <2>3
<1>4. ASSUME NEW i \in 1..n, i - 1 \in P
      PROVE  i \in P
  <2>1. i \in 0..n /\ i - 1 \in 0..n /\ i \in Nat /\ i - 1 \in Nat  BY <1>1
  <2>2. PICK e : Taken(e, f[i - 1], list, i - 1, S)  BY <1>4
  <2>3. f[i - 1] \in Seq(U) /\ list[i] \in U  BY <1>2, <2>1
  <2>4. f[i] = IF list[i] \in S THEN Append(f[i - 1], list[i]) ELSE f[i - 1]
    BY <1>2 DEF KeptOf
  <2> DEFINE m == Len(f[i - 1])
  <2>5. m \in Nat /\ e \in [1..m -> 1..(i - 1)]  BY <2>2, <2>3 DEF Taken
  <2>6. CASE list[i] \in S
    <3> DEFINE h == [k \in 1..(m + 1) |-> IF k = m + 1 THEN i ELSE e[k]]
    <3>1. /\ Len(f[i]) = m + 1 /\ f[i][m + 1] = list[i]
          /\ \A k \in 1..m : f[i][k] = f[i - 1][k]
      BY <2>3, <2>4, <2>6
    <3> HIDE DEF m
    <3>2. h \in [1..(m + 1) -> 1..i] /\ h[m + 1] = i /\ \A k \in 1..m : h[k] = e[k] /\ e[k] < i
      BY <2>1, <2>5
    <3> HIDE DEF h
    <3>3. \A k \in 1..(m + 1) : k \in 1..m \/ k = m + 1  BY <2>5
    <3>4. \A k \in 1..(m + 1) : f[i][k] = list[h[k]] /\ list[h[k]] \in S
      BY <2>2, <2>6, <3>1, <3>2, <3>3 DEF Taken, m
    <3>5. \A k, l \in 1..(m + 1) : k < l => h[k] < h[l]
      <4> SUFFICES ASSUME NEW k \in 1..(m + 1), NEW l \in 1..(m + 1), k < l
                   PROVE  h[k] < h[l]
        OBVIOUS
      <4>1. k \in 1..m  BY <2>5
      <4>2. CASE l = m + 1  BY <3>2, <4>1, <4>2
      <4>3. CASE l \in 1..m
        <5>1. e[k] < e[l]  BY <2>2, <4>1, <4>3 DEF Taken, m
        <5> QED  BY <3>2, <4>1, <4>3, <5>1
      <4> QED  BY <3>3, <4>2, <4>3
    <3>6. ASSUME NEW j \in 1..i, list[j] \in S PROVE \E k \in 1..(m + 1) : h[k] = j
      <4>1. CASE j = i
        <5>1. m + 1 \in 1..(m + 1)  BY <2>5
        <5> QED  BY <3>2, <4>1, <5>1
      <4>2. CASE j # i
        <5>1. j \in 1..(i - 1)  BY <4>2, <2>1
        <5>2. PICK k \in 1..m : e[k] = j  BY <2>2, <3>6, <5>1 DEF Taken, m
        <5>3. k \in 1..(m + 1)  BY <2>5
        <5> QED  BY <3>2, <5>2, <5>3
      <4> QED  BY <4>1, <4>2
    <3>7. Taken(h, f[i], list, i, S)  BY <3>1, <3>2, <3>4, <3>5, <3>6 DEF Taken
    <3> QED  BY <2>1, <3>7
  <2>7. CASE list[i] \notin S
    <3>1. f[i] = f[i - 1]  BY <2>4, <2>7
    <3>2. e \in [1..m -> 1..i]  BY <2>1, <2>5
    <3>3. \A j \in 1..i : list[j] \in S => j \in 1..(i - 1)  BY <2>1, <2>7
    <3>4. Taken(e, f[i], list, i, S)  BY <2>2, <3>1, <3>2, <3>3 DEF Taken
    <3> QED  BY <2>1, <3>4
  <2> QED  BY <2>6, <2>7
<1>5. \A i \in 1..n : i - 1 \in P => i \in P  BY <1>4
<1> HIDE DEF P
<1>6. \A i \in 0..n : i \in P  BY <1>1, <1>3, <1>5, Induct
<1>7. n \in 0..n  BY <1>1
<1>8. Only(list, S) = f[n]  BY <1>2 DEF KeptOf
<1> QED  BY <1>2, <1>6, <1>7, <1>8 DEF P

\* What is kept is what there was and is in the set, no more often, in its order.
LEMMA OnlyKeeps ==
  ASSUME NEW U, NEW list \in Seq(U), NEW S
  PROVE  /\ Only(list, S) \in Seq(U)
         /\ \A x : Holds(Only(list, S), x) <=> Holds(list, x) /\ x \in S
         /\ Distinct(list) => Distinct(Only(list, S))
<1> DEFINE short == Only(list, S)
<1>1. short \in Seq(U) /\ Len(short) \in Nat /\ Len(list) \in Nat  BY OnlyTakes
<1>2. PICK e : Taken(e, short, list, Len(list), S)  BY OnlyTakes
<1>3. DOMAIN short = 1..Len(short) /\ DOMAIN list = 1..Len(list)  BY <1>1
<1> HIDE DEF short
<1>4. \A k \in 1..Len(short) :
        e[k] \in 1..Len(list) /\ short[k] = list[e[k]] /\ list[e[k]] \in S
  BY <1>2 DEF Taken
<1>5. ASSUME NEW x
      PROVE  Holds(short, x) <=> Holds(list, x) /\ x \in S
  <2>1. ASSUME Holds(short, x) PROVE Holds(list, x) /\ x \in S
    BY <1>3, <1>4, <2>1 DEF Holds
  <2>2. ASSUME Holds(list, x), x \in S PROVE Holds(short, x)
    <3>1. PICK i \in 1..Len(list) : list[i] = x  BY <1>3, <2>2 DEF Holds
    <3>2. PICK k \in 1..Len(short) : e[k] = i  BY <1>2, <2>2, <3>1 DEF Taken
    <3> QED  BY <1>3, <1>4, <3>1, <3>2 DEF Holds
  <2> QED  BY <2>1, <2>2
<1>6. ASSUME Distinct(list), NEW k \in DOMAIN short, NEW m \in DOMAIN short,
             short[k] = short[m]
      PROVE  k = m
  <2>1. k \in 1..Len(short) /\ m \in 1..Len(short)  BY <1>3
  <2>2. e[k] = e[m]  BY <1>3, <1>4, <1>6, <2>1 DEF Distinct
  <2>3. e[k] \in Nat /\ e[m] \in Nat  BY <1>1, <1>4, <2>1
  <2>4. ~(k < m) /\ ~(m < k)  BY <1>2, <2>1, <2>2, <2>3 DEF Taken
  <2> QED  BY <1>1, <2>1, <2>4
<1>7. Distinct(list) => Distinct(short)  BY <1>6 DEF Distinct
<1> QED  BY <1>1, <1>5, <1>7 DEF short

\* A list without repetitions is as long as it has elements.
LEMMA DistinctSize ==
  ASSUME NEW U, NEW list \in Seq(U), Distinct(list), NEW T, \A x : x \in T <=> Holds(list, x)
  PROVE  IsFiniteSet(T) /\ Cardinality(T) = Len(list)
<1>1. Len(list) \in Nat /\ DOMAIN list = 1..Len(list)  OBVIOUS
<1>2. IsFiniteSet(1..Len(list)) /\ Cardinality(1..Len(list)) = Len(list)
  BY <1>1, FS_Interval
<1> DEFINE f == [i \in 1..Len(list) |-> list[i]]
<1>3. f \in [1..Len(list) -> T]  BY <1>1 DEF Holds
<1>4. \A x \in T : \E i \in 1..Len(list) : f[i] = x  BY <1>1 DEF Holds
<1>5. \A i, j \in 1..Len(list) : f[i] = f[j] => i = j  BY <1>1 DEF Distinct
<1> HIDE DEF f
<1>6. f \in Bijection(1..Len(list), T)
  BY <1>3, <1>4, <1>5, Zenon DEF Bijection, Injection, Surjection, IsInjective
<1>7. ExistsBijection(1..Len(list), T)  BY <1>6 DEF ExistsBijection
<1> QED  BY <1>2, <1>7, FS_Bijection

\* One list after another.
LEMMA JoinKeeps ==
  ASSUME NEW U, NEW a \in Seq(U), NEW b \in Seq(U)
  PROVE  /\ a \o b \in Seq(U) /\ Len(a \o b) = Len(a) + Len(b)
         /\ \A i \in 1..Len(a) : (a \o b)[i] = a[i]
         /\ \A i \in 1..Len(b) : (a \o b)[Len(a) + i] = b[i]
         /\ \A x : Holds(a \o b, x) <=> Holds(a, x) \/ Holds(b, x)
         /\ Distinct(a) /\ Distinct(b) /\ (\A x : ~(Holds(a, x) /\ Holds(b, x)))
              => Distinct(a \o b)
<1> DEFINE c == a \o b
           n == Len(a)
           m == Len(b)
<1>1. n \in Nat /\ m \in Nat /\ DOMAIN a = 1..n /\ DOMAIN b = 1..m  OBVIOUS
<1>2. c \in Seq(U) /\ Len(c) = n + m /\ DOMAIN c = 1..(n + m)  OBVIOUS
<1>3. \A i \in 1..n : c[i] = a[i]  OBVIOUS
<1>4. \A i \in 1..m : c[n + i] = b[i]  OBVIOUS
<1> HIDE DEF c, n, m
<1>5. \A i \in 1..(n + m) : i \in 1..n \/ (i - n \in 1..m /\ i = n + (i - n))  BY <1>1
<1>6. /\ \A i \in 1..n : i \in 1..(n + m)
      /\ \A i \in 1..m : n + i \in 1..(n + m)
  BY <1>1
<1>7. ASSUME NEW x
      PROVE  Holds(c, x) <=> Holds(a, x) \/ Holds(b, x)
  <2>1. Holds(a, x) => Holds(c, x)  BY <1>1, <1>2, <1>3, <1>6 DEF Holds
  <2>2. Holds(b, x) => Holds(c, x)  BY <1>1, <1>2, <1>4, <1>6 DEF Holds
  <2>3. ASSUME NEW i \in 1..(n + m), c[i] = x
        PROVE  Holds(a, x) \/ Holds(b, x)
    <3>1. CASE i \in 1..n  BY <1>1, <1>3, <2>3, <3>1 DEF Holds
    <3>2. CASE i - n \in 1..m /\ i = n + (i - n)
      <4>1. b[i - n] = x  BY <1>4, <2>3, <3>2
      <4> QED  BY <1>1, <3>2, <4>1 DEF Holds
    <3> QED  BY <1>5, <3>1, <3>2
  <2> QED  BY <1>2, <2>1, <2>2, <2>3 DEF Holds
<1>8. ASSUME Distinct(a), Distinct(b), \A x : ~(Holds(a, x) /\ Holds(b, x)),
             NEW i \in 1..(n + m), NEW j \in 1..(n + m), c[i] = c[j]
      PROVE  i = j
  <2>1. CASE i \in 1..n /\ j \in 1..n  BY <1>1, <1>3, <1>8, <2>1 DEF Distinct
  <2>2. CASE i \in 1..n /\ j - n \in 1..m /\ j = n + (j - n)
    <3>1. c[i] = a[i] /\ c[j] = b[j - n]  BY <1>3, <1>4, <2>2
    <3>2. Holds(a, a[i]) /\ Holds(b, b[j - n])  BY <1>1, <2>2 DEF Holds
    <3> QED  BY <1>8, <3>1, <3>2
  <2>3. CASE j \in 1..n /\ i - n \in 1..m /\ i = n + (i - n)
    <3>1. c[j] = a[j] /\ c[i] = b[i - n]  BY <1>3, <1>4, <2>3
    <3>2. Holds(a, a[j]) /\ Holds(b, b[i - n])  BY <1>1, <2>3 DEF Holds
    <3> QED  BY <1>8, <3>1, <3>2
  <2>4. CASE /\ i - n \in 1..m /\ i = n + (i - n)
             /\ j - n \in 1..m /\ j = n + (j - n)
    <3>1. c[i] = b[i - n] /\ c[j] = b[j - n]  BY <1>4, <2>4
    <3>2. i - n = j - n  BY <1>1, <1>8, <2>4, <3>1 DEF Distinct
    <3> QED  BY <2>4, <3>2
  <2> QED  BY <1>5, <2>1, <2>2, <2>3, <2>4
<1>9. Distinct(a) /\ Distinct(b) /\ (\A x : ~(Holds(a, x) /\ Holds(b, x))) => Distinct(c)
  BY <1>2, <1>8 DEF Distinct
<1> QED  BY <1>2, <1>3, <1>4, <1>7, <1>9 DEF c, n, m

-----------------------------------------------------------------------------
(* Gates *)

\* A result is what its check found in a world it could read.
Found(c, w) ==
  /\ c.critical <=> c.name \in Gate!Names
  /\ c.critical => (c.passed <=> Gate!Passes(c.name, w))
  /\ ~Gate!Raises(c.name, w)

\* A live holder let go of the GPU lock.
Released == \E w, v \in was : w.lock = "alive" /\ v.lock # "alive"

\* What the looks at the lock file came to.
LockFound(c) ==
  IF c.passed \/ ~c.critical
  THEN \E w \in was : w.lock \in {"unset", "absent", "alive"}
  ELSE (\E w \in was : w.lock \in {"empty", "json", "dead"}) \/ Released

\* A check that is made before the gate is done.
Owed(name) == Gate!Made(name) \/ Holds(left, name)

\* Worlds that the gate can see, which differ in what a run does not change.
GateTyped ==
  /\ gate \in {"gains", "cardio", "integrity", "action"}
  /\ world \in was /\ was \subseteq Gate!Seen(gate)
  /\ \A w \in was :
       w.reviews = world.reviews /\ w.fallen = world.fallen /\ w.matched = world.matched
  /\ left \in Seq(Gate!Name)
  /\ checks \in Seq([name : Gate!Name, passed : BOOLEAN, critical : BOOLEAN])

\* Each result is what its check found.
GateFound ==
  \A i \in DOMAIN checks :
    IF checks[i].name = "gpu_lock_stale" THEN LockFound(checks[i])
    ELSE \E w \in was : Found(checks[i], w)

\* What the check of the lock file has seen so far.
GateLooks ==
  /\ look \in {"none", "seen", "read"}
  /\ look # "none" => verdict = "none" /\ left # <<>> /\ Head(left) = "gpu_lock_stale"
  /\ look = "seen" => \E w \in was : w.lock \notin {"unset", "absent"}
  /\ look = "read" => \E w \in was : w.lock = "alive"

\* The checks that the gate must make, and those it does not.
GateOwes ==
  /\ gate \in {"gains", "cardio"} => Owed("state_backend") /\ Owed("evidence_store")
  /\ gate = "cardio" => Owed("rate_limit")
  /\ gate = "action" => \A n \in Gate!Invariant : Owed(n)
  /\ gate = "integrity" => (Owed("service_health") => \A n \in Gate!Counter : Owed(n))
  /\ gate \in {"gains", "action"} =>
       \A n \in Gate!Counter \cup {"rate_limit"} : ~Holds(left, n)

\* What a verdict says.
GateSays ==
  /\ verdict \in {"none", "pass", "fail", "raised"}
  /\ verdict = "pass" =>
       left = <<>> /\ \A i \in DOMAIN checks : checks[i].critical => checks[i].passed
  /\ verdict = "fail" =>
       \E i \in DOMAIN checks : checks[i].critical /\ ~checks[i].passed
  /\ verdict = "raised" => left # <<>> /\ Gate!Raises(Head(left), world)

GateInv == GateTyped /\ GateFound /\ GateLooks /\ GateOwes /\ GateSays

\* A sequence with one more at its end.
LEMMA Appended ==
  ASSUME NEW S, NEW list \in Seq(S), NEW e \in S
  PROVE  /\ Append(list, e) \in Seq(S)
         /\ Len(list) \in Nat /\ DOMAIN list = 1..Len(list)
         /\ DOMAIN Append(list, e) = 1..(Len(list) + 1)
         /\ Append(list, e)[Len(list) + 1] = e
         /\ \A i \in 1..Len(list) : Append(list, e)[i] = list[i]
         /\ \A i \in DOMAIN Append(list, e) : i \in DOMAIN list \/ i = Len(list) + 1
<1>1. Append(list, e) \in Seq(S)  OBVIOUS
<1>2. Len(list) \in Nat /\ DOMAIN list = 1..Len(list)  OBVIOUS
<1>3. DOMAIN Append(list, e) = 1..(Len(list) + 1)  OBVIOUS
<1>4. Append(list, e)[Len(list) + 1] = e  OBVIOUS
<1>5. \A i \in 1..Len(list) : Append(list, e)[i] = list[i]  OBVIOUS
<1>6. \A i \in 1..(Len(list) + 1) : i \in 1..Len(list) \/ i = Len(list) + 1  BY <1>2
<1> QED  BY <1>1, <1>2, <1>3, <1>4, <1>5, <1>6

\* What each check looks at, by its name.
LEMMA PassesBy ==
  ASSUME NEW n, NEW w
  PROVE  /\ n \in {"state_backend", "service_health"} => (Gate!Passes(n, w) <=> w.up)
         /\ n \in {"evidence_store", "evidence_operational"} => (Gate!Passes(n, w) <=> w.store)
         /\ n = "critical_findings" => (Gate!Passes(n, w) <=> (w.up => w.found # "some"))
         /\ n = "rate_limit" => (Gate!Passes(n, w) <=> w.reviews = "below")
         /\ n \in Gate!Counter => (Gate!Passes(n, w) <=> n \notin w.fallen)
         /\ n \in Gate!Invariant => (Gate!Passes(n, w) <=> n \notin w.matched)
<1> DEFINE up == w.up
           store == w.store
           found == w.up => w.found # "some"
           reviews == w.reviews = "below"
           counter == n \notin w.fallen
           text == n \notin w.matched
<1>1. Gate!Passes(n, w) =
        CASE n \in {"state_backend", "service_health"}        -> up
          [] n \in {"evidence_store", "evidence_operational"} -> store
          [] n = "critical_findings" -> found
          [] n = "rate_limit"        -> reviews
          [] n \in Gate!Counter      -> counter
          [] n \in Gate!Invariant    -> text
  BY DEF Gate!Passes
<1> HIDE DEF up, store, found, reviews, counter, text
<1>2. n \in {"state_backend", "service_health"} => (Gate!Passes(n, w) <=> up)
  BY <1>1 DEF Gate!Counter, Gate!Invariant
<1>3. n \in {"evidence_store", "evidence_operational"} => (Gate!Passes(n, w) <=> store)
  BY <1>1 DEF Gate!Counter, Gate!Invariant
<1>5. n = "critical_findings" => (Gate!Passes(n, w) <=> found)
  BY <1>1 DEF Gate!Counter, Gate!Invariant
<1>6. n = "rate_limit" => (Gate!Passes(n, w) <=> reviews)
  BY <1>1 DEF Gate!Counter, Gate!Invariant
<1>7. n \in Gate!Counter => (Gate!Passes(n, w) <=> counter)
  BY <1>1 DEF Gate!Counter, Gate!Invariant
<1>8. n \in Gate!Invariant => (Gate!Passes(n, w) <=> text)
  BY <1>1 DEF Gate!Counter, Gate!Invariant
<1> QED
  BY <1>2, <1>3, <1>5, <1>6, <1>7, <1>8, Zenon
     DEF up, store, found, reviews, counter, text

\* What was there is there with one more.
LEMMA WithKeeps ==
  ASSUME NEW S, NEW list \in Seq(S), NEW name \in S
  PROVE  /\ Gate!With(list, name) \in Seq(S)
         /\ Holds(Gate!With(list, name), name)
         /\ \A n : Holds(list, n) => Holds(Gate!With(list, name), n)
         /\ \A n : Holds(Gate!With(list, name), n) => n = name \/ Holds(list, n)
<1>1. CASE (name \in Gate!Range(list))
  <2>1. Gate!With(list, name) = list  BY <1>1 DEF Gate!With
  <2>2. DOMAIN list = 1..Len(list)  OBVIOUS
  <2>3. Holds(list, name)  BY <1>1, <2>2, Zenon DEF Gate!Range, Holds
  <2> QED  BY <2>1, <2>3
<1>2. CASE ~(name \in Gate!Range(list))
  <2>1. Gate!With(list, name) = Append(list, name)  BY <1>2 DEF Gate!With
  <2>2. Len(list) + 1 \in 1..(Len(list) + 1) /\ \A i \in 1..Len(list) : i \in 1..(Len(list) + 1)
    BY Appended
  <2> DEFINE more == Append(list, name)
  <2>3. /\ more \in Seq(S) /\ DOMAIN list = 1..Len(list)
        /\ DOMAIN more = 1..(Len(list) + 1) /\ more[Len(list) + 1] = name
        /\ \A i \in 1..Len(list) : more[i] = list[i]
        /\ \A i \in DOMAIN more : i \in DOMAIN list \/ i = Len(list) + 1
    BY Appended
  <2>4. Gate!With(list, name) = more  BY <2>1
  <2> HIDE DEF more
  <2> QED  BY <2>2, <2>3, <2>4 DEF Holds
<1> QED  BY <1>1, <1>2

\* GainsGate makes the two that it always includes, and no other that is not asked for.
LEMMA Included ==
  ASSUME NEW list \in Lists
  PROVE  /\ Gate!GainsChecks(list) \in Seq(Gate!Name)
         /\ Holds(Gate!GainsChecks(list), "state_backend")
         /\ Holds(Gate!GainsChecks(list), "evidence_store")
         /\ \A n \in Gate!Counter \cup {"rate_limit"} : ~Holds(Gate!GainsChecks(list), n)
<1> DEFINE first == Gate!With(list, "state_backend")
           both == Gate!With(first, "evidence_store")
<1>1. list \in Seq(Gate!Name)
  <2>1. list \in Seq(STRING)  BY ServicesAssumption DEF ServicesAssumption
  <2>2. \A i \in DOMAIN list : list[i] \in Gate!Name  BY DEF Gate!Name, Gate!Range
  <2> QED  BY <2>1, <2>2
<1>2. \A n \in Gate!Counter \cup {"rate_limit"} : ~Holds(list, n)
  BY ServicesAssumption DEF ServicesAssumption, Gate!Counter, Holds
<1>3. "state_backend" \in Gate!Name /\ "evidence_store" \in Gate!Name  BY DEF Gate!Name, Gate!Names
<1>4. \A n \in Gate!Counter \cup {"rate_limit"} : n # "state_backend" /\ n # "evidence_store"
  BY DEF Gate!Counter
<1>5. Gate!GainsChecks(list) = both  BY DEF Gate!GainsChecks
<1>6. /\ first \in Seq(Gate!Name) /\ Holds(first, "state_backend")
      /\ \A n : Holds(first, n) => n = "state_backend" \/ Holds(list, n)
  BY <1>1, <1>3, WithKeeps, Zenon
<1> HIDE DEF first
<1>7. /\ both \in Seq(Gate!Name) /\ Holds(both, "evidence_store")
      /\ \A n : Holds(first, n) => Holds(both, n)
      /\ \A n : Holds(both, n) => n = "evidence_store" \/ Holds(first, n)
  BY <1>6, <1>3, WithKeeps, Zenon
<1> HIDE DEF both
<1> QED  BY <1>2, <1>4, <1>5, <1>6, <1>7, Zenon

\* What a sequence holds behind a first element.
LEMMA Prefixed ==
  ASSUME NEW S, NEW e \in S, NEW list \in Seq(S)
  PROVE  /\ <<e>> \o list \in Seq(S)
         /\ Holds(<<e>> \o list, e)
         /\ \A n : Holds(list, n) => Holds(<<e>> \o list, n)
<1>1. <<e>> \o list \in Seq(S)  OBVIOUS
<1>2. Len(list) \in Nat /\ DOMAIN list = 1..Len(list)  OBVIOUS
<1>3. DOMAIN (<<e>> \o list) = 1..(Len(list) + 1)  OBVIOUS
<1>4. (<<e>> \o list)[1] = e  BY <1>2
<1>5. \A i \in 1..Len(list) : (<<e>> \o list)[i + 1] = list[i]  BY <1>2
<1>6. \A i \in 1..Len(list) : i + 1 \in 1..(Len(list) + 1)  BY <1>2
<1>7. 1 \in 1..(Len(list) + 1)  BY <1>2
<1>8. Holds(<<e>> \o list, e)  BY <1>3, <1>4, <1>7 DEF Holds
<1>9. \A n : Holds(list, n) => Holds(<<e>> \o list, n)  BY <1>2, <1>3, <1>5, <1>6 DEF Holds
<1> QED  BY <1>1, <1>8, <1>9

\* A gate begins in a world that is as it sees it, with the checks that it owes.
LEMMA GateStarts ==
  ASSUME Gate!Init
  PROVE  GateInv
<1>1. /\ world \in Gate!Seen(gate) /\ was = {world} /\ checks = <<>> /\ verdict = "none"
      /\ gate \in {"gains", "cardio", "integrity", "action"}
  BY DEF Gate!Init
<1>2. GateFound  BY <1>1 DEF GateFound
<1>3. GateSays  BY <1>1 DEF GateSays
<1>6. look = "none"  BY DEF Gate!Init
<1>7. GateLooks  BY <1>6 DEF GateLooks
<1>4. left \in Seq(Gate!Name) /\ GateOwes
  <2>1. CASE gate = "gains"
    <3>1. PICK list \in Lists : left = Gate!GainsChecks(list)  BY <2>1 DEF Gate!Init
    <3>2. gate # "action" /\ gate # "integrity" /\ gate # "cardio"  BY <2>1
    <3> QED  BY <3>1, <3>2, Included, Zenon DEF GateOwes, Owed
  <2>2. CASE gate = "cardio"
    <3>1. PICK list \in Lists : left = <<"rate_limit">> \o Gate!GainsChecks(list)
      BY <2>2 DEF Gate!Init
    <3>2. "rate_limit" \in Gate!Name  BY DEF Gate!Name, Gate!Names
    <3>3. /\ left \in Seq(Gate!Name)
          /\ Holds(left, "rate_limit")
          /\ \A n : Holds(Gate!GainsChecks(list), n) => Holds(left, n)
      BY <3>1, <3>2, Included, Prefixed, Zenon
    <3>4. Holds(left, "state_backend") /\ Holds(left, "evidence_store")
      BY <3>3, Included, Zenon
    <3>5. gate # "gains" /\ gate # "action" /\ gate # "integrity"  BY <2>2
    <3> QED  BY <3>3, <3>4, <3>5, Zenon DEF GateOwes, Owed
  <2>3. CASE gate = "integrity"
    <3> DEFINE a == <<"events_monotonic", "learnings_preserved", "evidence_grades_preserved",
                      "service_health">>
               z == <<"evidence_operational">>
    <3>1. left \in Gate!IntegrityChecks  BY <2>3 DEF Gate!Init
    <3>2. \/ left = <<"integrity_skipped">> \o <<>> \/ left = <<"integrity_skipped">> \o z
          \/ left = a \o <<>> \/ left = a \o z
      BY <3>1 DEF Gate!IntegrityChecks
    <3>3. \/ left = <<"integrity_skipped">>
          \/ left = <<"integrity_skipped", "evidence_operational">>
          \/ left = a
          \/ left = <<"events_monotonic", "learnings_preserved", "evidence_grades_preserved",
                      "service_health", "evidence_operational">>
      BY <3>2
    <3>4. /\ "integrity_skipped" \in Gate!Name /\ "evidence_operational" \in Gate!Name
          /\ "events_monotonic" \in Gate!Name /\ "learnings_preserved" \in Gate!Name
          /\ "evidence_grades_preserved" \in Gate!Name /\ "service_health" \in Gate!Name
      BY DEF Gate!Name, Gate!Names, Gate!Counter
    <3>5. left \in Seq(Gate!Name)
      <4>1. CASE left = <<"integrity_skipped">>  BY <3>4, <4>1
      <4>2. CASE left = <<"integrity_skipped", "evidence_operational">>  BY <3>4, <4>2
      <4>3. CASE left = a  BY <3>4, <4>3
      <4>4. CASE left = <<"events_monotonic", "learnings_preserved",
                          "evidence_grades_preserved", "service_health",
                          "evidence_operational">>
        BY <3>4, <4>4
      <4> QED  BY <3>3, <4>1, <4>2, <4>3, <4>4
    <3>6. Owed("service_health") => \A n \in Gate!Counter : Owed(n)
      <4>1. ~Gate!Made("service_health")  BY <1>1 DEF Gate!Made
      <4>2. CASE \/ left = <<"integrity_skipped">>
                 \/ left = <<"integrity_skipped", "evidence_operational">>
        BY <4>1, <4>2 DEF Owed, Holds
      <4>3. CASE \/ left = a
                 \/ left = <<"events_monotonic", "learnings_preserved",
                             "evidence_grades_preserved", "service_health",
                             "evidence_operational">>
        <5>1. /\ {1, 2, 3} \subseteq DOMAIN left /\ left[1] = "events_monotonic"
              /\ left[2] = "learnings_preserved" /\ left[3] = "evidence_grades_preserved"
          BY <4>3
        <5> QED  BY <5>1 DEF Owed, Holds, Gate!Counter
      <4> QED  BY <3>3, <4>2, <4>3
    <3>7. gate # "gains" /\ gate # "action" /\ gate # "cardio"  BY <2>3
    <3> QED  BY <3>5, <3>6, <3>7, Zenon DEF GateOwes
  <2>4. CASE gate = "action"
    <3>1. left = <<"destructive", "bypass", "gate_logic", "force_push">>
      BY <2>4 DEF Gate!Init, Gate!ActionChecks
    <3>2. left \in Seq(Gate!Name)  BY <3>1 DEF Gate!Name, Gate!Names, Gate!Invariant
    <3>3. /\ {1, 2, 3, 4} \subseteq DOMAIN left /\ left[1] = "destructive"
          /\ left[2] = "bypass" /\ left[3] = "gate_logic" /\ left[4] = "force_push"
      BY <3>1
    <3>4. \A n \in Gate!Invariant : Owed(n)  BY <3>3 DEF Owed, Holds, Gate!Invariant
    <3>5. \A n \in Gate!Counter \cup {"rate_limit"} : ~Holds(left, n)
      BY <3>1 DEF Gate!Counter, Holds
    <3>6. gate # "gains" /\ gate # "integrity" /\ gate # "cardio"  BY <2>4
    <3> QED  BY <3>2, <3>4, <3>5, <3>6, Zenon DEF GateOwes
  <2> QED  BY <1>1, <2>1, <2>2, <2>3, <2>4
<1>5. checks \in Seq([name : Gate!Name, passed : BOOLEAN, critical : BOOLEAN])  BY <1>1
<1> QED  BY <1>1, <1>2, <1>3, <1>4, <1>5, <1>7 DEF GateInv, GateTyped

\* A rate limit that is not read over its limit, or counters that fall: only
\* where nothing else would have been the matter can they be.
LEMMA SeenWorlds ==
  ASSUME NEW g, NEW w \in Gate!Seen(g)
  PROVE  /\ w \in Gate!World
         /\ g # "cardio" => w.reviews = "below"
         /\ g # "integrity" => w.fallen = {}
         /\ g # "action" => w.matched = {}
BY DEF Gate!Seen

\* The first check is made, and the others are those there were.
LEMMA NextCheck ==
  ASSUME GateTyped, left # <<>>
  PROVE  /\ Head(left) \in Gate!Name /\ Tail(left) \in Seq(Gate!Name)
         /\ Holds(left, Head(left))
         /\ \A n : Holds(left, n) => n = Head(left) \/ Holds(Tail(left), n)
         /\ \A n : Holds(Tail(left), n) => Holds(left, n)
<1>1. left \in Seq(Gate!Name)  BY DEF GateTyped
<1>2. Len(left) \in Nat /\ Len(left) > 0 /\ DOMAIN left = 1..Len(left)  BY <1>1
<1>3. Head(left) = left[1] /\ Tail(left) \in Seq(Gate!Name) /\ Len(Tail(left)) = Len(left) - 1
  BY <1>1
<1>4. DOMAIN Tail(left) = 1..(Len(left) - 1)  BY <1>1
<1>5. \A i \in 1..(Len(left) - 1) : Tail(left)[i] = left[i + 1]  BY <1>1
<1>6. Head(left) \in Gate!Name  BY <1>1, <1>2, <1>3
<1>7. \A i \in 1..(Len(left) - 1) : i + 1 \in 1..Len(left)  BY <1>2
<1>8. \A i \in 1..Len(left) : i = 1 \/ (i - 1 \in 1..(Len(left) - 1) /\ i = (i - 1) + 1)  BY <1>2
<1>9. 1 \in 1..Len(left)  BY <1>2
<1>10. Holds(left, Head(left))  BY <1>2, <1>3, <1>9 DEF Holds
<1>11. \A n : Holds(Tail(left), n) => Holds(left, n)
  BY <1>2, <1>4, <1>5, <1>7 DEF Holds
<1>12. \A n : Holds(left, n) => n = Head(left) \/ Holds(Tail(left), n)
  <2>1. SUFFICES ASSUME NEW i \in 1..Len(left), i # 1
                 PROVE  Holds(Tail(left), left[i])
    BY <1>2, <1>3 DEF Holds
  <2>2. i - 1 \in 1..(Len(left) - 1) /\ i = (i - 1) + 1  BY <1>8, <2>1
  <2>3. Tail(left)[i - 1] = left[i]  BY <1>5, <2>2
  <2> QED  BY <1>4, <2>2, <2>3 DEF Holds
<1> QED  BY <1>3, <1>6, <1>10, <1>11, <1>12

\* What is not made, while the gate keeps what it has, leaves the invariant.
LEMMA GateSame ==
  ASSUME GateInv, UNCHANGED <<gate, world, left, checks, was>>, GateLooks', GateSays'
  PROVE  GateInv'
<1>1. GateTyped'  BY DEF GateInv, GateTyped
<1>2. GateFound'
  <2>1. SUFFICES ASSUME NEW i \in DOMAIN checks
                 PROVE  IF checks[i].name = "gpu_lock_stale" THEN LockFound(checks[i])
                        ELSE \E w \in was : Found(checks[i], w)
    BY DEF GateFound, LockFound, Released
  <2> QED  BY DEF GateInv, GateFound
<1>3. \A n : Owed(n)' <=> Owed(n)  BY DEF Owed, Holds, Gate!Made
<1>4. \A n : Holds(left, n)' <=> Holds(left, n)  BY DEF Holds
<1>5. GateOwes'  BY <1>3, <1>4, Zenon DEF GateInv, GateOwes
<1> QED  BY <1>1, <1>2, <1>5 DEF GateInv

\* A check that is made is owed no more, and its result is as it found it.
LEMMA GateReports ==
  ASSUME GateInv, NEW passed \in BOOLEAN, NEW critical \in BOOLEAN, NEW name,
         verdict = "none", left # <<>>, name = Head(left),
         Gate!Report(passed, critical),
         LET c == [name |-> name, passed |-> passed, critical |-> critical]
         IN IF name = "gpu_lock_stale" THEN LockFound(c) ELSE Found(c, world)
  PROVE  GateInv'
<1> DEFINE R == [name : Gate!Name, passed : BOOLEAN, critical : BOOLEAN]
           c == [name |-> name, passed |-> passed, critical |-> critical]
<1>1. /\ left' = Tail(left) /\ look' = "none"
      /\ checks' = Append(checks, c)
      /\ UNCHANGED <<gate, world, verdict, was>>
  BY DEF Gate!Report
<1>2. name \in Gate!Name /\ Tail(left) \in Seq(Gate!Name)
  BY NextCheck, Zenon DEF GateInv
<1>3. /\ Holds(left, name)
      /\ \A n : Holds(left, n) => n = name \/ Holds(Tail(left), n)
      /\ \A n : Holds(Tail(left), n) => Holds(left, n)
  BY NextCheck, Zenon DEF GateInv
<1>4. c \in R /\ c.name = name  BY <1>2
<1>5. IF c.name = "gpu_lock_stale" THEN LockFound(c) ELSE Found(c, world)
  BY <1>4, Zenon
<1>10. checks \in Seq(R)  BY DEF GateInv, GateTyped
<1> HIDE DEF c, R
<1>11. /\ checks' \in Seq(R)
       /\ DOMAIN checks = 1..Len(checks) /\ Len(checks) \in Nat
       /\ DOMAIN checks' = 1..(Len(checks) + 1)
       /\ checks'[Len(checks) + 1] = c
       /\ \A i \in 1..Len(checks) : checks'[i] = checks[i]
       /\ \A i \in DOMAIN checks' : i \in DOMAIN checks \/ i = Len(checks) + 1
  BY <1>1, <1>4, <1>10, Appended
<1>12. Gate!Made(name)' /\ \A n : Gate!Made(n) => Gate!Made(n)'
  <2>1. Len(checks) + 1 \in DOMAIN checks' /\ checks'[Len(checks) + 1].name = name
    BY <1>4, <1>11
  <2>2. \A i \in DOMAIN checks : i \in DOMAIN checks' /\ checks'[i] = checks[i]
    BY <1>11
  <2>3. Gate!Made(name)'  BY <2>1 DEF Gate!Made
  <2>4. \A n : Gate!Made(n) => Gate!Made(n)'  BY <2>2 DEF Gate!Made
  <2> QED  BY <2>3, <2>4
<1>13. \A n : Gate!Made(n)' => Gate!Made(n) \/ n = name
  BY <1>4, <1>11 DEF Gate!Made
<1>14. \A n : Owed(n)' <=> Owed(n)
  <2>1. \A n : Holds(left, n)' <=> Holds(Tail(left), n)  BY <1>1 DEF Holds
  <2> QED  BY <2>1, <1>3, <1>12, <1>13, Zenon DEF Owed
<1>15. GateTyped'
  BY <1>1, <1>2, <1>11 DEF GateInv, GateTyped, R
<1>16. GateFound'
  <2>1. SUFFICES ASSUME NEW i \in DOMAIN checks'
                 PROVE  IF checks'[i].name = "gpu_lock_stale" THEN LockFound(checks'[i])
                        ELSE \E w \in was : Found(checks'[i], w)
    BY <1>1 DEF GateFound, LockFound, Released
  <2>2. CASE i = Len(checks) + 1
    <3>1. checks'[i] = c /\ world \in was  BY <1>11, <2>2 DEF GateInv, GateTyped
    <3> QED  BY <1>5, <3>1
  <2>3. CASE i \in DOMAIN checks
    <3>1. checks'[i] = checks[i]  BY <1>11, <2>3
    <3> QED  BY <2>3, <3>1 DEF GateInv, GateFound
  <2> QED  BY <1>11, <2>2, <2>3
<1>17. GateOwes'
  <2>1. \A n : Holds(left, n)' => Holds(left, n)
    <3>1. \A n : Holds(left, n)' <=> Holds(Tail(left), n)  BY <1>1 DEF Holds
    <3> QED  BY <1>3, <3>1, Zenon
  <2> QED  BY <1>1, <1>14, <2>1, Zenon DEF GateInv, GateOwes
<1>18. GateSays'  BY <1>1 DEF GateInv, GateSays
<1>19. GateLooks'  BY <1>1 DEF GateLooks
<1> QED  BY <1>15, <1>16, <1>17, <1>18, <1>19 DEF GateInv

\* A check of one look finds what it passes by.
LEMMA GateChecks ==
  ASSUME GateInv, Gate!Check
  PROVE  GateInv'
<1>0. PICK name : name = Head(left)  OBVIOUS
<1>1. /\ verdict = "none" /\ left # <<>> /\ ~Gate!Raises(name, world)
      /\ name # "gpu_lock_stale"
  BY <1>0 DEF Gate!Check
<1>2. PICK passed \in Gate!Answers(name) : Gate!Report(passed, name \in Gate!Names)
  BY <1>0, Zenon DEF Gate!Check
<1>3. /\ passed \in BOOLEAN
      /\ name \in Gate!Names => (passed <=> Gate!Passes(name, world))
  <2>1. CASE name \in Gate!Names
    <3>1. name \notin Gate!Probe /\ name # "integrity_skipped"
      BY <2>1 DEF Gate!Names, Gate!Counter, Gate!Invariant, Gate!Probe
    <3>2. Gate!Answers(name) = {Gate!Passes(name, world)}
      BY <2>1, <3>1 DEF Gate!Answers
    <3>3. passed = Gate!Passes(name, world)  BY <3>2
    <3>5. world.up \in BOOLEAN /\ world.store \in BOOLEAN
      BY DEF GateInv, GateTyped, Gate!Seen, Gate!World
    <3>4. Gate!Passes(name, world) \in BOOLEAN
      <4>1. CASE name \in Gate!Counter
        BY <4>1 DEF Gate!Passes, Gate!Counter, Gate!Invariant
      <4>2. CASE name \in Gate!Invariant
        BY <4>2 DEF Gate!Passes, Gate!Counter, Gate!Invariant
      <4>3. CASE name = "state_backend"  BY <3>5, <4>3 DEF Gate!Passes
      <4>4. CASE name = "service_health"  BY <3>5, <4>4 DEF Gate!Passes
      <4>5. CASE name = "evidence_store"  BY <3>5, <4>5 DEF Gate!Passes
      <4>6. CASE name = "evidence_operational"  BY <3>5, <4>6 DEF Gate!Passes
      <4>8. CASE name = "critical_findings"  BY <3>5, <4>8 DEF Gate!Passes
      <4>9. CASE name = "rate_limit"  BY <4>9 DEF Gate!Passes
      <4> QED
        BY <1>1, <2>1, <4>1, <4>2, <4>3, <4>4, <4>5, <4>6, <4>8, <4>9 DEF Gate!Names
    <3> QED  BY <3>3, <3>4, Zenon
  <2>2. CASE name \notin Gate!Names
    <3>1. passed \in BOOLEAN  BY <2>2 DEF Gate!Answers
    <3> QED  BY <2>2, <3>1
  <2> QED  BY <2>1, <2>2
<1>4. PICK critical \in BOOLEAN : critical = (name \in Gate!Names)
  <2>1. (name \in Gate!Names) \in BOOLEAN  OBVIOUS
  <2> QED  BY <2>1, Zenon
<1> DEFINE c == [name |-> name, passed |-> passed, critical |-> critical]
<1>5. /\ c.name = name /\ c.passed = passed /\ c.critical = critical  OBVIOUS
<1> HIDE DEF c
<1>6. critical <=> name \in Gate!Names  BY <1>4, Zenon
<1>7. Found(c, world)  BY <1>1, <1>3, <1>5, <1>6, Zenon DEF Found
<1>8. Gate!Report(passed, critical)  BY <1>2, <1>4, Zenon
<1> USE DEF c
<1>9. IF name = "gpu_lock_stale" THEN LockFound(c) ELSE Found(c, world)
  BY <1>1, <1>7, Zenon
<1> QED  BY <1>0, <1>1, <1>3, <1>8, <1>9, GateReports

\* And so do the three looks at the lock file, with a holder's release between them.
LEMMA LooksReport ==
  ASSUME GateInv, verdict = "none", left # <<>>, Head(left) = "gpu_lock_stale",
         NEW passed \in BOOLEAN, NEW critical \in BOOLEAN, Gate!Report(passed, critical),
         IF passed \/ ~critical
         THEN \E w \in was : w.lock \in {"unset", "absent", "alive"}
         ELSE (\E w \in was : w.lock \in {"empty", "json", "dead"}) \/ Released
  PROVE  GateInv'
<1> DEFINE name == "gpu_lock_stale"
           c == [name |-> name, passed |-> passed, critical |-> critical]
<1>1. c.passed = passed /\ c.critical = critical  OBVIOUS
<1>2. LockFound(c)  BY <1>1, Zenon DEF LockFound
<1>3. IF name = "gpu_lock_stale" THEN LockFound(c) ELSE Found(c, world)  BY <1>2
<1> QED  BY <1>3, GateReports

LEMMA GateWatches ==
  ASSUME GateInv, Gate!Exists \/ Gate!Read \/ Gate!Signal
  PROVE  GateInv'
<1>1. /\ world \in was /\ \A w \in was : w \in Gate!World
      /\ \A w \in was : w.lock \in {"unset", "absent", "empty", "json", "alive", "dead"}
  BY SeenWorlds DEF GateInv, GateTyped, Gate!World
<1>2. CASE Gate!Exists
  <2>1. verdict = "none" /\ left # <<>> /\ Head(left) = "gpu_lock_stale"  BY <1>2 DEF Gate!Exists
  <2>2. CASE world.lock \in {"unset", "absent"}
    <3>1. PICK critical \in BOOLEAN : critical = (world.lock = "absent")
      <4>1. (world.lock = "absent") \in BOOLEAN  OBVIOUS
      <4> QED  BY <4>1, Zenon
    <3>2. Gate!Report(TRUE, critical)  BY <1>2, <2>2, <3>1, Zenon DEF Gate!Exists
    <3>3. \E w \in was : w.lock \in {"unset", "absent", "alive"}  BY <1>1, <2>2
    <3> QED  BY <2>1, <3>2, <3>3, LooksReport
  <2>3. CASE world.lock \notin {"unset", "absent"}
    <3>1. look' = "seen" /\ UNCHANGED <<gate, world, left, checks, verdict, was>>
      BY <1>2, <2>3 DEF Gate!Exists
    <3>2. GateLooks'  BY <1>1, <2>1, <2>3, <3>1 DEF GateLooks
    <3>3. GateSays'  BY <3>1 DEF GateInv, GateSays, Gate!Raises
    <3> QED  BY <3>1, <3>2, <3>3, GateSame
  <2> QED  BY <2>2, <2>3
<1>3. CASE Gate!Read
  <2>1. /\ verdict = "none" /\ left # <<>> /\ Head(left) = "gpu_lock_stale"
        /\ \E w \in was : w.lock \notin {"unset", "absent"}
    BY <1>3 DEF Gate!Read, GateInv, GateLooks
  <2>2. CASE world.lock # "alive"
    <3>1. Gate!Report(FALSE, TRUE)  BY <1>3, <2>2 DEF Gate!Read
    <3>2. (\E w \in was : w.lock \in {"empty", "json", "dead"}) \/ Released
      BY <1>1, <2>1, <2>2 DEF Released
    <3> QED  BY <2>1, <3>1, <3>2, LooksReport
  <2>3. CASE world.lock = "alive"
    <3>1. look' = "read" /\ UNCHANGED <<gate, world, left, checks, verdict, was>>
      BY <1>3, <2>3 DEF Gate!Read
    <3>2. GateLooks'  BY <1>1, <2>1, <2>3, <3>1 DEF GateLooks
    <3>3. GateSays'  BY <3>1 DEF GateInv, GateSays, Gate!Raises
    <3> QED  BY <3>1, <3>2, <3>3, GateSame
  <2> QED  BY <2>2, <2>3
<1>4. CASE Gate!Signal
  <2>1. /\ verdict = "none" /\ left # <<>> /\ Head(left) = "gpu_lock_stale"
        /\ \E w \in was : w.lock = "alive"
    BY <1>4 DEF Gate!Signal, GateInv, GateLooks
  <2>2. Gate!Report(TRUE, TRUE) \/ (Gate!Report(FALSE, TRUE) /\ world.lock # "alive")
    <3>1. CASE world.lock = "alive"
      <4>1. \E lives \in {TRUE} : Gate!Report(lives, TRUE)  BY <1>4, <3>1 DEF Gate!Signal
      <4> QED  BY <4>1, Zenon
    <3>2. CASE world.lock # "alive"
      <4>1. \E lives \in BOOLEAN : Gate!Report(lives, TRUE)  BY <1>4, <3>2 DEF Gate!Signal
      <4> QED  BY <3>2, <4>1, Zenon
    <3> QED  BY <3>1, <3>2
  <2>3. CASE Gate!Report(TRUE, TRUE)
    <3>1. \E w \in was : w.lock \in {"unset", "absent", "alive"}  BY <2>1
    <3> QED  BY <2>1, <2>3, <3>1, LooksReport
  <2>4. CASE Gate!Report(FALSE, TRUE) /\ world.lock # "alive"
    <3>1. Released  BY <1>1, <2>1, <2>4 DEF Released
    <3> QED  BY <2>1, <2>4, <3>1, LooksReport
  <2> QED  BY <2>2, <2>3, <2>4
<1> QED  BY <1>2, <1>3, <1>4

\* An exception and a verdict say what there was.
LEMMA GateEnds ==
  ASSUME GateInv, Gate!Raise \/ Gate!Conclude
  PROVE  GateInv'
<1>1. CASE Gate!Raise
  <2>1. GateSays'
    BY <1>1 DEF Gate!Raise, GateSays, Gate!Raises
  <2>2. look = "none"
    <3>1. Head(left) # "gpu_lock_stale"
      BY <1>1 DEF Gate!Raise, Gate!Raises, Gate!Counter
    <3> QED  BY <3>1 DEF GateInv, GateLooks
  <2>3. GateLooks'  BY <1>1, <2>2 DEF Gate!Raise, GateLooks
  <2> QED  BY <1>1, <2>1, <2>3, GateSame DEF Gate!Raise
<1>2. CASE Gate!Conclude
  <2>1. GateSays'
    BY <1>2 DEF Gate!Conclude, GateSays
  <2>2. look = "none"  BY <1>2 DEF Gate!Conclude, GateInv, GateLooks
  <2>3. GateLooks'  BY <1>2, <2>2 DEF Gate!Conclude, GateLooks
  <2> QED  BY <1>2, <2>1, <2>3, GateSame DEF Gate!Conclude
<1> QED  BY <1>1, <1>2

\* What the world changes a gate's reviews, counters and text are not part of.
LEMMA GateChanges ==
  ASSUME GateInv, Gate!Change
  PROVE  GateInv'
<1>1. /\ verdict = "none" /\ world' \in Gate!Seen(gate)
      /\ was' = was \cup {world'}
      /\ UNCHANGED <<gate, left, look, checks, verdict>>
  BY DEF Gate!Change
<1>2. /\ world'.reviews = world.reviews /\ world'.fallen = world.fallen
      /\ world'.matched = world.matched
  <2>1. world \in Gate!World  BY SeenWorlds DEF GateInv, GateTyped
  <2>2. world' \in {[world EXCEPT !.up = ~@], [world EXCEPT !.store = ~@]}
                   \cup {[world EXCEPT !.lock = l] : l \in {"absent", "json", "dead"}}
                   \cup {[world EXCEPT !.found = f] : f \in {"none", "some"}}
    BY DEF Gate!Change
  <2> QED  BY <2>1, <2>2 DEF Gate!World
<1>3. GateTyped'  BY <1>1, <1>2 DEF GateInv, GateTyped
<1>4. GateFound'
  <2>1. SUFFICES ASSUME NEW i \in DOMAIN checks
                 PROVE  IF checks[i].name = "gpu_lock_stale" THEN LockFound(checks[i])'
                        ELSE \E w \in was' : Found(checks[i], w)
    BY <1>1 DEF GateFound, LockFound, Released
  <2>2. CASE checks[i].name = "gpu_lock_stale"
    <3>1. LockFound(checks[i])  BY <2>2 DEF GateInv, GateFound
    <3>2. LockFound(checks[i])'  BY <1>1, <3>1 DEF LockFound, Released
    <3> QED  BY <2>2, <3>2
  <2>3. CASE checks[i].name # "gpu_lock_stale"
    <3>1. PICK w \in was : Found(checks[i], w)  BY <2>3 DEF GateInv, GateFound
    <3> QED  BY <1>1, <2>3, <3>1
  <2> QED  BY <2>2, <2>3
<1>5. \A n : Owed(n)' <=> Owed(n)  BY <1>1 DEF Owed, Holds, Gate!Made
<1>6. \A n : Holds(left, n)' <=> Holds(left, n)  BY <1>1 DEF Holds
<1>7. GateOwes'  BY <1>1, <1>5, <1>6, Zenon DEF GateInv, GateOwes
<1>8. GateSays'  BY <1>1 DEF GateInv, GateSays
<1>9. GateLooks'  BY <1>1 DEF GateInv, GateLooks
<1> QED  BY <1>3, <1>4, <1>7, <1>8, <1>9 DEF GateInv

\* Every step of a gate keeps it.
LEMMA GateKeeps ==
  ASSUME GateInv, [Gate!Next]_gateVars
  PROVE  GateInv'
<1>1. CASE Gate!Next
  BY <1>1, GateChecks, GateWatches, GateEnds, GateChanges DEF Gate!Next
<1>2. CASE UNCHANGED gateVars
  <2>1. UNCHANGED <<gate, world, left, checks, was>> /\ verdict' = verdict
    BY <1>2 DEF gateVars
  <2>2. GateSays'  BY <2>1 DEF GateInv, GateSays, Gate!Raises
  <2>3. GateLooks'  BY <1>2 DEF gateVars, GateInv, GateLooks
  <2> QED  BY <2>1, <2>2, <2>3, GateSame
<1> QED  BY <1>1, <1>2

\* Of a gate that passes, every check that was owed was made, and found what it asks for.
LEMMA PassMeans ==
  ASSUME GateInv, verdict = "pass", NEW n \in Gate!Names, n # "gpu_lock_stale", Owed(n)
  PROVE  \E w \in was : Gate!Passes(n, w) /\ ~Gate!Raises(n, w)
<1>1. left = <<>> /\ \A i \in DOMAIN checks : checks[i].critical => checks[i].passed
  BY DEF GateInv, GateSays
<1>2. ~Holds(left, n)  BY <1>1 DEF Holds
<1>3. PICK i \in DOMAIN checks : checks[i].name = n  BY <1>2 DEF Owed, Gate!Made
<1>4. PICK w \in was : Found(checks[i], w)  BY <1>3 DEF GateInv, GateFound
<1>5. checks[i].critical  BY <1>3, <1>4 DEF Found
<1> QED  BY <1>1, <1>3, <1>4, <1>5 DEF Found

\* Of a critical check that fails, and could be read, the world has the reason.
LEMMA FailMeans ==
  ASSUME NEW n \in Gate!Names, NEW w \in Gate!World, n # "gpu_lock_stale",
         ~Gate!Passes(n, w), ~Gate!Raises(n, w)
  PROVE  \/ ~w.up \/ ~w.store \/ w.reviews = "full"
         \/ w.found = "some" \/ w.lock \in {"empty", "json", "dead"}
         \/ w.fallen # {} \/ w.matched # {}
<1>2. CASE n \in {"state_backend", "service_health"}  BY <1>2, PassesBy, Zenon
<1>3. CASE n \in {"evidence_store", "evidence_operational"}  BY <1>3, PassesBy, Zenon
<1>5. CASE n = "critical_findings"  BY <1>5, PassesBy, Zenon
<1>6. CASE n = "rate_limit"
  <2>1. w.reviews # "below"  BY <1>6, PassesBy
  <2>2. w.reviews # "unreadable"  BY <1>6 DEF Gate!Raises
  <2> QED  BY <2>1, <2>2 DEF Gate!World
<1>7. CASE n \in Gate!Counter
  <2>1. n \in w.fallen  BY <1>7, PassesBy
  <2> QED  BY <2>1
<1>8. CASE n \in Gate!Invariant
  <2>1. n \in w.matched  BY <1>8, PassesBy
  <2> QED  BY <2>1
<1> QED  BY <1>2, <1>3, <1>5, <1>6, <1>7, <1>8 DEF Gate!Names

\* The verdicts of a gate are backed.
LEMMA GateBacked ==
  ASSUME GateInv
  PROVE  Gate!VerdictBacked
<1>1. \A w \in was : w \in Gate!World /\ w \in Gate!Seen(gate)
  BY SeenWorlds DEF GateInv, GateTyped
<1>2. \A w \in was :
        w.reviews = world.reviews /\ w.fallen = world.fallen /\ w.matched = world.matched
  BY DEF GateInv, GateTyped
<1>3. world \in was  BY DEF GateInv, GateTyped
<1>4. ASSUME verdict = "pass"
      PROVE  /\ gate \in {"gains", "cardio"} => (\E w \in was : w.up) /\ (\E w \in was : w.store)
             /\ Gate!Made("critical_findings") => \E w \in was : w.found # "some" \/ ~w.up
             /\ Gate!Made("gpu_lock_stale") =>
                  \E w \in was : w.lock \in {"unset", "absent", "alive"}
             /\ world.reviews = "below" /\ world.matched = {}
             /\ Gate!Made("service_health") => world.fallen = {}
  <2>1. ASSUME gate \in {"gains", "cardio"}
        PROVE  (\E w \in was : w.up) /\ (\E w \in was : w.store)
    <3>1. Owed("state_backend") /\ Owed("evidence_store")
      BY <2>1 DEF GateInv, GateOwes
    <3>2. \E w \in was : Gate!Passes("state_backend", w)
      BY <1>4, <3>1, PassMeans DEF Gate!Names
    <3>3. \E w \in was : Gate!Passes("evidence_store", w)
      BY <1>4, <3>1, PassMeans DEF Gate!Names
    <3> QED  BY <3>2, <3>3, PassesBy, Zenon
  <2>2. ASSUME Gate!Made("critical_findings")
        PROVE  \E w \in was : w.found # "some" \/ ~w.up
    <3>1. \E w \in was : Gate!Passes("critical_findings", w)
      BY <1>4, <2>2, PassMeans DEF Gate!Names, Owed
    <3> QED  BY <3>1, PassesBy, Zenon
  <2>3. ASSUME Gate!Made("gpu_lock_stale")
        PROVE  \E w \in was : w.lock \in {"unset", "absent", "alive"}
    <3>1. PICK i \in DOMAIN checks : checks[i].name = "gpu_lock_stale"
      BY <2>3 DEF Gate!Made
    <3>2. checks[i].passed \/ ~checks[i].critical  BY <1>4 DEF GateInv, GateSays
    <3>3. LockFound(checks[i])  BY <3>1 DEF GateInv, GateFound
    <3> QED  BY <3>2, <3>3 DEF LockFound
  <2>4. world.reviews = "below"
    <3>1. CASE gate = "cardio"
      <4>1. Owed("rate_limit")  BY <3>1 DEF GateInv, GateOwes
      <4>2. \E w \in was : Gate!Passes("rate_limit", w)
        BY <1>4, <4>1, PassMeans DEF Gate!Names
      <4> QED  BY <1>2, <4>2, PassesBy, Zenon
    <3>2. CASE gate # "cardio"  BY <1>1, <1>3, <3>2, SeenWorlds
    <3> QED  BY <3>1, <3>2
  <2>5. world.matched = {}
    <3>1. CASE gate = "action"
      <4>1. \A n \in Gate!Invariant : n \notin world.matched
        <5>1. TAKE n \in Gate!Invariant
        <5>2. Owed(n) /\ n \in Gate!Names /\ n # "gpu_lock_stale"
          BY <3>1 DEF GateInv, GateOwes, Gate!Names, Gate!Invariant
        <5>3. PICK w \in was : Gate!Passes(n, w)  BY <1>4, <5>2, PassMeans
        <5>4. n \notin w.matched  BY <5>3, PassesBy, Zenon
        <5> QED  BY <1>2, <5>4
      <4>2. world.matched \subseteq Gate!Invariant  BY <1>1, <1>3 DEF Gate!World
      <4> QED  BY <4>1, <4>2
    <3>2. CASE gate # "action"  BY <1>1, <1>3, <3>2, SeenWorlds
    <3> QED  BY <3>1, <3>2
  <2>6. ASSUME Gate!Made("service_health")
        PROVE  world.fallen = {}
    <3>1. CASE gate = "integrity"
      <4>1. \A n \in Gate!Counter : n \notin world.fallen
        <5>1. TAKE n \in Gate!Counter
        <5>2. Owed(n) /\ n \in Gate!Names /\ n # "gpu_lock_stale"
          BY <2>6, <3>1 DEF GateInv, GateOwes, Owed, Gate!Names, Gate!Counter
        <5>3. PICK w \in was : Gate!Passes(n, w)  BY <1>4, <5>2, PassMeans
        <5>4. n \notin w.fallen  BY <5>3, PassesBy, Zenon
        <5> QED  BY <1>2, <5>4
      <4>2. world.fallen \subseteq Gate!Counter  BY <1>1, <1>3 DEF Gate!World
      <4> QED  BY <4>1, <4>2
    <3>2. CASE gate # "integrity"  BY <1>1, <1>3, <3>2, SeenWorlds
    <3> QED  BY <3>1, <3>2
  <2> QED  BY <2>1, <2>2, <2>3, <2>4, <2>5, <2>6
<1>5. ASSUME verdict = "fail"
      PROVE  \/ \E w \in was : \/ ~w.up \/ ~w.store \/ w.reviews = "full"
                               \/ w.found = "some" \/ w.lock \in {"empty", "json", "dead"}
                               \/ w.fallen # {} \/ w.matched # {}
             \/ \E w, v \in was : w.lock = "alive" /\ v.lock # "alive"
  <2>1. PICK i \in DOMAIN checks : checks[i].critical /\ ~checks[i].passed
    BY <1>5 DEF GateInv, GateSays
  <2>2. CASE checks[i].name = "gpu_lock_stale"
    <3>1. LockFound(checks[i])  BY <2>2 DEF GateInv, GateFound
    <3>2. (\E w \in was : w.lock \in {"empty", "json", "dead"}) \/ Released
      BY <2>1, <3>1 DEF LockFound
    <3> QED  BY <3>2 DEF Released
  <2>3. CASE checks[i].name # "gpu_lock_stale"
    <3>1. PICK w \in was : Found(checks[i], w)  BY <2>3 DEF GateInv, GateFound
    <3>2. /\ checks[i].name \in Gate!Names /\ ~Gate!Passes(checks[i].name, w)
          /\ ~Gate!Raises(checks[i].name, w)
      BY <2>1, <3>1 DEF Found
    <3> QED  BY <1>1, <2>3, <3>2, FailMeans, Zenon
  <2> QED  BY <2>2, <2>3
<1>6. ASSUME verdict = "raised"
      PROVE  /\ gate \in {"cardio", "integrity"}
             /\ \E w \in was : ~w.up \/ w.reviews = "unreadable"
  <2>1. left # <<>> /\ Gate!Raises(Head(left), world)  BY <1>6 DEF GateInv, GateSays
  <2>2. Head(left) \in Gate!Counter \cup {"rate_limit"}  BY <2>1 DEF Gate!Raises
  <2>3. Holds(left, Head(left))  BY <2>1, NextCheck DEF GateInv
  <2>4. gate \notin {"gains", "action"}  BY <2>2, <2>3 DEF GateInv, GateOwes
  <2>5. gate \in {"cardio", "integrity"}  BY <2>4 DEF GateInv, GateTyped
  <2> QED  BY <1>3, <2>1, <2>5 DEF Gate!Raises
<1> QED  BY <1>4, <1>5, <1>6 DEF Gate!VerdictBacked

\* A verdict is about checks that have names, in worlds that are possible.
LEMMA GateTypes ==
  ASSUME GateInv
  PROVE  Gate!TypeOK
<1>1. GateTyped /\ GateSays /\ look \in {"none", "seen", "read"}
  BY DEF GateInv, GateLooks
<1>2. world \in Gate!World /\ was \subseteq Gate!World  BY <1>1 DEF GateTyped, Gate!Seen
<1> QED  BY <1>1, <1>2 DEF GateTyped, GateSays, Gate!TypeOK

-----------------------------------------------------------------------------
(* Chains: what is asked for *)

\* What may be asked for.
Lines == {list \in Seq(Segment) : Distinct(list)}

\* A segment switched on or off.
Override == [name : Segment, on : BOOLEAN]

\* A segment that is switched off is taken out of them, and one on is put last once.
LEMMA ToggleKeeps ==
  ASSUME NEW list \in Lines, NEW o \in Override
  PROVE  Chain!Toggle(list, o) \in Lines
<1>1. list \in Seq(Segment) /\ Distinct(list) /\ Len(list) \in Nat /\ DOMAIN list = 1..Len(list)
  BY DEF Lines
<1>2. o.name \in Segment /\ o.on \in BOOLEAN  BY DEF Override
<1>3. CASE ~o.on /\ o.name \in Chain!Range(list)
  <2> DEFINE rest == Only(list, Segment \ {o.name})
  <2>1. Chain!Only(list, Segment \ {o.name}) = rest  BY DEF Chain!Only, Only
  <2>2. Chain!Toggle(list, o) = rest  BY <1>3, <2>1 DEF Chain!Toggle
  <2>3. rest \in Seq(Segment) /\ Distinct(rest)  BY <1>1, OnlyKeeps
  <2> QED  BY <2>2, <2>3 DEF Lines
<1>4. CASE o.on /\ o.name \notin Chain!Range(list)
  <2> DEFINE more == Append(list, o.name)
  <2>1. Chain!Toggle(list, o) = more  BY <1>4 DEF Chain!Toggle
  <2>2. /\ more \in Seq(Segment)
        /\ more[Len(list) + 1] = o.name
        /\ \A i \in 1..Len(list) : more[i] = list[i]
        /\ \A i \in DOMAIN more : i \in DOMAIN list \/ i = Len(list) + 1
    BY <1>1, <1>2, Appended
  <2> HIDE DEF more
  <2>3. \A i \in DOMAIN list : list[i] # o.name  BY <1>1, <1>4 DEF Chain!Range
  <2>4. Distinct(more)  BY <1>1, <2>2, <2>3 DEF Distinct
  <2> QED  BY <2>1, <2>2, <2>4 DEF Lines
<1>5. CASE o.on <=> o.name \in Chain!Range(list)
  BY <1>5 DEF Chain!Toggle
<1> QED  BY <1>2, <1>3, <1>4, <1>5

\* What there is after each override.
Loop(f, preset, overrides) ==
  /\ f[0] = preset
  /\ \A k \in 1..Len(overrides) : f[k] = Chain!Toggle(f[k - 1], overrides[k])
  /\ Chain!Resolve(preset, overrides) = f[Len(overrides)]

\* The loop goes through them.
LEMMA LoopStates ==
  ASSUME NEW preset, NEW overrides, Len(overrides) \in Nat
  PROVE  \E f : Loop(f, preset, overrides)
<1> DEFINE Is(f, m) ==
             f = [k \in 0..m |->
                    IF k = 0 THEN preset ELSE Chain!Toggle(f[k - 1], overrides[k])]
           T == {m \in Nat : ~\E f : Is(f, m)}
<1>1. T = {}
  <2>1. SUFFICES ASSUME T # {} PROVE FALSE
    OBVIOUS
  <2>2. PICK m \in T : \A y \in T : ~(y < m)
    <3>1. T \in SUBSET Nat
      OBVIOUS
    <3>2. QED
      BY <2>1, <3>1, Least
  <2>3. m # 0
    <3>1. SUFFICES ASSUME m = 0 PROVE FALSE
      OBVIOUS
    <3> DEFINE f == [k \in 0..0 |-> preset]
    <3>2. Is(f, 0)
      OBVIOUS
    <3>3. QED
      BY <3>1, <3>2
  <2>4. PICK f : Is(f, m - 1)
    <3>1. m - 1 \in Nat /\ m - 1 < m
      BY <2>3
    <3>2. m - 1 \notin T
      BY <2>2, <3>1
    <3>3. QED
      BY <3>1, <3>2
  <2> DEFINE g == [k \in 0..m |->
                     IF k = m THEN Chain!Toggle(f[m - 1], overrides[m]) ELSE f[k]]
  <2>5. Is(g, m)
    BY <2>2, <2>3, <2>4
  <2>6. QED
    BY <2>2, <2>5
<1>2. \E f : Is(f, Len(overrides))
  BY <1>1
<1>3. Chain!Resolve(preset, overrides) = (CHOOSE f : Is(f, Len(overrides)))[Len(overrides)]
  BY DEF Chain!Resolve
<1> DEFINE d == CHOOSE f : Is(f, Len(overrides))
<1>4. d = [k \in 0..Len(overrides) |->
             IF k = 0 THEN preset ELSE Chain!Toggle(d[k - 1], overrides[k])]
  BY <1>2
<1> HIDE DEF d
<1>5. d[0] = preset
  BY <1>4
<1>6. \A k \in 1..Len(overrides) : d[k] = Chain!Toggle(d[k - 1], overrides[k])
  BY <1>4
<1>7. Chain!Resolve(preset, overrides) = d[Len(overrides)]
  BY <1>3 DEF d
<1>8. QED
  BY <1>5, <1>6, <1>7 DEF Loop

\* Overrides leave no segment twice.
LEMMA ResolveKeeps ==
  ASSUME NEW preset \in Lines, NEW overrides \in Seq(Override)
  PROVE  Chain!Resolve(preset, overrides) \in Lines
<1>0. Len(overrides) \in Nat
  OBVIOUS
<1>1. PICK f : Loop(f, preset, overrides)
  BY <1>0, LoopStates
<1> DEFINE T == {m \in Nat : m <= Len(overrides) /\ f[m] \notin Lines}
<1>2. T = {}
  <2>1. SUFFICES ASSUME T # {} PROVE FALSE
    OBVIOUS
  <2>2. PICK m \in T : \A y \in T : ~(y < m)
    <3>1. T \in SUBSET Nat
      OBVIOUS
    <3>2. QED
      BY <2>1, <3>1, Least
  <2>3. f[0] = preset
    BY <1>1 DEF Loop
  <2>4. m # 0 /\ m - 1 \in Nat /\ m - 1 < m /\ m \in 1..Len(overrides)
    BY <2>2, <2>3
  <2>5. f[m - 1] \in Lines
    BY <2>2, <2>4
  <2>6. f[m] = Chain!Toggle(f[m - 1], overrides[m])
    BY <1>1, <2>4 DEF Loop
  <2>7. overrides[m] \in Override
    BY <2>4
  <2>8. f[m] \in Lines
    BY <2>5, <2>6, <2>7, ToggleKeeps
  <2>9. QED
    BY <2>2, <2>8
<1>3. QED
  BY <1>0, <1>1, <1>2 DEF Loop

\* What a command asks for is one segment at most.
LEMMA SingleLine ==
  ASSUME NEW list \in Lines
  PROVE  Chain!Single(list) \in Lines
<1>1. list \in Seq(Segment) /\ Distinct(list) /\ Len(list) \in Nat
  BY DEF Lines
<1>2. CASE Len(list) = 0
  <2>1. Chain!Single(list) = <<>>
    BY <1>1, <1>2 DEF Chain!Single
  <2>2. QED
    BY <2>1 DEF Lines, Distinct
<1>3. CASE Len(list) >= 1
  <2> DEFINE s == SubSeq(list, 1, 1)
  <2>1. s \in Seq(Segment) /\ Len(s) = 1
    BY <1>1, <1>3
  <2>2. DOMAIN s = 1..1
    BY <2>1
  <2>3. QED
    BY <2>1, <2>2 DEF Lines, Distinct, Chain!Single
<1>4. QED
  BY <1>1, <1>2, <1>3

-----------------------------------------------------------------------------
(* Chains: how far one is *)

\* The segments that were called, and how many are behind.
Called == Chain!Ran \cup errors

Past == Len(requested) - Len(ahead)

\* What was asked for, and what is still to come of it.
RunTyped ==
  /\ role \in {"chain", "command"} /\ strict \in BOOLEAN
  /\ needs \in [Segment -> Chain!Requirements] /\ ctx \in Chain!Context
  /\ requested \in Lines
  /\ ahead \in Seq(Segment) /\ Len(ahead) <= Len(requested)
  /\ \A i \in 1..Len(ahead) : ahead[i] = requested[i + Past]
  /\ results \in [Segment -> {"none", "ok", "failed"}] /\ saw \in [Segment -> SUBSET Segment]
  /\ errors \subseteq Segment /\ skipped \subseteq Segment /\ degraded \subseteq Called

\* Those that are behind it were called or skipped, once, and nobody else.
RunShared ==
  /\ Chain!Ran \cap errors = {} /\ Called \cap skipped = {}
  /\ \A s \in Segment :
       s \in Called \cup skipped <=> \E i \in 1..Past : requested[i] = s

\* Whose data a segment is given.
Before(s) ==
  {requested[i] : i \in {j \in DOMAIN requested :
     /\ results[requested[j]] = "ok"
     /\ \E k \in DOMAIN requested : j < k /\ requested[k] = s}}

\* What was called was let in, and was given what those before it returned.
RunLetIn ==
  /\ data = {s \in Segment : results[s] = "ok"}
  /\ \A s \in Called : /\ ~Chain!Blocked(s) /\ saw[s] = Before(s)
                       /\ s \in degraded <=> Chain!Degraded(s)

\* What is on record of it.
RunStage ==
  /\ stage \in {"running", "recording", "counting", "done", "raised"}
  /\ {halted, record, counted} \subseteq BOOLEAN
  /\ halted => role = "chain" /\ Past >= 1 /\ errors = {requested[Past]}
  /\ role = "chain" /\ strict /\ ~halted => errors = {}
  /\ stage \in {"recording", "counting"} => role = "chain" /\ (ahead = <<>> \/ halted)
  /\ stage = "counting" => record
  /\ stage = "done" => (halted \/ ahead = <<>>) /\ (role = "chain" => counted)
  /\ counted => record
  /\ record => role = "chain" /\ (ahead = <<>> \/ halted) /\ stage # "running"

RunInv == RunTyped /\ RunShared /\ RunLetIn /\ RunStage

\* A chain, or a command, begins with everything before it.
LEMMA ChainStarts ==
  ASSUME Chain!Init
  PROVE  RunInv
<1>1. requested \in Lines
  <2>1. PICK preset \in Presets, overrides \in Overrides :
          requested = IF role = "chain" THEN Chain!Resolve(preset, overrides)
                      ELSE Chain!Single(preset)
    BY DEF Chain!Init
  <2>2. preset \in Lines  BY ServicesAssumption DEF ServicesAssumption, Lines, Distinct
  <2>3. overrides \in Seq(Override)  BY ServicesAssumption DEF ServicesAssumption, Override
  <2> QED  BY <2>1, <2>2, <2>3, ResolveKeeps, SingleLine
<1>2. /\ role \in {"chain", "command"} /\ strict \in BOOLEAN
      /\ needs \in Needs /\ ctx \in Chain!Context
      /\ ahead = requested /\ saw = [s \in Segment |-> {}] /\ data = {}
      /\ results = [s \in Segment |-> "none"]
      /\ errors = {} /\ skipped = {} /\ degraded = {}
      /\ halted = FALSE /\ record = FALSE /\ counted = FALSE /\ stage = "running"
  BY DEF Chain!Init
<1>3. requested \in Seq(Segment) /\ Len(requested) \in Nat  BY <1>1 DEF Lines
<1>4. Past = 0  BY <1>2, <1>3 DEF Past
<1>5. Called = {}  BY <1>2 DEF Called, Chain!Ran
<1>6. RunTyped
  <2>1. needs \in [Segment -> Chain!Requirements]
    BY <1>2, ServicesAssumption DEF ServicesAssumption
  <2>2. \A i \in 1..Len(ahead) : ahead[i] = requested[i + Past]  BY <1>2, <1>3, <1>4
  <2> QED  BY <1>1, <1>2, <1>3, <1>5, <2>1, <2>2 DEF RunTyped
<1>7. RunShared  BY <1>2, <1>4, <1>5 DEF RunShared, Called
<1>8. RunLetIn  BY <1>2, <1>5 DEF RunLetIn
<1>9. RunStage  BY <1>2 DEF RunStage
<1> QED  BY <1>6, <1>7, <1>8, <1>9 DEF RunInv

\* One segment further.
LEMMA OneFurther ==
  ASSUME RunTyped, ahead # <<>>, ahead' = Tail(ahead), UNCHANGED requested
  PROVE  /\ Past \in Nat /\ Past' = Past + 1 /\ Past + 1 \in 1..Len(requested)
         /\ Head(ahead) = requested[Past + 1] /\ Head(ahead) \in Segment
         /\ ahead' \in Seq(Segment) /\ Len(ahead') <= Len(requested')
         /\ \A i \in 1..Len(ahead') : ahead'[i] = requested'[i + Past']
<1>1. /\ ahead \in Seq(Segment) /\ Len(ahead) <= Len(requested)
      /\ requested \in Seq(Segment)
      /\ \A i \in 1..Len(ahead) : ahead[i] = requested[i + Past]
  BY DEF RunTyped, Lines
<1>2. Len(ahead) \in Nat /\ Len(ahead) > 0 /\ Len(requested) \in Nat  BY <1>1
<1>3. Head(ahead) = ahead[1] /\ Head(ahead) \in Segment  BY <1>1, <1>2
<1>4. ahead' \in Seq(Segment) /\ Len(ahead') = Len(ahead) - 1  BY <1>1, <1>2
<1>5. \A i \in 1..Len(ahead') : ahead'[i] = ahead[i + 1]  BY <1>1, <1>2, <1>4
<1>6. Past \in Nat /\ Past' = Past + 1 /\ Past + 1 \in 1..Len(requested)
  BY <1>1, <1>2, <1>4 DEF Past
<1>7. ahead[1] = requested[1 + Past] /\ 1 + Past = Past + 1  BY <1>1, <1>2, <1>6
<1>8. ASSUME NEW i \in 1..Len(ahead')
      PROVE  ahead'[i] = requested'[i + Past']
  <2>1. i + 1 \in 1..Len(ahead) /\ (i + 1) + Past = i + Past'  BY <1>2, <1>4, <1>6
  <2> QED  BY <1>1, <1>5, <2>1
<1>9. Head(ahead) = requested[Past + 1]  BY <1>3, <1>7
<1>10. Len(ahead') <= Len(requested')  BY <1>1, <1>2, <1>4
<1> QED  BY <1>3, <1>4, <1>6, <1>8, <1>9, <1>10

\* The next segment has not been called or skipped before.
LEMMA NextIsNew ==
  ASSUME RunInv, ahead # <<>>, NEW s, s = requested[Past + 1], Past + 1 \in 1..Len(requested)
  PROVE  /\ s \in Segment /\ s \notin Called \cup skipped
         /\ \A i \in DOMAIN requested : requested[i] = s <=> i = Past + 1
<1>1. requested \in Seq(Segment) /\ Distinct(requested) /\ DOMAIN requested = 1..Len(requested)
      /\ Len(requested) \in Nat
  BY DEF RunInv, RunTyped, Lines
<1>2. Past \in Int  BY <1>1 DEF RunInv, RunTyped, Past
<1>3. s \in Segment  BY <1>1
<1>4. \A i \in DOMAIN requested : requested[i] = s <=> i = Past + 1  BY <1>1 DEF Distinct
<1>5. \A i \in 1..Past : i \in DOMAIN requested /\ i # Past + 1  BY <1>1, <1>2
<1>6. s \notin Called \cup skipped  BY <1>3, <1>4, <1>5 DEF RunInv, RunShared
<1> QED  BY <1>3, <1>4, <1>6

\* Skipping one.
LEMMA ChainSkips ==
  ASSUME RunInv, Chain!Skip
  PROVE  RunInv'
<1>0. PICK s : s = Head(ahead)  OBVIOUS
<1>1. /\ stage = "running" /\ ahead # <<>> /\ ~halted /\ Chain!Blocked(s)
      /\ skipped' = skipped \cup {s} /\ ahead' = Tail(ahead)
      /\ UNCHANGED <<role, strict, requested, needs, ctx, saw, data, results, errors,
                     degraded, halted, record, counted, stage>>
  BY <1>0 DEF Chain!Skip, Chain!Coming
<1>2. /\ Past \in Nat /\ Past' = Past + 1 /\ Past + 1 \in 1..Len(requested)
      /\ s = requested[Past + 1] /\ s \in Segment
      /\ ahead' \in Seq(Segment) /\ Len(ahead') <= Len(requested')
      /\ \A i \in 1..Len(ahead') : ahead'[i] = requested'[i + Past']
  BY <1>0, <1>1, OneFurther DEF RunInv
<1>3. s \notin Called \cup skipped
  BY <1>1, <1>2, NextIsNew
<1>4. Chain!Ran' = Chain!Ran /\ Called' = Called  BY <1>1 DEF Chain!Ran, Called
<1>5. RunTyped'  BY <1>1, <1>2, <1>4 DEF RunInv, RunTyped
<1>6. RunShared'
  <2>1. ASSUME NEW t \in Segment
        PROVE  t \in Called' \cup skipped' <=> \E i \in 1..Past' : requested'[i] = t
    <3>1. \A i \in 1..Past' : i \in 1..Past \/ i = Past + 1  BY <1>2
    <3>2. Past + 1 \in 1..Past' /\ \A i \in 1..Past : i \in 1..Past'  BY <1>2
    <3> QED  BY <1>1, <1>2, <1>4, <3>1, <3>2 DEF RunInv, RunShared
  <2> QED  BY <1>1, <1>3, <1>4, <2>1 DEF RunInv, RunShared
<1>7. RunLetIn'
  BY <1>1, <1>4 DEF RunInv, RunLetIn, Before, Chain!Blocked, Chain!Degraded
<1>8. RunStage'  BY <1>1 DEF RunInv, RunStage
<1> QED  BY <1>5, <1>6, <1>7, <1>8 DEF RunInv

\* What Begin(s) leaves, whatever the segment does then.
Calling(s) ==
  /\ stage = "running" /\ ahead # <<>> /\ ~halted /\ s = Head(ahead) /\ ~Chain!Blocked(s)
  /\ degraded' = (IF Chain!Degraded(s) THEN degraded \cup {s} ELSE degraded)
  /\ saw' = [saw EXCEPT ![s] = data]
  /\ ahead' = Tail(ahead)
  /\ UNCHANGED <<role, strict, requested, needs, ctx, skipped, record, counted>>
  /\ Called' = Called \cup {s}
  /\ Chain!Ran' \cap errors' = {}
  /\ errors' \subseteq Segment
  /\ results' \in [Segment -> {"none", "ok", "failed"}]
  /\ \A t \in Segment : t # s => results'[t] = results[t]
  /\ data' = {t \in Segment : results'[t] = "ok"}

\* Calling one.
LEMMA ChainCalls ==
  ASSUME RunInv, NEW s \in Segment, Calling(s)
  PROVE  (RunTyped /\ RunShared /\ RunLetIn)'
<1>2. /\ Past \in Nat /\ Past' = Past + 1 /\ Past + 1 \in 1..Len(requested)
      /\ s = requested[Past + 1]
      /\ ahead' \in Seq(Segment) /\ Len(ahead') <= Len(requested')
      /\ \A i \in 1..Len(ahead') : ahead'[i] = requested'[i + Past']
  BY OneFurther DEF RunInv, Calling
<1>3. /\ s \notin Called \cup skipped
      /\ \A i \in DOMAIN requested : requested[i] = s <=> i = Past + 1
  BY <1>2, NextIsNew DEF Calling
<1>4. degraded' \subseteq Called'  BY DEF RunInv, RunTyped, Calling
<1>5. RunTyped'
  <2>1. saw' \in [Segment -> SUBSET Segment]
    BY DEF RunInv, RunTyped, RunLetIn, Calling
  <2> QED  BY <1>2, <1>4, <2>1 DEF RunInv, RunTyped, Calling
<1>6. RunShared'
  <2>1. ASSUME NEW t \in Segment
        PROVE  t \in Called' \cup skipped' <=> \E i \in 1..Past' : requested'[i] = t
    <3>1. \A i \in 1..Past' : i \in 1..Past \/ i = Past + 1  BY <1>2
    <3>2. Past + 1 \in 1..Past' /\ \A i \in 1..Past : i \in 1..Past'  BY <1>2
    <3> QED  BY <1>2, <3>1, <3>2 DEF RunInv, RunShared, Calling
  <2> QED  BY <1>3, <2>1 DEF RunInv, RunShared, Calling
<1>7. RunLetIn'
  <2>1. Called \subseteq Segment /\ Called' \subseteq Segment
    BY DEF RunInv, RunTyped, Called, Chain!Ran, Calling
  <2>2. requested \in Seq(Segment) /\ DOMAIN requested = 1..Len(requested)
        /\ Len(requested) \in Nat
    BY DEF RunInv, RunTyped, Lines
  <2>3. Before(s)' = data
    <3>1. ASSUME NEW j \in DOMAIN requested
          PROVE  (\E k \in DOMAIN requested : j < k /\ requested[k] = s) <=> j \in 1..Past
      BY <1>2, <1>3, <2>2
    <3>2. ASSUME NEW j \in 1..Past
          PROVE  j \in DOMAIN requested /\ requested[j] \in Segment /\ requested[j] # s
      BY <1>2, <1>3, <2>2
    <3>3. Before(s)' = {requested[i] : i \in {j \in DOMAIN requested :
                          results'[requested[j]] = "ok" /\ j \in 1..Past}}
      BY <3>1 DEF Before, Calling
    <3>4. Before(s)' = {requested[i] : i \in {j \in 1..Past : results[requested[j]] = "ok"}}
      BY <3>2, <3>3 DEF Calling
    <3>5. \A t \in data : \E i \in 1..Past : requested[i] = t
      BY DEF RunInv, RunShared, RunLetIn, Called, Chain!Ran
    <3>6. \A t \in data : t \in Segment /\ results[t] = "ok"  BY DEF RunInv, RunLetIn
    <3>7. \A i \in 1..Past : results[requested[i]] = "ok" => requested[i] \in data
      BY <3>2 DEF RunInv, RunLetIn
    <3> QED  BY <3>4, <3>5, <3>6, <3>7
  <2>4. ASSUME NEW t \in Called
        PROVE  Before(t)' = Before(t)
    <3>1. PICK m \in 1..Past : requested[m] = t  BY <2>1 DEF RunInv, RunShared
    <3>2. ASSUME NEW j \in DOMAIN requested
          PROVE  (\E k \in DOMAIN requested : j < k /\ requested[k] = t)
                 => requested[j] \in Segment /\ requested[j] # s
      <4>0. m \in DOMAIN requested  BY <1>2, <2>2
      <4>1. \A k \in DOMAIN requested : requested[k] = t => k = m
        <5>1. Distinct(requested)  BY DEF RunInv, RunTyped, Lines
        <5> QED  BY <3>1, <4>0, <5>1 DEF Distinct
      <4>2. j < m => j # Past + 1  BY <1>2, <2>2, <3>1
      <4> QED  BY <1>3, <2>2, <4>1, <4>2
    <3>3. {j \in DOMAIN requested :
             /\ results'[requested[j]] = "ok"
             /\ \E k \in DOMAIN requested : j < k /\ requested[k] = t}
          = {j \in DOMAIN requested :
               /\ results[requested[j]] = "ok"
               /\ \E k \in DOMAIN requested : j < k /\ requested[k] = t}
      BY <3>2 DEF Calling
    <3> QED  BY <3>3 DEF Before, Calling
  <2>5. ASSUME NEW t \in Called'
        PROVE  /\ ~Chain!Blocked(t)' /\ saw'[t] = Before(t)'
               /\ t \in degraded' <=> Chain!Degraded(t)'
    <3>1. Chain!Blocked(t)' = Chain!Blocked(t) /\ Chain!Degraded(t)' = Chain!Degraded(t)
      BY DEF Chain!Blocked, Chain!Degraded, Calling
    <3>2. CASE t = s
      <4>1. saw'[s] = data  BY DEF RunInv, RunTyped, Calling
      <4>2. s \notin degraded  BY <1>3 DEF RunInv, RunTyped
      <4> QED  BY <2>3, <3>1, <3>2, <4>1, <4>2 DEF Calling
    <3>3. CASE t # s
      <4>1. t \in Called  BY <3>3, <2>5 DEF Calling
      <4>2. saw'[t] = saw[t]  BY <2>1, <3>3, <4>1 DEF RunInv, RunTyped, Calling
      <4>3. t \in degraded' <=> t \in degraded  BY <3>3 DEF Calling
      <4> QED  BY <2>4, <3>1, <4>1, <4>2, <4>3 DEF RunInv, RunLetIn
    <3> QED  BY <3>2, <3>3
  <2> QED  BY <2>5 DEF RunLetIn, Calling
<1> QED  BY <1>5, <1>6, <1>7

\* A segment returns, or raises.
LEMMA ChainRuns ==
  ASSUME RunInv, NEW s \in Segment, Chain!Return(s) \/ Chain!Fail(s)
  PROVE  RunInv'
<1>1. /\ Chain!Begin(s) /\ ahead # <<>> /\ ~halted /\ s = Head(ahead) /\ stage = "running"
  BY DEF Chain!Return, Chain!Fail, Chain!Begin, Chain!Coming
<1>2. /\ Past \in Nat /\ Past' = Past + 1 /\ Past + 1 \in 1..Len(requested)
      /\ s = requested[Past + 1]
  BY <1>1, OneFurther DEF RunInv, Chain!Begin
<1>3. s \notin Called \cup skipped  BY <1>1, <1>2, NextIsNew
<1>4. results[s] = "none" /\ s \notin errors  BY <1>3 DEF Called, Chain!Ran
<1>5. CASE Chain!Return(s)
  <2>1. PICK outcome \in {"ok", "failed"} :
          /\ results' = [results EXCEPT ![s] = outcome]
          /\ data' = IF outcome = "ok" THEN data \cup {s} ELSE data
    BY <1>5 DEF Chain!Return
  <2>2. errors' = errors /\ halted' = halted /\ stage' = stage  BY <1>5 DEF Chain!Return
  <2>3. /\ results' \in [Segment -> {"none", "ok", "failed"}]
        /\ results'[s] = outcome
        /\ \A t \in Segment : t # s => results'[t] = results[t]
    BY <2>1 DEF RunInv, RunTyped
  <2>4. Chain!Ran' = Chain!Ran \cup {s}  BY <2>1, <2>3 DEF Chain!Ran
  <2>5. Called' = Called \cup {s}  BY <2>2, <2>4 DEF Called
  <2>6. data' = {t \in Segment : results'[t] = "ok"}
    BY <1>4, <2>1, <2>3 DEF RunInv, RunLetIn
  <2>7. Calling(s)
    <3>1. errors' \subseteq Segment  BY <2>2 DEF RunInv, RunTyped
    <3>2. Chain!Ran' \cap errors' = {}  BY <1>4, <2>2, <2>4 DEF RunInv, RunShared
    <3> QED  BY <1>1, <2>3, <2>5, <2>6, <3>1, <3>2 DEF Calling, Chain!Begin
  <2>8. RunStage'  BY <1>1, <2>2 DEF RunInv, RunStage, Chain!Begin
  <2> QED  BY <2>7, <2>8, ChainCalls DEF RunInv
<1>6. CASE Chain!Fail(s)
  <2>1. /\ errors' = errors \cup {s} /\ halted' = (strict /\ role = "chain")
        /\ stage' = (IF role = "chain" THEN stage ELSE "raised")
        /\ data' = data /\ results' = results
    BY <1>6 DEF Chain!Fail, Chain!Caught
  <2>2. Chain!Ran' = Chain!Ran /\ Called' = Called \cup {s}  BY <2>1 DEF Chain!Ran, Called
  <2>3. Chain!Ran' \cap errors' = {}
    BY <1>4, <2>1, <2>2 DEF Chain!Ran, RunInv, RunShared
  <2>4. Calling(s)
    BY <1>1, <2>1, <2>2, <2>3 DEF Calling, Chain!Begin, RunInv, RunTyped, RunLetIn
  <2>5. RunStage'
    <3>1. role' = role /\ strict' = strict /\ requested' = requested /\ record' = record
          /\ counted' = counted
      BY <1>1 DEF Chain!Begin
    <3>2. record = FALSE /\ counted = FALSE
      BY <1>1 DEF RunInv, RunStage
    <3>3. ASSUME role = "chain", strict = TRUE
          PROVE  errors' = {requested'[Past']} /\ Past' >= 1
      BY <1>1, <1>2, <2>1, <3>1, <3>3 DEF RunInv, RunStage
    <3>4. strict \in BOOLEAN /\ halted' \in BOOLEAN
      BY <2>1 DEF RunInv, RunTyped
    <3>5. halted' => role' = "chain" /\ Past' >= 1 /\ errors' = {requested'[Past']}
      BY <2>1, <3>1, <3>3, <3>4
    <3>6. role' = "chain" /\ strict' /\ ~halted' => errors' = {}
      BY <2>1, <3>1
    <3>7. stage' \in {"running", "raised"}  BY <1>1, <2>1
    <3> QED  BY <3>1, <3>2, <3>4, <3>5, <3>6, <3>7 DEF RunStage
  <2> QED  BY <2>4, <2>5, ChainCalls DEF RunInv
<1> QED  BY <1>5, <1>6

\* What ends a chain leaves all but its stage and its record.
LEMMA ChainEnds ==
  ASSUME RunInv, Chain!Over \/ Chain!Push \/ Chain!Count \/ Chain!Refuse
  PROVE  RunInv'
<1>1. UNCHANGED <<role, strict, requested, needs, ctx, ahead, saw, data, results, errors,
                  skipped, degraded, halted>>
  BY DEF Chain!Over, Chain!Push, Chain!Count, Chain!Refuse
<1>2. RunTyped'  BY <1>1 DEF RunInv, RunTyped, Past, Called, Chain!Ran
<1>3. RunShared'  BY <1>1 DEF RunInv, RunShared, Past, Called, Chain!Ran
<1>4. RunLetIn'
  BY <1>1 DEF RunInv, RunLetIn, Before, Called, Chain!Ran, Chain!Blocked, Chain!Degraded
<1>5. RunStage'
  <2>0. role \in {"chain", "command"} /\ Past' = Past  BY <1>1 DEF RunInv, RunTyped, Past
  <2>1. CASE Chain!Over  BY <1>1, <2>0, <2>1 DEF RunInv, RunStage, Chain!Over
  <2>2. CASE Chain!Push  BY <1>1, <2>0, <2>2 DEF RunInv, RunStage, Chain!Push
  <2>3. CASE Chain!Count  BY <1>1, <2>0, <2>3 DEF RunInv, RunStage, Chain!Count
  <2>4. CASE Chain!Refuse  BY <1>1, <2>0, <2>4 DEF RunInv, RunStage, Chain!Refuse
  <2> QED  BY <2>1, <2>2, <2>3, <2>4
<1> QED  BY <1>2, <1>3, <1>4, <1>5 DEF RunInv

\* Every step of a chain keeps the invariant.
LEMMA ChainKeeps ==
  ASSUME RunInv, [Chain!Next]_chainVars
  PROVE  RunInv'
<1>1. CASE Chain!Next  BY <1>1, ChainSkips, ChainRuns, ChainEnds DEF Chain!Next
<1>2. CASE UNCHANGED chainVars
  <2>1. RunTyped'  BY <1>2 DEF chainVars, RunInv, RunTyped, Past, Called, Chain!Ran
  <2>2. RunShared'  BY <1>2 DEF chainVars, RunInv, RunShared, Past, Called, Chain!Ran
  <2>3. RunLetIn'
    BY <1>2 DEF chainVars, RunInv, RunLetIn, Before, Called, Chain!Ran, Chain!Blocked,
                Chain!Degraded
  <2>4. RunStage'  BY <1>2 DEF chainVars, RunInv, RunStage, Past
  <2> QED  BY <2>1, <2>2, <2>3, <2>4 DEF RunInv
<1> QED  BY <1>1, <1>2

\* What a chain runs and what it records is backed.
LEMMA ChainBacked ==
  ASSUME RunInv
  PROVE  Chain!RunBacked
<1>1. requested \in Seq(Segment) /\ DOMAIN requested = 1..Len(requested)
      /\ Len(requested) \in Nat /\ Distinct(requested)
      /\ ahead \in Seq(Segment) /\ DOMAIN ahead = 1..Len(ahead)
      /\ Len(ahead) \in Nat /\ Past \in Nat /\ Past <= Len(requested)
  BY DEF RunInv, RunTyped, Lines, Past
<1>2. ASSUME NEW s \in Called
      PROVE  /\ needs[s].llms <= ctx.llms /\ (needs[s].rest => ctx.rest)
             /\ saw[s] = Before(s)
             /\ s \in degraded <=> needs[s].wanted > ctx.llms
  <2>1. s \in Segment  BY DEF Called, Chain!Ran, RunInv, RunTyped
  <2>2. needs[s] \in Chain!Requirements /\ ctx \in Chain!Context
    BY <2>1 DEF RunInv, RunTyped
  <2>3. /\ needs[s].llms \in 0..2 /\ needs[s].wanted \in 0..3
        /\ ctx.llms \in 0..2
    BY <2>2 DEF Chain!Requirements, Chain!Context
  <2>4. ~Chain!Blocked(s) /\ saw[s] = Before(s) /\ (s \in degraded <=> Chain!Degraded(s))
    BY DEF RunInv, RunLetIn
  <2>5. needs[s].llms <= ctx.llms /\ (needs[s].rest => ctx.rest)
    BY <2>3, <2>4 DEF Chain!Blocked
  <2>6. s \in degraded <=> needs[s].wanted > ctx.llms
    BY <2>3, <2>4 DEF Chain!Degraded
  <2> QED  BY <2>4, <2>5, <2>6
<1>3. Called \cup skipped = Chain!Range(requested) \ Chain!Range(ahead)
  <2>1. \A s : s \in Chain!Range(requested) <=> \E i \in 1..Len(requested) : requested[i] = s
    BY <1>1 DEF Chain!Range
  <2>2. \A s : s \in Chain!Range(ahead) <=> \E i \in 1..Len(ahead) : requested[i + Past] = s
    BY <1>1 DEF Chain!Range, RunInv, RunTyped
  <2>3. \A s : s \in Called \cup skipped <=> \E i \in 1..Past : requested[i] = s
    <3>1. Called \cup skipped \subseteq Segment
      BY DEF Called, Chain!Ran, RunInv, RunTyped
    <3>2. \A i \in 1..Past : requested[i] \in Segment  BY <1>1
    <3> QED  BY <3>1, <3>2 DEF RunInv, RunShared
  <2>4. Past = Len(requested) - Len(ahead)  BY DEF Past
  <2>5. ASSUME NEW i \in 1..Past
        PROVE  /\ i \in 1..Len(requested)
               /\ \A j \in 1..Len(ahead) : requested[j + Past] # requested[i]
    <3>1. i \in DOMAIN requested  BY <1>1
    <3>2. \A j \in 1..Len(ahead) : j + Past \in DOMAIN requested /\ j + Past # i
      BY <1>1, <2>4
    <3> QED  BY <1>1, <3>1, <3>2 DEF Distinct
  <2>6. ASSUME NEW i \in 1..Len(requested), i \notin 1..Past
        PROVE  i - Past \in 1..Len(ahead) /\ (i - Past) + Past = i
    BY <1>1, <2>4, <2>6
  <2> QED  BY <2>1, <2>2, <2>3, <2>5, <2>6
<1>4. halted => Chain!Cardinality(errors) = 1
                /\ requested[Len(requested) - Len(ahead)] \in errors
  <2>1. SUFFICES ASSUME halted
                 PROVE  Chain!Cardinality(errors) = 1 /\ requested[Past] \in errors
    BY DEF Past
  <2>2. errors = {requested[Past]}  BY <2>1 DEF RunInv, RunStage
  <2>3. Cardinality({requested[Past]}) = 1  BY FS_Singleton
  <2>4. Chain!Cardinality(errors) = Cardinality(errors)  BY DEF Chain!Cardinality, Cardinality
  <2> QED  BY <2>2, <2>3, <2>4
<1>5. /\ Chain!Ran \cap errors = {} /\ Called \cap skipped = {} /\ degraded \subseteq Called
  BY DEF RunInv, RunShared, RunTyped
<1>6. /\ stage = "done" /\ ~halted => ahead = <<>>
      /\ role = "chain" /\ stage = "done" => counted
      /\ counted => record
      /\ record => role = "chain" /\ (ahead = <<>> \/ halted)
  BY DEF RunInv, RunStage
<1> QED
  BY <1>2, <1>3, <1>4, <1>5, <1>6 DEF Chain!RunBacked, Called, Before

\* A run of a chain is about its segments.
LEMMA RunTypes ==
  ASSUME RunInv
  PROVE  Chain!TypeOK
<1>1. RunTyped /\ RunShared /\ RunLetIn /\ RunStage  BY DEF RunInv
<1>2. requested \in Seq(Segment)  BY <1>1 DEF RunTyped, Lines
<1>3. data \subseteq Segment  BY <1>1 DEF RunLetIn
<1>4. degraded \subseteq Segment
  <2>1. Chain!Ran \subseteq Segment  BY DEF Chain!Ran
  <2> QED  BY <1>1, <2>1 DEF RunTyped, Called
<1> QED  BY <1>1, <1>2, <1>3, <1>4 DEF RunTyped, RunStage, Chain!TypeOK

-----------------------------------------------------------------------------
(* Web sockets *)

\* One definition of how many there are.
LEMMA OneCount ==
  ASSUME NEW S
  PROVE  Rest!Cardinality(S) = Cardinality(S) /\ Sockets!Cardinality(S) = Cardinality(S)
BY DEF Rest!Cardinality, Sockets!Cardinality, Cardinality

Open == {c \in Client : socket[c] = "open"}

\* The lock is that of the client which is being refused, while the table is full.
SocketInv ==
  /\ socket \in [Client -> {"new", "refusing", "open", "closing", "gone"}]
  /\ IsFiniteSet(clients) /\ Cardinality(Open) <= MaxConnections
  /\ clients \subseteq {c \in Client : socket[c] \in {"open", "closing"}}
  /\ Open \subseteq clients
  /\ lock \in Client \cup {None}
  /\ \A c \in Client : lock = c <=> socket[c] = "refusing"
  /\ lock # None => lock \notin clients /\ Cardinality(clients) >= MaxConnections
  /\ stuck => lock # None

\* At first nobody is connected.
LEMMA SocketsStart ==
  ASSUME Sockets!Init
  PROVE  SocketInv
<1>1. Open = {} /\ IsFiniteSet({}) /\ Cardinality({}) = 0  BY FS_EmptySet DEF Sockets!Init, Open
<1>2. MaxConnections \in Nat /\ None \notin Client
  BY ServicesAssumption DEF ServicesAssumption
<1> QED  BY <1>1, <1>2 DEF Sockets!Init, SocketInv

\* A socket that is not opened, while no more clients are in the table than are
\* open or closing, leaves the number of those open.
LEMMA FewerOpen ==
  ASSUME SocketInv, Open' \subseteq Open
  PROVE  Cardinality(Open') <= MaxConnections
<1>1. IsFiniteSet(Open)  BY FS_Subset DEF SocketInv
<1>2. /\ IsFiniteSet(Open') /\ Cardinality(Open') <= Cardinality(Open)
      /\ Cardinality(Open) \in Nat /\ Cardinality(Open') \in Nat
  BY <1>1, FS_Subset, FS_CardinalityType
<1>3. MaxConnections \in Nat  BY ServicesAssumption DEF ServicesAssumption
<1> QED  BY <1>2, <1>3 DEF SocketInv

\* A client that connects is let in below the limit.
LEMMA SocketEnters ==
  ASSUME SocketInv, NEW c \in Client, socket[c] = "new", Sockets!Enter(c)
  PROVE  SocketInv'
<1>1. MaxConnections \in Nat /\ None \notin Client
  BY ServicesAssumption DEF ServicesAssumption
<1>2. lock = None /\ stuck' = stuck  BY DEF Sockets!Enter
<1>3. CASE Cardinality(clients) >= MaxConnections
  <2>1. /\ socket' = [socket EXCEPT ![c] = "refusing"] /\ lock' = c /\ clients' = clients
        /\ c \notin clients
    BY <1>3, OneCount DEF Sockets!Enter, Sockets!Become, SocketInv
  <2>2. Open' = Open  BY <2>1 DEF Open, SocketInv
  <2>3. Cardinality(Open') <= MaxConnections  BY <2>2, FewerOpen
  <2> QED  BY <1>1, <1>2, <1>3, <2>1, <2>2, <2>3 DEF SocketInv
<1>4. CASE ~(Cardinality(clients) >= MaxConnections)
  <2>1. /\ socket' = [socket EXCEPT ![c] = "open"] /\ lock' = lock
        /\ clients' = clients \cup {c}
    BY <1>4, OneCount DEF Sockets!Enter, Sockets!Become
  <2>2. Open' = Open \cup {c} /\ c \notin Open  BY <2>1 DEF Open, SocketInv
  <2>3. IsFiniteSet(clients) /\ Cardinality(clients) \in Nat /\ Open \subseteq clients
    BY FS_CardinalityType DEF SocketInv
  <2>4. /\ IsFiniteSet(Open) /\ Cardinality(Open) <= Cardinality(clients)
        /\ Cardinality(Open) \in Nat
    BY <2>3, FS_Subset, FS_CardinalityType
  <2>5. Cardinality(Open') = Cardinality(Open) + 1  BY <2>2, <2>4, FS_AddElement
  <2>6. Cardinality(Open') <= MaxConnections  BY <1>1, <1>4, <2>3, <2>4, <2>5
  <2>7. IsFiniteSet(clients')  BY <2>1, <2>3, FS_AddElement
  <2>8. Open' \subseteq clients'  BY <2>1, <2>2, <2>3
  <2> QED  BY <1>1, <1>2, <2>1, <2>6, <2>7, <2>8 DEF SocketInv
<1> QED  BY <1>3, <1>4

\* Stopping the loop changes nothing else.
LEMMA SocketStops ==
  ASSUME SocketInv, Sockets!Stop
  PROVE  SocketInv'
<1>1. Open' = Open  BY DEF Sockets!Stop, Open
<1> QED  BY <1>1 DEF Sockets!Stop, SocketInv

\* A client leaves the table, or its socket is closing and it stays in it.
LEMMA SocketLeaves ==
  ASSUME SocketInv, NEW c \in Client, lock = None, lock' = lock, stuck' = stuck,
         \/ /\ socket' = [socket EXCEPT ![c] = "gone"] \/ socket' = [socket EXCEPT ![c] = "closing"]
            /\ clients' = clients \ {c}
         \/ socket' = socket /\ socket[c] = "gone" /\ clients' = clients \ {c}
         \/ socket' = socket /\ socket[c] \in {"open", "closing"} /\ clients' = clients \cup {c}
         \/ socket' = socket /\ clients' = clients
  PROVE  SocketInv'
<1>0. None \notin Client  BY ServicesAssumption DEF ServicesAssumption
<1>1. Open' \subseteq Open  BY DEF Open, SocketInv
<1>2. Cardinality(Open') <= MaxConnections  BY <1>1, FewerOpen
<1>3. IsFiniteSet(clients')  BY FS_AddElement, FS_RemoveElement DEF SocketInv
<1>4. Open' \subseteq clients'  BY DEF Open, SocketInv
<1>5. \A d \in Client : lock' = d <=> socket'[d] = "refusing"  BY <1>0 DEF SocketInv
<1>6. clients' \subseteq {d \in Client : socket'[d] \in {"open", "closing"}}
  BY DEF SocketInv
<1>7. socket' \in [Client -> {"new", "refusing", "open", "closing", "gone"}]  BY DEF SocketInv
<1> QED  BY <1>2, <1>3, <1>4, <1>5, <1>6, <1>7 DEF SocketInv

\* Every step of the web sockets keeps the invariant.
LEMMA SocketsKeep ==
  ASSUME SocketInv, [Sockets!Next]_socketVars
  PROVE  SocketInv'
<1>1. CASE UNCHANGED socketVars
  <2>1. Open' = Open  BY <1>1 DEF socketVars, Open
  <2> QED  BY <1>1, <2>1 DEF socketVars, SocketInv
<1>2. ASSUME Sockets!Forward
      PROVE  SocketInv'
  <2>1. Open' = Open  BY <1>2 DEF Sockets!Forward, Open
  <2> QED  BY <1>2, <2>1 DEF Sockets!Forward, SocketInv
<1>3. ASSUME NEW c \in Client, Sockets!Connect(c)
      PROVE  SocketInv'
  BY <1>3, SocketEnters, SocketStops DEF Sockets!Connect
<1>4. ASSUME NEW c \in Client, Sockets!Refused(c)
      PROVE  SocketInv'
  <2>1. /\ ~stuck /\ lock = c /\ socket' = [socket EXCEPT ![c] = "gone"] /\ lock' = None
        /\ clients' = clients /\ stuck' = stuck
    BY <1>4 DEF Sockets!Refused, Sockets!Become
  <2>2. None \notin Client  BY ServicesAssumption DEF ServicesAssumption
  <2>3. socket[c] = "refusing"  BY <2>1 DEF SocketInv
  <2>4. Open' = Open  BY <2>1, <2>3 DEF Open, SocketInv
  <2> QED  BY <2>1, <2>2, <2>3, <2>4 DEF SocketInv
<1>5. ASSUME NEW c \in Client, Sockets!Subscribe(c)
      PROVE  SocketInv'
  BY <1>5, SocketLeaves, SocketStops DEF Sockets!Subscribe
<1>6. ASSUME NEW c \in Client, Sockets!Unsubscribe(c)
      PROVE  SocketInv'
  BY <1>6, SocketLeaves, SocketStops DEF Sockets!Unsubscribe
<1>7. ASSUME NEW c \in Client, Sockets!Disconnect(c)
      PROVE  SocketInv'
  BY <1>7, SocketLeaves, SocketStops DEF Sockets!Disconnect, Sockets!Become
<1>8. ASSUME NEW c \in Client, NEW event \in 1..MaxSends, Sockets!Send(c, event)
      PROVE  SocketInv'
  <2>1. CASE socket[c] = "open" /\ UNCHANGED <<socket, clients, subscribed, lock, stuck, sends>>
    <3>1. Open' = Open  BY <2>1 DEF Open
    <3> QED  BY <2>1, <3>1 DEF SocketInv
  <2>2. CASE /\ lock = None
             /\ socket' = IF socket[c] = "gone" THEN socket
                          ELSE [socket EXCEPT ![c] = "closing"]
             /\ clients' = clients \ {c} /\ UNCHANGED <<lock, stuck>>
    BY <2>2, SocketLeaves
  <2>3. CASE Sockets!Stop  BY <2>3, SocketStops
  <2> QED  BY <1>8, <2>1, <2>2, <2>3 DEF Sockets!Send
<1>9. ASSUME NEW c \in Client, Sockets!Publish(c)
      PROVE  SocketInv'
  BY <1>2, <1>9, SocketStops DEF Sockets!Publish
<1> QED
  BY <1>1, <1>2, <1>3, <1>4, <1>5, <1>6, <1>7, <1>8, <1>9 DEF Sockets!Next, Sockets!Deliver

\* Clients are served as they should be.
LEMMA SocketsServed ==
  ASSUME SocketInv
  PROVE  Sockets!Served
<1>1. None \notin Client  BY ServicesAssumption DEF ServicesAssumption
<1>2. Sockets!Cardinality(Open) <= MaxConnections  BY OneCount DEF SocketInv
<1>3. Sockets!Cardinality({c \in Client : socket[c] = "open"}) <= MaxConnections
  BY <1>2 DEF Open
<1> QED  BY <1>1, <1>3, OneCount DEF SocketInv, Open, Sockets!Served

\* At first nothing is due, and no client has been sent anything.
LEMMA SocketsStartTyped ==
  ASSUME Sockets!Init
  PROVE  Sockets!TypeOK
<1>1. MaxSends \in Nat  BY ServicesAssumption DEF ServicesAssumption
<1>2. /\ socket \in [Client -> {"new", "refusing", "open", "closing", "gone"}]
      /\ clients = {} /\ subscribed = {} /\ lock = None /\ stuck = FALSE
      /\ due = {} /\ sends = 0
  BY DEF Sockets!Init
<1>3. got \in [Client -> SUBSET (1..MaxSends)]
  <2>1. got = [c \in Client |-> {}]  BY DEF Sockets!Init
  <2>2. {} \in SUBSET (1..MaxSends)  OBVIOUS
  <2> QED  BY <2>1, <2>2, Zenon
<1>4. sends \in 0..MaxSends  BY <1>1, <1>2
<1> QED  BY <1>2, <1>3, <1>4 DEF Sockets!TypeOK

\* The web sockets keep their types: what is due was delivered to a client of the
\* table.
LEMMA SocketsKeepTypes ==
  ASSUME Sockets!TypeOK, [Sockets!Next]_socketVars
  PROVE  Sockets!TypeOK'
<1>1. CASE UNCHANGED socketVars  BY <1>1 DEF socketVars, Sockets!TypeOK
<1>2. ASSUME Sockets!Forward
      PROVE  Sockets!TypeOK'
  <2>1. MaxSends \in Nat /\ sends \in 0..MaxSends
    BY ServicesAssumption DEF ServicesAssumption, Sockets!TypeOK
  <2>2. sends < MaxSends /\ sends' = sends + 1  BY <1>2 DEF Sockets!Forward
  <2>3. sends' \in 0..MaxSends /\ sends + 1 \in 1..MaxSends  BY <2>1, <2>2
  <2>4. due' = due \cup {<<c, sends + 1>> : c \in subscribed}  BY <1>2 DEF Sockets!Forward
  <2>5. subscribed \subseteq Client /\ due \subseteq Client \X (1..MaxSends)
    BY DEF Sockets!TypeOK
  <2>6. due' \subseteq Client \X (1..MaxSends)  BY <2>3, <2>4, <2>5
  <2> QED  BY <1>2, <2>3, <2>6 DEF Sockets!Forward, Sockets!TypeOK
<1>3. ASSUME Sockets!Stop PROVE Sockets!TypeOK'  BY <1>3 DEF Sockets!Stop, Sockets!TypeOK
<1>4. ASSUME NEW c \in Client,
             \/ Sockets!Connect(c) \/ Sockets!Refused(c) \/ Sockets!Subscribe(c)
             \/ Sockets!Unsubscribe(c) \/ Sockets!Disconnect(c) \/ Sockets!Publish(c)
      PROVE  Sockets!TypeOK'
  <2>1. CASE Sockets!Connect(c)
    BY <1>3, <2>1 DEF Sockets!Connect, Sockets!Enter, Sockets!Become, Sockets!TypeOK
  <2>2. CASE Sockets!Refused(c)
    BY <2>2 DEF Sockets!Refused, Sockets!Become, Sockets!TypeOK
  <2>3. CASE Sockets!Subscribe(c)  BY <1>3, <2>3 DEF Sockets!Subscribe, Sockets!TypeOK
  <2>4. CASE Sockets!Unsubscribe(c)  BY <1>3, <2>4 DEF Sockets!Unsubscribe, Sockets!TypeOK
  <2>5. CASE Sockets!Disconnect(c)
    BY <1>3, <2>5 DEF Sockets!Disconnect, Sockets!Become, Sockets!TypeOK
  <2>6. CASE Sockets!Publish(c)  BY <1>2, <1>3, <2>6 DEF Sockets!Publish
  <2> QED  BY <1>4, <2>1, <2>2, <2>3, <2>4, <2>5, <2>6
<1>5. ASSUME NEW c \in Client, NEW event \in 1..MaxSends, Sockets!Send(c, event)
      PROVE  Sockets!TypeOK'
  <2>1. CASE /\ got' = [got EXCEPT ![c] = @ \cup {event}]
             /\ due' = due \ {<<c, event>>}
             /\ UNCHANGED <<socket, clients, subscribed, lock, stuck, sends>>
    <3>1. got[c] \cup {event} \in SUBSET (1..MaxSends)  BY DEF Sockets!TypeOK
    <3>2. got' \in [Client -> SUBSET (1..MaxSends)]
      <4>1. got \in [Client -> SUBSET (1..MaxSends)]  BY DEF Sockets!TypeOK
      <4> QED  BY <2>1, <3>1, <4>1
    <3> QED  BY <2>1, <3>2 DEF Sockets!TypeOK
  <2>2. CASE /\ socket' = IF socket[c] = "gone" THEN socket
                          ELSE [socket EXCEPT ![c] = "closing"]
             /\ clients' = clients \ {c} /\ subscribed' = subscribed \ {c}
             /\ due' = due \ {<<c, event>>}
             /\ UNCHANGED <<lock, stuck, sends, got>>
    BY <2>2 DEF Sockets!TypeOK
  <2>3. CASE Sockets!Stop  BY <1>3, <2>3
  <2> QED  BY <1>5, <2>1, <2>2, <2>3 DEF Sockets!Send
<1> QED  BY <1>1, <1>2, <1>4, <1>5 DEF Sockets!Next, Sockets!Deliver

-----------------------------------------------------------------------------
(* The rate limit *)

\* The calls of a tool that the limiter puts on record, ...
Mine(t) == {e \in tried : e.tool = t /\ (limiter = "memory" => e.said = "yes")}

\* ... and the instants of calls.
On(S) == {c.on : c \in S}

\* Those let in of a window, and those that count against a refused one.
LetIn(t, time) == {c \in Rest!Within(t, time) : c.said = "yes"}

Against(c) ==
  {e \in Rest!Within(c.tool, c.on.at) : limiter = "memory" => e.said = "yes"} \ {c}

\* What the limiter keeps.
RestTyped ==
  /\ limiter \in {"memory", "redis"} /\ now \in 0..MaxTime
  /\ crossed \in BOOLEAN
  /\ tool \in [Request -> Tool \cup {"unknown"}]
  /\ answer \in [Request -> Rest!Status \cup {"none", "reading", "gone"}]
  /\ stamp \in [Request -> {None} \cup Rest!Instants]
  /\ log \in [Request -> SUBSET {"success", "error"}] /\ ran \subseteq Request
  /\ \A r \in Request : answer[r] = "reading" => tool[r] \in Tool
  /\ \A r \in Request : stamp[r] # None =>
       /\ answer[r] = "reading" /\ limiter = "redis"
       /\ stamp[r] \in Rest!Instants /\ stamp[r].at <= now
  /\ window \in [Tool -> SUBSET Rest!Instants]
  /\ tried \subseteq Rest!Tried

RestFinite == IsFiniteSet(tried) /\ \A t \in Tool : IsFiniteSet(window[t])

\* The limiter is asked about a request once, before it answers.
RestAsked ==
  /\ \A c \in tried : c.on.at <= now /\ answer[c.by] \in {"429", "dry", "200", "500"}
  /\ \A c, d \in tried : c.by = d.by => c = d
  /\ limiter = "memory" => crossed = FALSE /\ \A c \in tried : c.on.id = c.by
  /\ \A r \in Request :
       /\ log[r] # {} => r \in ran
       /\ r \in ran => answer[r] \in {"200", "500"}
       /\ answer[r] = "200" => r \in ran
       /\ "error" \in log[r] => answer[r] = "500"
       /\ r \in ran \/ answer[r] = "dry" => \E c \in tried : c.by = r /\ c.said = "yes"
       /\ answer[r] = "429" <=> \E c \in tried : c.by = r /\ c.said = "no"

\* The record has the instants of calls, ...
RestHas == \A t \in Tool : \A k \in window[t] : \E e \in Mine(t) : e.on = k

\* ... and lacks none that counts for a call to come, unless pipelines cross.
Gone(t, e) ==
  /\ e.on.at + Window <= now
  /\ \A r \in Request : tool[r] = t /\ stamp[r] # None =>
       e.on.at + Window <= stamp[r].at \/ \E k \in window[t] : stamp[r].at < k.at

RestKept ==
  crossed = FALSE => \A t \in Tool : \A e \in Mine(t) : e.on \in window[t] \/ Gone(t, e)

\* None let in above the limit, none refused below it.
RestLimits ==
  crossed = FALSE =>
    /\ \A t \in Tool, time \in 0..now : Cardinality(On(LetIn(t, time))) <= Calls
    /\ \A c \in tried : c.said = "no" => Cardinality(On(Against(c))) >= Calls

RestInv == RestTyped /\ RestFinite /\ RestAsked /\ RestHas /\ RestKept /\ RestLimits

\* Calls that are finitely many have so many instants.
LEMMA OnFinite ==
  ASSUME NEW S, IsFiniteSet(S)
  PROVE  IsFiniteSet(On(S)) /\ Cardinality(On(S)) \in Nat
<1> DEFINE f == [c \in S |-> c.on]
<1>1. f \in [S -> On(S)]  BY DEF On
<1>2. \A k \in On(S) : \E c \in S : f[c] = k  BY DEF On
<1> HIDE DEF f
<1>3. f \in Surjection(S, On(S))  BY <1>1, <1>2, Zenon DEF Surjection
<1>4. IsFiniteSet(On(S))
  <2> DEFINE T == On(S)
  <2>1. f \in Surjection(S, T)  BY <1>3
  <2> HIDE DEF T
  <2>2. IsFiniteSet(T)  BY <2>1, FS_Surjection
  <2> QED  BY <2>2 DEF T
<1> QED  BY <1>4, FS_CardinalityType

\* More calls have no fewer instants.
LEMMA OnMore ==
  ASSUME NEW S, NEW T, S \subseteq T, IsFiniteSet(T)
  PROVE  Cardinality(On(S)) <= Cardinality(On(T))
<1>1. On(S) \subseteq On(T)  BY DEF On
<1>2. IsFiniteSet(On(T))  BY OnFinite
<1> DEFINE A == On(S)
           B == On(T)
<1> HIDE DEF A, B
<1>3. A \in SUBSET B /\ IsFiniteSet(B)  BY <1>1, <1>2 DEF A, B
<1>4. Cardinality(A) <= Cardinality(B)  BY <1>3, FS_Subset
<1> QED  BY <1>4 DEF A, B

\* At first there is no call.
LEMMA RestStarts ==
  ASSUME Rest!Init
  PROVE  RestInv
<1>1. Calls \in Nat /\ Window \in Nat \ {0} /\ MaxTime \in Nat
  BY ServicesAssumption DEF ServicesAssumption
<1>2. IsFiniteSet({}) /\ Cardinality({}) = 0  BY FS_EmptySet
<1>3. tried = {} /\ window = [t \in Tool |-> {}] /\ now = 0  BY DEF Rest!Init
<1>4. \A t : Mine(t) = {}  BY <1>3 DEF Mine
<1>5. \A t, time : LetIn(t, time) = {}  BY <1>3 DEF LetIn, Rest!Within
<1>6. RestTyped
  <2>1. /\ answer = [r \in Request |-> "none"] /\ log = [r \in Request |-> {}]
        /\ stamp = [r \in Request |-> None]
    BY DEF Rest!Init
  <2>2. answer \in [Request -> Rest!Status \cup {"none", "reading", "gone"}]  BY <2>1
  <2>3. \A r \in Request : answer[r] # "reading" /\ stamp[r] = None  BY <2>1
  <2>4. log \in [Request -> SUBSET {"success", "error"}]  BY <2>1
  <2>5. window \in [Tool -> SUBSET Rest!Instants]  BY <1>3
  <2>6. /\ limiter \in {"memory", "redis"} /\ crossed = FALSE /\ ran = {}
        /\ tool \in [Request -> Tool \cup {"unknown"}]
    BY DEF Rest!Init
  <2>7. now \in 0..MaxTime  BY <1>1, <1>3
  <2>8. tried \subseteq Rest!Tried /\ ran \subseteq Request  BY <1>3, <2>6
  <2>9. crossed \in BOOLEAN  BY <2>6
  <2>10. stamp \in [Request -> {None} \cup Rest!Instants]  BY <2>1
  <2> QED  BY <2>2, <2>3, <2>4, <2>5, <2>6, <2>7, <2>8, <2>9, <2>10 DEF RestTyped
<1>7. RestFinite  BY <1>2, <1>3 DEF RestFinite
<1>8. RestAsked  BY <1>3 DEF Rest!Init, RestAsked
<1>9. RestHas  BY <1>3 DEF RestHas
<1>10. RestKept  BY <1>4 DEF RestKept
<1>11. RestLimits
  <2>1. On({}) = {}  BY DEF On
  <2> QED  BY <1>1, <1>2, <1>3, <1>5, <2>1 DEF RestLimits
<1> QED  BY <1>6, <1>7, <1>8, <1>9, <1>10, <1>11 DEF RestInv

\* All that is counted is finite.
LEMMA RestSizes ==
  ASSUME RestFinite
  PROVE  /\ \A t, time : IsFiniteSet(LetIn(t, time))
         /\ \A c : IsFiniteSet(Against(c))
<1>1. ASSUME NEW t, NEW time PROVE IsFiniteSet(LetIn(t, time))
  <2>1. LetIn(t, time) \subseteq tried  BY DEF LetIn, Rest!Within
  <2> QED  BY <2>1, FS_Subset DEF RestFinite
<1>2. ASSUME NEW c PROVE IsFiniteSet(Against(c))
  <2>1. Against(c) \subseteq tried  BY DEF Against, Rest!Within
  <2> QED  BY <2>1, FS_Subset DEF RestFinite
<1> QED  BY <1>1, <1>2

\* What is counted, and that it is kept, is the same while the calls, the record, the
\* clock and the stamps are.
LEMMA RestSame ==
  ASSUME RestInv, UNCHANGED <<limiter, now, window, tool, stamp, tried, crossed>>
  PROVE  RestFinite' /\ RestHas' /\ RestKept' /\ RestLimits'
<1>1. \A t : Mine(t)' = Mine(t)  BY DEF Mine
<1>2. \A t, time : LetIn(t, time)' = LetIn(t, time)  BY DEF LetIn, Rest!Within
<1>3. \A c : Against(c)' = Against(c)  BY DEF Against, Rest!Within
<1>4. RestFinite'  BY DEF RestInv, RestFinite
<1>5. RestHas'  BY <1>1 DEF RestInv, RestHas
<1>6. RestKept'
  <2>1. \A t, e : Gone(t, e)' <=> Gone(t, e)  BY DEF Gone
  <2> QED  BY <1>1, <2>1 DEF RestInv, RestKept
<1>7. RestLimits'  BY <1>2, <1>3 DEF RestInv, RestLimits, On
<1> QED  BY <1>4, <1>5, <1>6, <1>7

\* As time goes on, no window has more calls in it.
LEMMA RestTicks ==
  ASSUME RestInv, Rest!Tick
  PROVE  RestInv'
<1>0. Calls \in Nat /\ Window \in Nat \ {0} /\ MaxTime \in Nat /\ now \in Nat
  BY ServicesAssumption DEF ServicesAssumption, RestInv, RestTyped
<1>1. /\ now < MaxTime /\ now' = now + 1
      /\ UNCHANGED <<limiter, window, tool, answer, stamp, log, ran, tried, crossed>>
  BY DEF Rest!Tick
<1>2. \A c \in tried : c.on.at \in Nat /\ c.on.at <= now
  BY DEF RestInv, RestTyped, RestAsked, Rest!Tried, Rest!Instants
<1>3. \A r \in Request : stamp[r] # None => stamp[r].at \in Nat /\ stamp[r].at <= now
  BY DEF RestInv, RestTyped, Rest!Instants
<1>4. RestTyped'
  <2>1. now' \in 0..MaxTime  BY <1>0, <1>1
  <2>2. \A r \in Request : stamp[r] # None => stamp[r].at <= now'  BY <1>0, <1>1, <1>3
  <2> QED  BY <1>1, <2>1, <2>2 DEF RestInv, RestTyped
<1>5. RestFinite'  BY <1>1 DEF RestInv, RestFinite
<1>6. RestAsked'
  <2>1. \A c \in tried : c.on.at <= now'  BY <1>0, <1>1, <1>2
  <2> QED  BY <1>1, <2>1 DEF RestInv, RestAsked
<1>7. \A t : Mine(t)' = Mine(t)  BY <1>1 DEF Mine
<1>8. RestHas'  BY <1>1, <1>7 DEF RestInv, RestHas
<1>9. RestKept'
  <2>1. ASSUME NEW t \in Tool, NEW e \in Mine(t), Gone(t, e) PROVE Gone(t, e)'
    <3>1. e.on.at \in Nat  BY <1>2 DEF Mine
    <3>2. e.on.at + Window <= now'  BY <1>0, <1>1, <2>1, <3>1 DEF Gone
    <3> QED  BY <1>1, <2>1, <3>2 DEF Gone
  <2> QED  BY <1>1, <1>7, <2>1 DEF RestInv, RestKept
<1>10. RestLimits'
  <2>1. \A c : Against(c)' = Against(c)  BY <1>1 DEF Against, Rest!Within
  <2>2. \A t, time : LetIn(t, time)' = LetIn(t, time)  BY <1>1 DEF LetIn, Rest!Within
  <2>3. ASSUME crossed = FALSE, NEW t \in Tool, NEW time \in 0..now'
        PROVE  Cardinality(On(LetIn(t, time))) <= Calls
    <3>1. CASE time \in 0..now  BY <2>3, <3>1 DEF RestInv, RestLimits
    <3>2. CASE time = now + 1
      <4>1. LetIn(t, time) \subseteq LetIn(t, now)
        BY <1>0, <1>2, <3>2 DEF LetIn, Rest!Within
      <4>2. IsFiniteSet(LetIn(t, now))  BY RestSizes DEF RestInv
      <4>3. Cardinality(On(LetIn(t, time))) <= Cardinality(On(LetIn(t, now)))
        BY <4>1, <4>2, OnMore
      <4>4. Cardinality(On(LetIn(t, now))) <= Calls
        <5>1. now \in 0..now  BY <1>0
        <5> QED  BY <2>3, <5>1 DEF RestInv, RestLimits
      <4>5. IsFiniteSet(LetIn(t, time))  BY RestSizes DEF RestInv
      <4>6. /\ Cardinality(On(LetIn(t, now))) \in Nat
            /\ Cardinality(On(LetIn(t, time))) \in Nat
        BY <4>2, <4>5, OnFinite
      <4> QED  BY <1>0, <4>3, <4>4, <4>6
    <3> QED  BY <1>0, <1>1, <3>1, <3>2
  <2> QED  BY <1>1, <2>1, <2>2, <2>3 DEF RestInv, RestLimits, On
<1> QED  BY <1>4, <1>5, <1>6, <1>8, <1>9, <1>10 DEF RestInv

\* The limits speak of the calls alone.
LEMMA LimitsSame ==
  ASSUME RestLimits, UNCHANGED <<limiter, now, tried>>, crossed' = FALSE => crossed = FALSE
  PROVE  RestLimits'
<1>1. \A t, time : LetIn(t, time)' = LetIn(t, time)  BY DEF LetIn, Rest!Within
<1>2. \A c : Against(c)' = Against(c)  BY DEF Against, Rest!Within
<1> QED  BY <1>1, <1>2 DEF RestLimits, On

\* A clock that is read shows no less than the one before.
LEMMA RestAsks ==
  ASSUME RestInv, NEW r \in Request, Rest!Ask(r)
  PROVE  RestInv'
<1>0. Window \in Nat \ {0} /\ now \in Nat /\ now \in 0..MaxTime
  BY ServicesAssumption DEF ServicesAssumption, RestInv, RestTyped
<1>1. /\ answer[r] = "reading" /\ stamp[r] = None /\ limiter = "redis"
      /\ UNCHANGED <<limiter, now, window, tool, answer, log, ran, tried, crossed>>
  BY DEF Rest!Ask
<1>2. PICK id \in Stamps : stamp' = [stamp EXCEPT ![r] = [at |-> now, id |-> id]]
  BY DEF Rest!Ask
<1> DEFINE i == [at |-> now, id |-> id]
<1>3. i \in Rest!Instants /\ i.at = now  BY <1>0 DEF Rest!Instants
<1> HIDE DEF i
<1>4. stamp' = [stamp EXCEPT ![r] = i]  BY <1>2 DEF i
<1>5. /\ stamp' \in [Request -> {None} \cup Rest!Instants]
      /\ stamp'[r] = i /\ \A q \in Request : q # r => stamp'[q] = stamp[q]
  BY <1>3, <1>4 DEF RestInv, RestTyped
<1>6. RestTyped'
  <2>1. now <= now  BY <1>0
  <2>2. \A q \in Request : stamp'[q] # None =>
          /\ answer[q] = "reading" /\ limiter = "redis"
          /\ stamp'[q] \in Rest!Instants /\ stamp'[q].at <= now
    BY <1>1, <1>3, <1>5, <2>1 DEF RestInv, RestTyped
  <2> QED  BY <1>1, <1>5, <2>2 DEF RestInv, RestTyped
<1>7. \A t : Mine(t)' = Mine(t)  BY <1>1 DEF Mine
<1>8. RestFinite' /\ RestAsked' /\ RestHas'
  BY <1>1, <1>7 DEF RestInv, RestFinite, RestAsked, RestHas
<1>9. RestKept'
  <2>1. ASSUME NEW t \in Tool, NEW e \in Mine(t), Gone(t, e) PROVE Gone(t, e)'
    BY <1>1, <1>3, <1>5, <2>1 DEF Gone
  <2> QED  BY <1>1, <1>7, <2>1 DEF RestInv, RestKept
<1> QED  BY <1>1, <1>6, <1>8, <1>9, LimitsSame DEF RestInv

\* A key that expires was needed by no pipeline to come, or they cross.
LEMMA RestExpires ==
  ASSUME RestInv, NEW t \in Tool, Rest!Expire(t)
  PROVE  RestInv'
<1>0. Window \in Nat \ {0} /\ now \in Nat
  BY ServicesAssumption DEF ServicesAssumption, RestInv, RestTyped
<1>1. /\ limiter = "redis" /\ window' = [window EXCEPT ![t] = {}]
      /\ UNCHANGED <<limiter, now, tool, answer, stamp, log, ran, tried>>
      /\ \A c \in window[t] : c.at + Window < now
  BY DEF Rest!Expire
<1>2. PICK x \in BOOLEAN :
        /\ x <=> \E r \in Request, c \in window[t] :
                   stamp[r] # None /\ tool[r] = t /\ stamp[r].at < c.at + Window
        /\ crossed' = (crossed \/ x)
  BY DEF Rest!Expire
<1>3. /\ window' \in [Tool -> SUBSET Rest!Instants] /\ window'[t] = {}
      /\ \A u \in Tool : u # t => window'[u] = window[u]
  BY <1>1 DEF RestInv, RestTyped
<1>4. crossed' \in BOOLEAN /\ (crossed' = FALSE => crossed = FALSE /\ x = FALSE)
  BY <1>2, Zenon DEF RestInv, RestTyped
<1>5. RestTyped'  BY <1>1, <1>3, <1>4 DEF RestInv, RestTyped
<1>6. \A u : Mine(u)' = Mine(u)  BY <1>1 DEF Mine
<1>7. RestFinite'  BY <1>1, <1>3, FS_EmptySet DEF RestInv, RestFinite
<1>8. RestAsked'  BY <1>1 DEF RestInv, RestAsked
<1>9. RestHas'  BY <1>3, <1>6 DEF RestInv, RestHas
<1>10. RestKept'
  <2> SUFFICES ASSUME crossed' = FALSE, NEW u \in Tool, NEW e \in Mine(u)
               PROVE  e.on \in window'[u] \/ Gone(u, e)'
    BY <1>6 DEF RestKept
  <2>1. e.on \in window[u] \/ Gone(u, e)  BY <1>4 DEF RestInv, RestKept
  <2>2. CASE u # t
    <3>1. window'[u] = window[u]  BY <1>3, <2>2
    <3> QED  BY <1>1, <2>1, <3>1 DEF Gone
  <2>3. CASE u = t
    <3>1. ASSUME NEW r \in Request, tool[r] = t, stamp[r] # None, NEW k \in window[t]
          PROVE  k.at \in Nat /\ stamp[r].at \in Nat /\ k.at + Window <= stamp[r].at
      <4>1. k.at \in Nat /\ stamp[r].at \in Nat
        BY <3>1 DEF RestInv, RestTyped, Rest!Instants
      <4>2. ~(stamp[r].at < k.at + Window)  BY <1>2, <1>4, <3>1
      <4> QED  BY <1>0, <4>1, <4>2
    <3>2. CASE e.on \in window[t]
      <4>1. e.on.at \in Nat  BY <3>2 DEF RestInv, RestTyped, Rest!Instants
      <4>2. e.on.at + Window <= now  BY <1>0, <1>1, <3>2, <4>1
      <4> QED  BY <1>1, <2>3, <3>1, <3>2, <4>2 DEF Gone
    <3>3. CASE Gone(t, e)
      <4>1. \A r \in Request : tool[r] = t /\ stamp[r] # None =>
              e.on.at + Window <= stamp[r].at
        <5> SUFFICES ASSUME NEW r \in Request, tool[r] = t, stamp[r] # None,
                            NEW k \in window[t], stamp[r].at < k.at
                     PROVE  FALSE
          BY <3>3 DEF Gone
        <5> QED  BY <1>0, <3>1
      <4> QED  BY <1>1, <2>3, <3>3, <4>1 DEF Gone
    <3> QED  BY <2>1, <2>3, <3>2, <3>3
  <2> QED  BY <2>2, <2>3
<1> QED  BY <1>1, <1>4, <1>5, <1>7, <1>8, <1>9, <1>10, LimitsSame DEF RestInv

\* An answer without the limiter's.
LEMMA RestSays ==
  ASSUME RestInv, NEW r \in Request, answer[r] \in {"none", "reading"},
         NEW code \in {"404", "reading", "400", "422", "500", "gone"},
         answer' = [answer EXCEPT ![r] = code],
         code = "reading" => tool[r] \in Tool,
         stamp' = [stamp EXCEPT ![r] = None],
         UNCHANGED <<limiter, now, window, tool, log, ran, tried, crossed>>
  PROVE  RestInv'
<1>1. /\ answer \in [Request -> Rest!Status \cup {"none", "reading", "gone"}]
      /\ answer'[r] = code /\ \A q \in Request : q # r => answer'[q] = answer[q]
      /\ stamp'[r] = None /\ \A q \in Request : q # r => stamp'[q] = stamp[q]
  BY DEF RestInv, RestTyped
<1>2. RestTyped'
  <2>1. answer' \in [Request -> Rest!Status \cup {"none", "reading", "gone"}]
    BY <1>1 DEF Rest!Status
  <2>2. stamp' \in [Request -> {None} \cup Rest!Instants]  BY DEF RestInv, RestTyped
  <2>3. \A q \in Request : stamp'[q] # None =>
          /\ answer'[q] = "reading" /\ limiter = "redis"
          /\ stamp'[q] \in Rest!Instants /\ stamp'[q].at <= now
    BY <1>1 DEF RestInv, RestTyped
  <2> QED  BY <1>1, <2>1, <2>2, <2>3 DEF RestInv, RestTyped
<1>3. \A t : Mine(t)' = Mine(t)  BY DEF Mine
<1>4. RestFinite' /\ RestHas'  BY <1>3 DEF RestInv, RestFinite, RestHas
<1>5. RestAsked'
  <2>1. r \notin ran /\ \A c \in tried : c.by # r  BY DEF RestInv, RestAsked
  <2>2. \A c \in tried : c.by \in Request  BY DEF RestInv, RestTyped, Rest!Tried
  <2>3. \A c \in tried : answer'[c.by] = answer[c.by]  BY <1>1, <2>1, <2>2
  <2>4. ASSUME NEW q \in Request
        PROVE  /\ log[q] # {} => q \in ran
               /\ q \in ran => answer'[q] \in {"200", "500"}
               /\ answer'[q] = "200" => q \in ran
               /\ "error" \in log[q] => answer'[q] = "500"
               /\ q \in ran \/ answer'[q] = "dry" => \E c \in tried : c.by = q /\ c.said = "yes"
               /\ answer'[q] = "429" <=> \E c \in tried : c.by = q /\ c.said = "no"
    <3>1. CASE q = r
      <4>1. log[r] = {}  BY <2>1 DEF RestInv, RestAsked
      <4>2. answer'[r] \notin {"200", "dry", "429"}  BY <1>1
      <4> QED  BY <2>1, <3>1, <4>1, <4>2
    <3>2. CASE q # r
      <4>1. answer'[q] = answer[q]  BY <1>1, <3>2
      <4> QED  BY <4>1 DEF RestInv, RestAsked
    <3> QED  BY <3>1, <3>2
  <2> QED  BY <2>3, <2>4 DEF RestInv, RestAsked
<1>6. RestKept'
  <2>1. ASSUME NEW t \in Tool, NEW e \in Mine(t), Gone(t, e) PROVE Gone(t, e)'
    BY <1>1, <2>1 DEF Gone
  <2> QED  BY <1>3, <2>1 DEF RestInv, RestKept
<1> QED  BY <1>2, <1>4, <1>5, <1>6, LimitsSame DEF RestInv

\* What a call at an instant makes of the record of its tool.
Recorded(t, i, new) ==
  /\ t \in Tool /\ i \in Rest!Instants /\ i.at <= now
  /\ limiter = "memory" => i.at = now /\ i.id = new.by
  /\ limiter = "redis" => stamp[new.by] # None /\ i = stamp[new.by]
  /\ new \in Rest!Tried /\ new.tool = t /\ new.on = i
  /\ answer[new.by] = "reading" /\ tool[new.by] = t
  /\ tried' = tried \cup {new}
  /\ new.said = "lost" => limiter = "redis"
  /\ stamp' = [stamp EXCEPT ![new.by] = None]
  /\ UNCHANGED <<limiter, now, tool>>

\* What stays of the record.
Stays(t, i) == {c \in window[t] : i.at < c.at + Window}

Noted(t, i, new) ==
  /\ window'[t] = Stays(t, i) \cup (IF new \in Mine(t)' THEN {i} ELSE {})
  /\ window' \in [Tool -> SUBSET Rest!Instants]
  /\ \A u \in Tool : u # t => window'[u] = window[u]
  /\ crossed' \in BOOLEAN
  /\ crossed' = FALSE => crossed = FALSE /\ \A k \in window[t] : k.at <= i.at
  /\ limiter = "memory" => crossed' = FALSE
  /\ new.said = "yes" => Cardinality(Stays(t, i)) < Calls
  /\ new.said = "no" => ~(Cardinality(Stays(t, i)) < Calls)

\* Those are what an answer of the limiter does.
LEMMA Recording ==
  ASSUME RestInv, NEW r \in Request, Rest!Due(r), NEW said \in {"yes", "no", "lost"},
         Rest!Record(r, said), UNCHANGED <<limiter, now, tool>>,
         said = "lost" => limiter = "redis",
         said = "yes" => Rest!Allowed(r), said = "no" => ~Rest!Allowed(r)
  PROVE  \E i, new : /\ Recorded(tool[r], i, new) /\ Noted(tool[r], i, new)
                     /\ new.by = r /\ new.said = said
<1> DEFINE t == tool[r]
           i == Rest!Instant(r)
           new == [by |-> r, tool |-> t, on |-> i, said |-> said]
<1>0. now \in 0..MaxTime /\ now \in Nat /\ Window \in Nat \ {0}
  BY ServicesAssumption DEF ServicesAssumption, RestInv, RestTyped
<1>1. t \in Tool /\ answer[r] = "reading" /\ (limiter = "memory" <=> stamp[r] = None)
  BY DEF Rest!Due, RestInv, RestTyped
<1>2. /\ i \in Rest!Instants /\ i.at <= now
      /\ limiter = "memory" => i.at = now /\ i.id = r
      /\ limiter = "redis" => stamp[r] # None /\ i = stamp[r]
  <2>1. CASE stamp[r] = None
    <3>1. i = [at |-> now, id |-> r]  BY <2>1 DEF Rest!Instant
    <3> QED  BY <1>0, <1>1, <2>1, <3>1 DEF Rest!Instants
  <2>2. CASE stamp[r] # None
    <3>1. i = stamp[r]  BY <2>2 DEF Rest!Instant
    <3> QED  BY <1>1, <2>2, <3>1 DEF RestInv, RestTyped
  <2> QED  BY <2>1, <2>2
<1>3. Rest!Kept(r) = Stays(t, i)  BY DEF Rest!Kept, Stays
<1>4. PICK x \in BOOLEAN :
        /\ x <=> \E c \in window[t] : i.at < c.at
        /\ crossed' = (crossed \/ x)
  BY DEF Rest!Record
<1>5. /\ window' = [window EXCEPT ![t] =
            Stays(t, i) \cup (IF limiter = "redis" \/ said = "yes" THEN {i} ELSE {})]
      /\ stamp' = [stamp EXCEPT ![r] = None] /\ tried' = tried \cup {new}
  BY <1>3 DEF Rest!Record
<1> HIDE DEF i
<1>6. new \in Rest!Tried  BY <1>1, <1>2 DEF Rest!Tried
<1>7. /\ new.by = r /\ new.tool = t /\ new.on = i /\ new.said = said  OBVIOUS
<1> HIDE DEF new
<1>8. Recorded(t, i, new)  BY <1>1, <1>2, <1>5, <1>6, <1>7 DEF Recorded
<1>9. new \in Mine(t)' <=> limiter = "redis" \/ said = "yes"
  <2>1. new \in tried' /\ limiter \in {"memory", "redis"}  BY <1>5 DEF RestInv, RestTyped
  <2>2. limiter' = limiter  OBVIOUS
  <2> QED  BY <1>7, <2>1, <2>2 DEF Mine
<1> HIDE DEF t
<1>10. /\ window'[t] = Stays(t, i) \cup (IF new \in Mine(t)' THEN {i} ELSE {})
       /\ window' \in [Tool -> SUBSET Rest!Instants]
       /\ \A u \in Tool : u # t => window'[u] = window[u]
  <2> DEFINE some == Stays(t, i) \cup (IF limiter = "redis" \/ said = "yes" THEN {i} ELSE {})
  <2>1. window \in [Tool -> SUBSET Rest!Instants]  BY DEF RestInv, RestTyped
  <2>2. some \in SUBSET Rest!Instants  BY <1>1, <1>2, <2>1 DEF Stays
  <2>3. some = Stays(t, i) \cup (IF new \in Mine(t)' THEN {i} ELSE {})  BY <1>9
  <2>4. window' = [window EXCEPT ![t] = some]  BY <1>5
  <2> HIDE DEF some
  <2>5. window'[t] = some  BY <1>1, <2>1, <2>4
  <2>6. window' \in [Tool -> SUBSET Rest!Instants]
        /\ \A u \in Tool : u # t => window'[u] = window[u]
    BY <1>1, <2>1, <2>2, <2>4
  <2> QED  BY <2>3, <2>5, <2>6
<1>11. /\ crossed' \in BOOLEAN
       /\ crossed' = FALSE => crossed = FALSE /\ x = FALSE
       /\ crossed = FALSE /\ x = FALSE => crossed' = FALSE
  BY <1>4, Zenon DEF RestInv, RestTyped
<1>12. \A k \in window[t] : k.at \in Nat  BY <1>1 DEF RestInv, RestTyped, Rest!Instants
<1>13. i.at \in Nat  BY <1>2 DEF Rest!Instants
<1>14. crossed' = FALSE => crossed = FALSE /\ \A k \in window[t] : k.at <= i.at
  <2> SUFFICES ASSUME crossed' = FALSE, NEW k \in window[t] PROVE k.at <= i.at
    BY <1>11
  <2>1. ~(i.at < k.at)  BY <1>4, <1>11
  <2> QED  BY <1>12, <1>13, <2>1
<1>15. limiter = "memory" => crossed' = FALSE
  <2> SUFFICES ASSUME limiter = "memory" PROVE crossed' = FALSE  OBVIOUS
  <2>1. crossed = FALSE  BY DEF RestInv, RestAsked
  <2>2. ~\E c \in window[t] : i.at < c.at
    <3> SUFFICES ASSUME NEW c \in window[t], i.at < c.at PROVE FALSE  OBVIOUS
    <3>1. PICK e \in Mine(t) : e.on = c  BY <1>1 DEF RestInv, RestHas
    <3>2. e.on.at <= now  BY DEF Mine, RestInv, RestAsked
    <3> QED  BY <1>0, <1>2, <1>12, <3>1, <3>2
  <2>3. x = FALSE  BY <1>4, <2>2, Zenon
  <2> QED  BY <1>11, <2>1, <2>3
<1>16. /\ said = "yes" => Cardinality(Stays(t, i)) < Calls
       /\ said = "no" => ~(Cardinality(Stays(t, i)) < Calls)
  BY <1>3, OneCount DEF Rest!Allowed, t
<1>17. Noted(t, i, new)  BY <1>7, <1>10, <1>11, <1>14, <1>15, <1>16 DEF Noted
<1> QED  BY <1>7, <1>8, <1>17 DEF t

\* The record has the new call, and what could still be needed of the others.
LEMMA RecordedKept ==
  ASSUME RestInv, NEW t, NEW i, NEW new, Recorded(t, i, new), Noted(t, i, new)
  PROVE  RestFinite' /\ RestHas' /\ RestKept'
<1>0. now \in Nat /\ Window \in Nat \ {0}
  BY ServicesAssumption DEF ServicesAssumption, RestInv, RestTyped
<1>1. /\ t \in Tool /\ i \in Rest!Instants /\ i.at \in Nat /\ i.at <= now
      /\ new.on = i /\ new.tool = t /\ tried' = tried \cup {new}
      /\ limiter' = limiter /\ now' = now /\ tool' = tool
      /\ limiter \in {"memory", "redis"}
      /\ limiter = "memory" => i.at = now
  BY DEF Recorded, Rest!Instants, RestInv, RestTyped
<1>2. /\ window'[t] = Stays(t, i) \cup (IF new \in Mine(t)' THEN {i} ELSE {})
      /\ \A u \in Tool : u # t => window'[u] = window[u]
      /\ crossed' = FALSE => crossed = FALSE /\ \A k \in window[t] : k.at <= i.at
  BY DEF Noted
<1>3. \A u \in Tool : Mine(u) \subseteq Mine(u)' /\ Mine(u)' \subseteq Mine(u) \cup {new}
  BY <1>1 DEF Mine
<1>4. \A u \in Tool : u # t => Mine(u)' = Mine(u)  BY <1>1 DEF Mine
<1>5. \A q \in Request : stamp'[q] # None => stamp'[q] = stamp[q]
  BY DEF Recorded, RestInv, RestTyped
<1>6. RestFinite'
  <2>1. IsFiniteSet(tried')  BY <1>1, FS_AddElement DEF RestInv, RestFinite
  <2>2. ASSUME NEW u \in Tool PROVE IsFiniteSet(window'[u])
    <3>1. IsFiniteSet(window[u])  BY DEF RestInv, RestFinite
    <3>2. CASE u # t  BY <1>2, <3>1, <3>2
    <3>3. CASE u = t
      <4>1. Stays(t, i) \subseteq window[u]  BY <3>3 DEF Stays
      <4>2. IsFiniteSet(Stays(t, i))  BY <3>1, <4>1, FS_Subset
      <4>3. IsFiniteSet(Stays(t, i) \cup {i})  BY <4>2, FS_AddElement
      <4>4. window'[u] = Stays(t, i) \/ window'[u] = Stays(t, i) \cup {i}
        BY <1>2, <3>3
      <4> QED  BY <4>2, <4>3, <4>4
    <3> QED  BY <3>2, <3>3
  <2> QED  BY <2>1, <2>2 DEF RestFinite
<1>7. RestHas'
  <2> SUFFICES ASSUME NEW u \in Tool, NEW k \in window'[u]
               PROVE  \E e \in Mine(u)' : e.on = k
    BY DEF RestHas
  <2>1. CASE k \in window[u]
    <3>1. PICK e \in Mine(u) : e.on = k  BY <2>1 DEF RestInv, RestHas
    <3> QED  BY <1>3, <3>1
  <2>2. CASE k \notin window[u]
    <3>1. u = t /\ new \in Mine(t)' /\ k = i  BY <1>2, <2>2 DEF Stays
    <3> QED  BY <1>1, <3>1
  <2> QED  BY <2>1, <2>2
<1>8. RestKept'
  <2> SUFFICES ASSUME crossed' = FALSE, NEW u \in Tool, NEW e \in Mine(u)'
               PROVE  e.on \in window'[u] \/ Gone(u, e)'
    BY DEF RestKept
  <2>1. crossed = FALSE /\ \A k \in window[t] : k.at <= i.at  BY <1>2
  <2>2. CASE u # t
    <3>1. e \in Mine(u) /\ window'[u] = window[u]  BY <1>2, <1>4, <2>2
    <3>2. e.on \in window[u] \/ Gone(u, e)  BY <2>1, <3>1 DEF RestInv, RestKept
    <3>3. Gone(u, e) => Gone(u, e)'  BY <1>1, <1>5, <3>1 DEF Gone
    <3> QED  BY <3>1, <3>2, <3>3
  <2>3. CASE u = t /\ e = new
    BY <1>1, <1>2, <2>3
  <2>4. CASE u = t /\ e # new
    <3>1. e \in Mine(t)  BY <1>3, <2>4
    <3>2. e.on \in window[t] \/ Gone(t, e)  BY <1>1, <2>1, <3>1 DEF RestInv, RestKept
    <3>3. e.on.at \in Nat  BY <3>1 DEF Mine, RestInv, RestTyped, Rest!Tried, Rest!Instants
    <3>4. CASE e.on \in window[t] /\ i.at < e.on.at + Window
      BY <1>2, <2>4, <3>4 DEF Stays
    <3>5. CASE e.on \notin window[t] \/ e.on.at + Window <= i.at
      <4>1. e.on.at + Window <= now  BY <1>0, <1>1, <3>2, <3>3, <3>5 DEF Gone
      <4>2. ASSUME NEW q \in Request, tool[q] = t, stamp'[q] # None
            PROVE  e.on.at + Window <= stamp'[q].at \/ \E k \in window'[t] : stamp'[q].at < k.at
        <5>1. /\ stamp'[q] = stamp[q] /\ stamp[q] # None /\ stamp[q].at \in Nat
              /\ limiter = "redis"
          BY <1>5, <4>2 DEF RestInv, RestTyped, Rest!Instants
        <5>2. i \in window'[t]
          <6>1. new \in Mine(t)'  BY <1>1, <5>1 DEF Mine
          <6> QED  BY <1>2, <6>1
        <5>3. CASE stamp[q].at < i.at  BY <5>1, <5>2, <5>3
        <5>4. CASE ~(stamp[q].at < i.at) /\ e.on.at + Window <= i.at
          BY <1>0, <1>1, <3>3, <5>1, <5>4
        <5>5. CASE e.on \notin window[t]
          <6>1. \/ e.on.at + Window <= stamp[q].at
                \/ \E k \in window[t] : stamp[q].at < k.at
            BY <3>2, <4>2, <5>1, <5>5 DEF Gone
          <6>2. \A k \in window[t] : k.at \in Nat  BY <1>1 DEF RestInv, RestTyped, Rest!Instants
          <6>3. (\E k \in window[t] : stamp[q].at < k.at) => stamp[q].at < i.at
            BY <1>1, <2>1, <5>1, <6>2
          <6> QED  BY <5>1, <5>3, <6>1, <6>3
        <5> QED  BY <3>5, <5>3, <5>4, <5>5
      <4> QED  BY <1>1, <2>4, <4>1, <4>2 DEF Gone
    <3> QED  BY <1>0, <1>1, <3>3, <3>4, <3>5
  <2> QED  BY <2>2, <2>3, <2>4
<1> QED  BY <1>6, <1>7, <1>8

\* No more are let in than the limit, and none is refused with fewer.
LEMMA RecordedLimits ==
  ASSUME RestInv, NEW t, NEW i, NEW new, Recorded(t, i, new), Noted(t, i, new)
  PROVE  RestLimits'
<1>0. Calls \in Nat /\ now \in Nat /\ Window \in Nat \ {0}
  BY ServicesAssumption DEF ServicesAssumption, RestInv, RestTyped
<1>1. /\ t \in Tool /\ i.at \in Nat /\ i.at <= now
      /\ new.on = i /\ new.tool = t /\ tried' = tried \cup {new}
      /\ limiter' = limiter /\ now' = now /\ new.by \in Request
  BY DEF Recorded, Rest!Instants, Rest!Tried
<1>2. /\ crossed' = FALSE => crossed = FALSE /\ \A k \in window[t] : k.at <= i.at
      /\ new.said = "yes" => Cardinality(Stays(t, i)) < Calls
      /\ new.said = "no" => ~(Cardinality(Stays(t, i)) < Calls)
  BY DEF Noted
<1>3. \A c \in tried : c # new
  BY DEF Recorded, RestInv, RestAsked
<1>4. \A e \in tried : e.on.at \in Nat  BY DEF RestInv, RestTyped, Rest!Tried, Rest!Instants
<1>5. IsFiniteSet(Stays(t, i)) /\ Cardinality(Stays(t, i)) \in Nat
  <2>1. Stays(t, i) \subseteq window[t] /\ IsFiniteSet(window[t])
    BY <1>1 DEF Stays, RestInv, RestFinite
  <2> QED  BY <2>1, FS_Subset, FS_CardinalityType
<1>6. RestFinite'  BY RecordedKept
<1>7. ASSUME NEW u \in Tool, NEW time \in 0..now, crossed' = FALSE
      PROVE  Cardinality(On(LetIn(u, time))') <= Calls
  <2>1. Cardinality(On(LetIn(u, time))) <= Calls  BY <1>2, <1>7 DEF RestInv, RestLimits
  <2>2. CASE ~(u = t /\ i.at <= time /\ time < i.at + Window /\ new.said = "yes")
    <3>1. LetIn(u, time)' = LetIn(u, time)  BY <1>1, <2>2 DEF LetIn, Rest!Within
    <3> QED  BY <2>1, <3>1 DEF On
  <2>3. CASE u = t /\ i.at <= time /\ time < i.at + Window /\ new.said = "yes"
    <3> DEFINE A == On(LetIn(u, time))'
               B == Stays(t, i) \cup {i}
    <3>1. ASSUME NEW e \in LetIn(t, time) PROVE e.on \in Stays(t, i)
      <4>1. /\ e \in Mine(t) /\ e.on.at <= time /\ time < e.on.at + Window
            /\ e.on.at \in Nat
        BY <1>4 DEF LetIn, Rest!Within, Mine
      <4>2. i.at < e.on.at + Window  BY <1>0, <1>1, <2>3, <4>1
      <4>3. e.on \in window[t] \/ Gone(t, e)  BY <1>1, <1>2, <1>7, <4>1 DEF RestInv, RestKept
      <4>4. ~Gone(t, e)
        <5> SUFFICES ASSUME Gone(t, e) PROVE FALSE  OBVIOUS
        <5>1. CASE limiter = "memory"
          <6>1. i.at = now  BY <5>1 DEF Recorded
          <6>2. e.on.at + Window <= now  BY DEF Gone
          <6> QED  BY <1>0, <4>1, <4>2, <6>1, <6>2
        <5>2. CASE limiter = "redis"
          <6>1. stamp[new.by] # None /\ i = stamp[new.by] /\ tool[new.by] = t
            BY <5>2 DEF Recorded
          <6>2. e.on.at + Window <= i.at \/ \E k \in window[t] : i.at < k.at
            BY <1>1, <6>1 DEF Gone
          <6>3. \A k \in window[t] : k.at \in Nat /\ k.at <= i.at
            BY <1>1, <1>2, <1>7 DEF RestInv, RestTyped, Rest!Instants
          <6> QED  BY <1>0, <1>1, <4>1, <4>2, <6>2, <6>3
        <5> QED  BY <5>1, <5>2 DEF RestInv, RestTyped
      <4> QED  BY <4>2, <4>3, <4>4 DEF Stays
    <3>2. A \subseteq B
      <4> SUFFICES ASSUME NEW c \in LetIn(t, time)' PROVE c.on \in B
        BY <2>3 DEF On
      <4>1. c = new \/ c \in LetIn(t, time)  BY <1>1 DEF LetIn, Rest!Within
      <4> QED  BY <1>1, <3>1, <4>1
    <3>3. IsFiniteSet(B) /\ Cardinality(B) <= Cardinality(Stays(t, i)) + 1
          /\ Cardinality(B) \in Nat
      BY <1>5, FS_AddElement, FS_CardinalityType
    <3> HIDE DEF A, B
    <3>4. Cardinality(A) <= Cardinality(B) /\ Cardinality(A) \in Nat
      BY <3>2, <3>3, FS_Subset, FS_CardinalityType
    <3>5. Cardinality(A) <= Calls  BY <1>0, <1>2, <1>5, <2>3, <3>3, <3>4
    <3> QED  BY <3>5 DEF A
  <2> QED  BY <2>2, <2>3
<1>8. ASSUME NEW c \in tried', c.said = "no", crossed' = FALSE
      PROVE  Cardinality(On(Against(c))') >= Calls
  <2>1. IsFiniteSet(Against(c)')
    <3>1. Against(c)' \subseteq tried'  BY DEF Against, Rest!Within
    <3> QED  BY <1>6, <3>1, FS_Subset DEF RestFinite
  <2>2. CASE c \in tried
    <3>1. Against(c) \subseteq Against(c)'  BY <1>1 DEF Against, Rest!Within
    <3> DEFINE A == Against(c)
               B == Against(c)'
    <3>2. A \subseteq B /\ IsFiniteSet(B) /\ IsFiniteSet(A)
      BY <2>1, <3>1, FS_Subset
    <3> HIDE DEF A, B
    <3>3. Cardinality(On(A)) <= Cardinality(On(B))  BY <3>2, OnMore
    <3>4. Cardinality(On(A)) \in Nat /\ Cardinality(On(B)) \in Nat  BY <3>2, OnFinite
    <3>5. Cardinality(On(A)) >= Calls  BY <1>2, <1>8, <2>2 DEF RestInv, RestLimits, A
    <3>6. Cardinality(On(B)) >= Calls  BY <1>0, <3>3, <3>4, <3>5
    <3> QED  BY <3>6 DEF B, On
  <2>3. CASE c = new
    <3> DEFINE A == Stays(t, i)
               B == On(Against(c))'
    <3>1. A \subseteq B
      <4> SUFFICES ASSUME NEW k \in Stays(t, i) PROVE \E e \in Against(new)' : e.on = k
        BY <2>3 DEF On
      <4>1. k \in window[t] /\ i.at < k.at + Window /\ k.at <= i.at
        BY <1>2, <1>8 DEF Stays
      <4>2. PICK e \in Mine(t) : e.on = k  BY <1>1, <4>1 DEF RestInv, RestHas
      <4>3. e \in tried /\ e \in tried' /\ e # new /\ e.tool = t
            /\ (limiter = "memory" => e.said = "yes")
        BY <1>1, <1>3, <4>2 DEF Mine
      <4>4. e \in Rest!Within(t, i.at)'  BY <1>1, <4>1, <4>2, <4>3 DEF Rest!Within
      <4> QED  BY <1>1, <4>2, <4>3, <4>4 DEF Against
    <3>2. IsFiniteSet(B)
      <4> DEFINE S == Against(c)'
      <4>1. IsFiniteSet(S)  BY <2>1
      <4> HIDE DEF S
      <4>2. IsFiniteSet(On(S))  BY <4>1, OnFinite
      <4> QED  BY <4>2 DEF S, On
    <3> HIDE DEF A, B
    <3>3. Cardinality(A) <= Cardinality(B) /\ Cardinality(B) \in Nat
      BY <3>1, <3>2, FS_Subset, FS_CardinalityType
    <3>4. ~(Cardinality(A) < Calls) /\ Cardinality(A) \in Nat
      BY <1>2, <1>5, <1>8, <2>3 DEF A
    <3>5. Cardinality(B) >= Calls  BY <1>0, <3>3, <3>4
    <3> QED  BY <3>5 DEF B
  <2> QED  BY <1>1, <2>2, <2>3
<1> QED  BY <1>1, <1>7, <1>8 DEF RestLimits

\* An answer of the limiter to a request, and what is on record of it.
LEMMA RestAnswers ==
  ASSUME RestInv, NEW t, NEW i, NEW new, Recorded(t, i, new), Noted(t, i, new),
         NEW code \in {"429", "dry", "200", "500"},
         answer' = [answer EXCEPT ![new.by] = code],
         new.said = "no" <=> code = "429",
         code \in {"dry", "200"} => new.said = "yes",
         NEW written \in SUBSET {"success", "error"},
         log' = [log EXCEPT ![new.by] = written],
         ran' = ran \/ (ran' = ran \cup {new.by} /\ new.said = "yes" /\ code \in {"200", "500"}),
         code = "200" \/ written # {} => new.by \in ran',
         "error" \in written => code = "500"
  PROVE  RestInv'
<1> DEFINE r == new.by
<1>0. now \in Nat /\ now \in 0..MaxTime
  BY ServicesAssumption DEF ServicesAssumption, RestInv, RestTyped
<1>1. /\ r \in Request /\ t \in Tool /\ tried' = tried \cup {new} /\ new \in Rest!Tried
      /\ new.on = i /\ new.tool = t /\ i.at <= now /\ answer[r] = "reading"
      /\ limiter = "memory" => i.id = r
      /\ limiter' = limiter /\ now' = now /\ tool' = tool
      /\ stamp' = [stamp EXCEPT ![r] = None]
  BY DEF Recorded, Rest!Tried
<1> HIDE DEF r
<1>2. /\ answer'[r] = code /\ log'[r] = written /\ stamp'[r] = None
      /\ \A q \in Request : q # r =>
           answer'[q] = answer[q] /\ log'[q] = log[q] /\ stamp'[q] = stamp[q]
  BY <1>1 DEF r, RestInv, RestTyped
<1>3. RestTyped'
  <2>1. answer' \in [Request -> Rest!Status \cup {"none", "reading", "gone"}]
    BY <1>1 DEF r, Rest!Status, RestInv, RestTyped
  <2>2. log' \in [Request -> SUBSET {"success", "error"}] /\ ran' \subseteq Request
    BY <1>1 DEF r, RestInv, RestTyped
  <2>3. stamp' \in [Request -> {None} \cup Rest!Instants]  BY <1>1 DEF RestInv, RestTyped
  <2>4. window' \in [Tool -> SUBSET Rest!Instants] /\ crossed' \in BOOLEAN  BY DEF Noted
  <2>5. tried' \subseteq Rest!Tried  BY <1>1 DEF RestInv, RestTyped
  <2>6. \A q \in Request : answer'[q] = "reading" => tool'[q] \in Tool
    BY <1>1, <1>2 DEF RestInv, RestTyped
  <2>7. \A q \in Request : stamp'[q] # None =>
          /\ answer'[q] = "reading" /\ limiter' = "redis"
          /\ stamp'[q] \in Rest!Instants /\ stamp'[q].at <= now'
    BY <1>1, <1>2 DEF RestInv, RestTyped
  <2>8. limiter' \in {"memory", "redis"} /\ now' \in 0..MaxTime
        /\ tool' \in [Request -> Tool \cup {"unknown"}]
    BY <1>0, <1>1 DEF RestInv, RestTyped
  <2> QED  BY <2>1, <2>2, <2>3, <2>4, <2>5, <2>6, <2>7, <2>8 DEF RestTyped
<1>4. \A c \in tried : c.by # r /\ c.by \in Request
  BY <1>1 DEF RestInv, RestAsked, RestTyped, Rest!Tried
<1>5. RestAsked'
  <2>1. \A c \in tried' : c.on.at <= now' /\ answer'[c.by] \in {"429", "dry", "200", "500"}
    BY <1>1, <1>2, <1>4 DEF r, RestInv, RestAsked
  <2>2. \A c, d \in tried' : c.by = d.by => c = d
    BY <1>1, <1>4 DEF r, RestInv, RestAsked
  <2>3. limiter' = "memory" => crossed' = FALSE /\ \A c \in tried' : c.on.id = c.by
    BY <1>1 DEF r, Noted, RestInv, RestAsked
  <2>4. r \notin ran  BY <1>1 DEF RestInv, RestAsked
  <2>5. ASSUME NEW q \in Request
        PROVE  /\ log'[q] # {} => q \in ran'
               /\ q \in ran' => answer'[q] \in {"200", "500"}
               /\ answer'[q] = "200" => q \in ran'
               /\ "error" \in log'[q] => answer'[q] = "500"
               /\ q \in ran' \/ answer'[q] = "dry" =>
                    \E c \in tried' : c.by = q /\ c.said = "yes"
               /\ answer'[q] = "429" <=> \E c \in tried' : c.by = q /\ c.said = "no"
    <3>1. CASE q = r
      <4>1. new \in tried' /\ new.by = r  BY <1>1 DEF r
      <4>2. \A c \in tried' : c.by = r => c = new  BY <1>1, <1>4
      <4>3. r \in ran' => new.said = "yes" /\ code \in {"200", "500"}  BY <2>4
      <4>4. code = "200" \/ written # {} => r \in ran'  BY DEF r
      <4> QED  BY <1>2, <3>1, <4>1, <4>2, <4>3, <4>4
    <3>2. CASE q # r
      <4>1. q \in ran' <=> q \in ran  BY <3>2 DEF r
      <4>2. answer'[q] = answer[q] /\ log'[q] = log[q]  BY <1>2, <3>2
      <4>3. tried \subseteq tried' /\ \A c \in tried' : c.by = q => c \in tried
        BY <1>1, <3>2 DEF r
      <4> QED  BY <4>1, <4>2, <4>3 DEF RestInv, RestAsked
    <3> QED  BY <3>1, <3>2
  <2> QED  BY <2>1, <2>2, <2>3, <2>5 DEF RestAsked
<1>6. RestFinite' /\ RestHas' /\ RestKept' /\ RestLimits'  BY RecordedKept, RecordedLimits
<1> QED  BY <1>3, <1>5, <1>6 DEF RestInv

\* Every step of the server keeps the invariant.
LEMMA RestKeeps ==
  ASSUME RestInv, [Rest!Next]_restVars
  PROVE  RestInv'
<1>1. CASE UNCHANGED restVars
  <2>1. UNCHANGED <<limiter, now, window, tool, answer, stamp, log, ran, tried, crossed>>
    BY <1>1 DEF restVars
  <2>2. RestTyped' /\ RestAsked'  BY <2>1 DEF RestInv, RestTyped, RestAsked
  <2> QED  BY <2>1, <2>2, RestSame DEF RestInv
<1>2. CASE Rest!Tick  BY <1>2, RestTicks
<1>3. ASSUME NEW t \in Tool, Rest!Expire(t)
      PROVE  RestInv'
  BY <1>3, RestExpires
<1>4. ASSUME NEW r \in Request, Rest!Arrive(r)
      PROVE  RestInv'
  <2>1. PICK code \in {"404", "reading"} :
          /\ code = IF tool[r] = "unknown" THEN "404" ELSE "reading"
          /\ answer' = [answer EXCEPT ![r] = code]
    BY <1>4 DEF Rest!Arrive, Rest!Say
  <2>2. code = "reading" => tool[r] \in Tool  BY <2>1 DEF RestInv, RestTyped
  <2>3. stamp' = [stamp EXCEPT ![r] = None]  BY <1>4 DEF Rest!Arrive, RestInv, RestTyped
  <2> QED  BY <1>4, <2>1, <2>2, <2>3, RestSays DEF Rest!Arrive
<1>5. ASSUME NEW r \in Request, Rest!Reject(r)
      PROVE  RestInv'
  <2>1. PICK code \in {"400", "422", "500", "gone"} : answer' = [answer EXCEPT ![r] = code]
    BY <1>5 DEF Rest!Reject, Rest!Say
  <2>2. stamp' = [stamp EXCEPT ![r] = None]  BY <1>5 DEF Rest!Reject, RestInv, RestTyped
  <2> QED  BY <1>5, <2>1, <2>2, RestSays DEF Rest!Reject
<1>6. ASSUME NEW r \in Request, Rest!Ask(r)
      PROVE  RestInv'
  BY <1>6, RestAsks
<1>7. ASSUME NEW r \in Request, Rest!Due(r)
      PROVE  /\ answer[r] = "reading" /\ r \notin ran
             /\ log[r] = {} /\ (log' = log => log' = [log EXCEPT ![r] = {}])
  <2>1. answer[r] = "reading" /\ r \notin ran  BY <1>7 DEF Rest!Due, RestInv, RestAsked
  <2>2. log[r] = {} /\ log \in [Request -> SUBSET {"success", "error"}]
    BY <2>1 DEF RestInv, RestAsked, RestTyped
  <2> QED  BY <2>1, <2>2
<1>8. ASSUME NEW r \in Request, Rest!Refuse(r) \/ Rest!DryRun(r)
      PROVE  RestInv'
  <2>1. /\ Rest!Due(r) /\ log' = log /\ ran' = ran
        /\ UNCHANGED <<limiter, now, tool>>
    BY <1>8 DEF Rest!Refuse, Rest!DryRun
  <2>2. PICK code \in {"429", "dry"}, said \in {"yes", "no"} :
          /\ answer' = [answer EXCEPT ![r] = code] /\ Rest!Record(r, said)
          /\ said = "yes" => Rest!Allowed(r) /\ code = "dry"
          /\ said = "no" => ~Rest!Allowed(r) /\ code = "429"
    <3>1. CASE Rest!Refuse(r)
      <4>1. /\ answer' = [answer EXCEPT ![r] = "429"] /\ Rest!Record(r, "no")
            /\ ~Rest!Allowed(r)
        BY <3>1 DEF Rest!Refuse, Rest!Say
      <4> QED  BY <4>1
    <3>2. CASE Rest!DryRun(r)
      <4>1. /\ answer' = [answer EXCEPT ![r] = "dry"] /\ Rest!Record(r, "yes")
            /\ Rest!Allowed(r)
        BY <3>2 DEF Rest!DryRun, Rest!Say
      <4> QED  BY <4>1
    <3> QED  BY <1>8, <3>1, <3>2
  <2>3. PICK i, new : /\ Recorded(tool[r], i, new) /\ Noted(tool[r], i, new)
                      /\ new.by = r /\ new.said = said
    BY <2>1, <2>2, Recording
  <2> DEFINE written == {}
  <2>4. /\ written \in SUBSET {"success", "error"}
        /\ log' = [log EXCEPT ![new.by] = written]
    BY <1>7, <2>1, <2>3
  <2>5. /\ answer' = [answer EXCEPT ![new.by] = code]
        /\ new.said = "no" <=> code = "429"
        /\ code \in {"dry", "200"} => new.said = "yes"
        /\ code # "200"
    BY <2>2, <2>3
  <2> QED  BY <2>1, <2>3, <2>4, <2>5, RestAnswers
<1>9. ASSUME NEW r \in Request, Rest!Fail(r)
      PROVE  RestInv'
  <2>1. /\ Rest!Due(r) /\ limiter = "redis" /\ log' = log /\ ran' = ran
        /\ UNCHANGED <<limiter, now, tool>> /\ answer' = [answer EXCEPT ![r] = "500"]
    BY <1>9 DEF Rest!Fail, Rest!Say
  <2>2. CASE Rest!Record(r, "lost")
    <3>1. PICK i, new : /\ Recorded(tool[r], i, new) /\ Noted(tool[r], i, new)
                        /\ new.by = r /\ new.said = "lost"
      BY <2>1, <2>2, Recording
    <3> DEFINE written == {}
               code == "500"
    <3>2. /\ written \in SUBSET {"success", "error"} /\ code \in {"429", "dry", "200", "500"}
          /\ log' = [log EXCEPT ![new.by] = written]
          /\ answer' = [answer EXCEPT ![new.by] = code]
      BY <1>7, <2>1, <3>1
    <3> QED  BY <2>1, <3>1, <3>2, RestAnswers
  <2>3. CASE stamp' = [stamp EXCEPT ![r] = None] /\ UNCHANGED <<window, tried, crossed>>
    <3> DEFINE code == "500"
    <3>1. code \in {"404", "reading", "400", "422", "500", "gone"}
          /\ answer[r] \in {"none", "reading"} /\ answer' = [answer EXCEPT ![r] = code]
      BY <1>7, <2>1
    <3>2. code = "reading" => tool[r] \in Tool  OBVIOUS
    <3> HIDE DEF code
    <3> QED  BY <2>1, <2>3, <3>1, <3>2, RestSays
  <2> QED  BY <1>9, <2>2, <2>3 DEF Rest!Fail
<1>10. ASSUME NEW r \in Request, Rest!Invoke(r)
       PROVE  RestInv'
  <2>1. /\ Rest!Due(r) /\ ran' = ran \cup {r} /\ Rest!Record(r, "yes")
        /\ Rest!Allowed(r) /\ UNCHANGED <<limiter, now, tool>>
    BY <1>10 DEF Rest!Invoke
  <2>2. PICK code \in {"200", "500"}, written \in SUBSET {"success", "error"} :
          /\ answer' = [answer EXCEPT ![r] = code]
          /\ log' = [log EXCEPT ![r] = written]
          /\ "error" \in written => code = "500"
    BY <1>10 DEF Rest!Invoke, Rest!Say, Rest!Audit
  <2>3. PICK i, new : /\ Recorded(tool[r], i, new) /\ Noted(tool[r], i, new)
                      /\ new.by = r /\ new.said = "yes"
    BY <2>1, Recording
  <2>4. /\ answer' = [answer EXCEPT ![new.by] = code]
        /\ log' = [log EXCEPT ![new.by] = written]
        /\ ran' = ran \cup {new.by} /\ new.by \in ran'
    BY <2>1, <2>2, <2>3
  <2> QED  BY <2>2, <2>3, <2>4, RestAnswers
<1> QED
  BY <1>1, <1>2, <1>3, <1>4, <1>5, <1>6, <1>8, <1>9, <1>10 DEF Rest!Next

\* Calls are limited.
LEMMA RestLimited ==
  ASSUME RestInv
  PROVE  Rest!CallsLimited
<1>1. ASSUME crossed = FALSE, NEW t \in Tool, NEW time \in 0..now
      PROVE  Rest!Apart({c \in Rest!Within(t, time) : c.said = "yes"}) <= Calls
  BY <1>1, OneCount DEF RestInv, RestLimits, LetIn, On, Rest!Apart
<1>2. ASSUME crossed = FALSE, NEW c \in tried, c.said = "no"
      PROVE  Rest!Apart({e \in Rest!Within(c.tool, c.on.at) :
                           limiter = "memory" => e.said = "yes"} \ {c}) >= Calls
  BY <1>2, OneCount DEF RestInv, RestLimits, Against, On, Rest!Apart
<1>3. limiter = "memory" => ~crossed /\ \A c, d \in tried : c.on = d.on => c = d
  <2> SUFFICES ASSUME limiter = "memory"
               PROVE  crossed = FALSE /\ \A c, d \in tried : c.on = d.on => c = d
    OBVIOUS
  <2> QED  BY DEF RestInv, RestAsked
<1>4. crossed \in BOOLEAN  BY DEF RestInv, RestTyped
<1> QED  BY <1>1, <1>2, <1>3, <1>4 DEF RestInv, RestAsked, Rest!CallsLimited

-----------------------------------------------------------------------------
(* The choice of reviewers *)

\* What each module calls by its own name.
LEMMA OneMeaning ==
  ASSUME NEW list, NEW S, NEW x
  PROVE  /\ Reviewers!Only(list, S) = Only(list, S)
         /\ Reviewers!Cardinality(S) = Cardinality(S)
         /\ x \in Reviewers!Range(list) <=> Holds(list, x)
<1>1. Reviewers!Only(list, S) = Only(list, S)  BY DEF Reviewers!Only, Only
<1>2. Reviewers!Cardinality(S) = Cardinality(S)  BY DEF Reviewers!Cardinality, Cardinality
<1>3. x \in Reviewers!Range(list) <=> Holds(list, x)  BY DEF Reviewers!Range, Holds
<1> QED  BY <1>1, <1>2, <1>3

\* What the choice of reviewers starts from.
RosterTyped ==
  /\ marks \in Marks /\ request \in Requests
  /\ path \subseteq Reviewers!Member /\ keys \subseteq Reviewers!Api
  /\ known = None \/ known \subseteq Reviewers!Member
  /\ moves \in 0..Moves

\* Who could review: those who can be reached, but the caller.
Others == Reviewers!Able \ {Reviewers!detect_self}

\* The roster is six different agents, and those with an API are among them.
LEMMA RosterIs ==
  /\ Reviewers!ROSTER \in Seq(Reviewers!Member) /\ Distinct(Reviewers!ROSTER)
  /\ Len(Reviewers!ROSTER) = 6 /\ Reviewers!Api \subseteq Reviewers!Member
  /\ \A x : Holds(Reviewers!ROSTER, x) <=> x \in Reviewers!Member
<1> DEFINE r == Reviewers!ROSTER
<1>1. /\ Len(r) = 6 /\ DOMAIN r = 1..6 /\ r[1] = "codex" /\ r[2] = "gemini"
      /\ r[3] = "opencode" /\ r[4] = "aider" /\ r[5] = "copilot" /\ r[6] = "claude"
  BY DEF Reviewers!ROSTER
<1>2. \A i \in 1..6 : i = 1 \/ i = 2 \/ i = 3 \/ i = 4 \/ i = 5 \/ i = 6  OBVIOUS
<1>3. \A x : Holds(r, x) <=> x \in Reviewers!Member
  BY OneMeaning DEF Reviewers!Member
<1> HIDE DEF r
<1>5. Distinct(r)  BY <1>1, <1>2 DEF Distinct
<1>6. \A i \in 1..6 : r[i] \in Reviewers!Member  BY <1>1, <1>3 DEF Holds
<1>7. r \in Seq(Reviewers!Member)
  <2>1. r[1] \in Reviewers!Member /\ r[2] \in Reviewers!Member /\ r[3] \in Reviewers!Member
        /\ r[4] \in Reviewers!Member /\ r[5] \in Reviewers!Member /\ r[6] \in Reviewers!Member
    BY <1>6
  <2>2. /\ "codex" \in Reviewers!Member /\ "gemini" \in Reviewers!Member
        /\ "opencode" \in Reviewers!Member /\ "aider" \in Reviewers!Member
        /\ "copilot" \in Reviewers!Member /\ "claude" \in Reviewers!Member
    BY <1>1, <2>1
  <2> QED  BY <2>2 DEF r, Reviewers!ROSTER
<1>8. Reviewers!Api \subseteq Reviewers!Member
  <2>1. r[1] \in Reviewers!Member /\ r[2] \in Reviewers!Member /\ r[6] \in Reviewers!Member
    BY <1>6
  <2> QED  BY <1>1, <2>1 DEF Reviewers!Api
<1> QED  BY <1>1, <1>3, <1>5, <1>7, <1>8 DEF r

\* Who is installed or can be called is on the roster.
LEMMA AbleMembers ==
  ASSUME RosterTyped
  PROVE  /\ Reviewers!Installed \subseteq Reviewers!Member
         /\ Reviewers!Able \subseteq Reviewers!Member
BY RosterIs DEF RosterTyped, Reviewers!Installed, Reviewers!Able

\* The eligible are the others, in the order of the roster.
LEMMA EligibleOthers ==
  ASSUME RosterTyped
  PROVE  /\ Reviewers!Eligible \in Seq(Reviewers!Member) /\ Distinct(Reviewers!Eligible)
         /\ \A x : Holds(Reviewers!Eligible, x) <=> x \in Others
         /\ \E e : Taken(e, Reviewers!Eligible, Reviewers!ROSTER, 6, Others)
<1>1. Reviewers!Eligible = Only(Reviewers!ROSTER, Others)
  BY OneMeaning DEF Reviewers!Eligible, Others
<1>2. Others \subseteq Reviewers!Member  BY AbleMembers DEF Others
<1> DEFINE r == Reviewers!ROSTER
           some == Only(r, Others)
<1>3. r \in Seq(Reviewers!Member) /\ Len(r) = 6 /\ Distinct(r)  BY RosterIs
<1>4. /\ some \in Seq(Reviewers!Member)
      /\ \A x : Holds(some, x) <=> Holds(r, x) /\ x \in Others
      /\ Distinct(some)
  BY <1>3, OnlyKeeps
<1>5. \E e : Taken(e, some, r, 6, Others)  BY <1>3, OnlyTakes
<1>6. \A x : Holds(some, x) <=> x \in Others  BY <1>2, <1>4, RosterIs
<1> QED  BY <1>1, <1>4, <1>5, <1>6

\* The first n of a list.
LEMMA UpToKeeps ==
  ASSUME NEW U, NEW list \in Seq(U), NEW n \in Nat
  PROVE  /\ Reviewers!UpTo(n, list) \in Seq(U)
         /\ Len(Reviewers!UpTo(n, list)) = IF n < Len(list) THEN n ELSE Len(list)
         /\ \A i \in 1..Len(Reviewers!UpTo(n, list)) :
              i \in 1..Len(list) /\ Reviewers!UpTo(n, list)[i] = list[i]
         /\ \A x : Holds(Reviewers!UpTo(n, list), x) => Holds(list, x)
         /\ Distinct(list) => Distinct(Reviewers!UpTo(n, list))
<1> DEFINE m == IF n < Len(list) THEN n ELSE Len(list)
           few == SubSeq(list, 1, m)
<1>1. Len(list) \in Nat /\ DOMAIN list = 1..Len(list) /\ m \in 0..Len(list)  OBVIOUS
<1>2. Reviewers!UpTo(n, list) = few  BY DEF Reviewers!UpTo
<1> HIDE DEF m
<1>3. few \in Seq(U) /\ Len(few) = m /\ \A i \in 1..m : few[i] = list[i]
  BY <1>1
<1>4. DOMAIN few = 1..m /\ \A i \in 1..m : i \in 1..Len(list)  BY <1>1, <1>3
<1> HIDE DEF few
<1>5. \A x : Holds(few, x) => Holds(list, x)  BY <1>1, <1>3, <1>4 DEF Holds
<1>6. Distinct(list) => Distinct(few)  BY <1>1, <1>3, <1>4 DEF Distinct
<1> QED  BY <1>2, <1>3, <1>4, <1>5, <1>6 DEF m

\* The others of some families, nobody twice.
LEMMA AmongOthers ==
  ASSUME RosterTyped, NEW families
  PROVE  /\ Reviewers!Among(families) \in Seq(Reviewers!Member)
         /\ Distinct(Reviewers!Among(families))
         /\ \A x : Holds(Reviewers!Among(families), x)
                     <=> x \in Others /\ Reviewers!Family(x) \in families
<1> DEFINE some == {id \in Reviewers!Member : Reviewers!Family(id) \in families}
           list == Reviewers!Eligible
<1>1. Reviewers!Among(families) = Only(list, some)  BY OneMeaning DEF Reviewers!Among
<1>2. /\ list \in Seq(Reviewers!Member) /\ Distinct(list)
      /\ \A x : Holds(list, x) <=> x \in Others
  BY EligibleOthers
<1>3. \A x \in Others : x \in Reviewers!Member  BY AbleMembers DEF Others
<1>4. \A x : x \in some <=> x \in Reviewers!Member /\ Reviewers!Family(x) \in families
  OBVIOUS
<1> HIDE DEF list, some
<1>5. /\ Only(list, some) \in Seq(Reviewers!Member) /\ Distinct(Only(list, some))
      /\ \A x : Holds(Only(list, some), x) <=> Holds(list, x) /\ x \in some
  BY <1>2, OnlyKeeps
<1> QED  BY <1>1, <1>2, <1>3, <1>4, <1>5

\* One more of a list, who is not among those picked, or all of it is.
LEMMA MoreKeeps ==
  ASSUME NEW list \in Seq(Reviewers!Member), NEW ids
  PROVE  /\ Reviewers!More(list, ids) \in Seq(Reviewers!Member)
         /\ Len(Reviewers!More(list, ids)) \in 0..1
         /\ \A x : Holds(Reviewers!More(list, ids), x) => Holds(list, x) /\ ~Holds(ids, x)
         /\ Len(Reviewers!More(list, ids)) = 0 => \A x : Holds(list, x) => Holds(ids, x)
         /\ Len(Reviewers!More(list, ids)) = 1 => \E x : Holds(Reviewers!More(list, ids), x)
<1> DEFINE some == Reviewers!Member \ Reviewers!Range(ids)
           new == Only(list, some)
           one == Reviewers!UpTo(1, new)
<1>1. Reviewers!More(list, ids) = one  BY OneMeaning DEF Reviewers!More
<1>2. \A x : x \in some <=> x \in Reviewers!Member /\ ~Holds(ids, x)  BY OneMeaning
<1>3. \A x : Holds(list, x) => x \in Reviewers!Member  BY DEF Holds
<1> HIDE DEF some
<1>4. /\ new \in Seq(Reviewers!Member)
      /\ \A x : Holds(new, x) <=> Holds(list, x) /\ x \in some
  BY OnlyKeeps
<1> HIDE DEF new
<1>5. /\ one \in Seq(Reviewers!Member) /\ Len(one) = IF 1 < Len(new) THEN 1 ELSE Len(new)
      /\ \A x : Holds(one, x) => Holds(new, x)
  BY <1>4, UpToKeeps
<1> HIDE DEF one
<1>6. Len(new) \in Nat /\ DOMAIN new = 1..Len(new) /\ DOMAIN one = 1..Len(one)
  <2>1. new \in Seq(Reviewers!Member)  BY <1>4
  <2>2. one \in Seq(Reviewers!Member)  BY <1>5
  <2> QED  BY <2>1, <2>2
<1>7. Len(one) \in 0..1  BY <1>5, <1>6
<1>8. Len(one) = 0 => \A x : ~Holds(new, x)
  <2>1. Len(one) = 0 => DOMAIN new = {}  BY <1>5, <1>6
  <2> QED  BY <2>1 DEF Holds
<1>9. Len(one) = 1 => \E x : Holds(one, x)
  <2>1. Len(one) = 1 => 1 \in DOMAIN one  BY <1>6
  <2> QED  BY <2>1 DEF Holds
<1>10. Len(one) = 0 => \A x : Holds(list, x) => Holds(ids, x)  BY <1>2, <1>3, <1>4, <1>8
<1>11. \A x : Holds(one, x) => Holds(list, x) /\ ~Holds(ids, x)  BY <1>2, <1>4, <1>5
<1> QED  BY <1>1, <1>5, <1>7, <1>9, <1>10, <1>11

\* A slot is filled by somebody new, with one of its family if there is any.
LEMMA SlotFills ==
  ASSUME RosterTyped, NEW family, NEW ids
  PROVE  /\ Reviewers!Slot(family, ids) \in Seq(Reviewers!Member)
         /\ Len(Reviewers!Slot(family, ids)) \in 0..1
         /\ \A x : Holds(Reviewers!Slot(family, ids), x) => x \in Others /\ ~Holds(ids, x)
         /\ {family} # Reviewers!CallerFamily =>
              IF \E x \in Others : Reviewers!Family(x) = family
              THEN \E x : /\ Holds(Reviewers!Slot(family, ids), x) \/ Holds(ids, x)
                          /\ Reviewers!Family(x) = family
              ELSE Reviewers!SlotMissing(family, ids)
<1> DEFINE caller == Reviewers!CallerFamily
           own == Reviewers!Among({family})
           slot == Reviewers!Slot(family, ids)
<1>1. PICK list \in Seq(Reviewers!Member) :
        /\ slot = Reviewers!More(list, ids)
        /\ \A x : Holds(list, x) => x \in Others
        /\ {family} # caller /\ own # <<>> => list = own
  <2>1. \A families : /\ Reviewers!Among(families) \in Seq(Reviewers!Member)
                      /\ \A x : Holds(Reviewers!Among(families), x) => x \in Others
    BY AmongOthers
  <2> DEFINE strangers == Reviewers!Families \ caller
             spare == Reviewers!Families \ (caller \cup Reviewers!Range(Reviewers!TARGET_FAMILIES))
  <2>2. CASE {family} = caller
    <3>1. slot = Reviewers!More(Reviewers!Among(strangers), ids)  BY <2>2 DEF Reviewers!Slot
    <3> QED  BY <2>1, <2>2, <3>1
  <2>3. CASE {family} # caller /\ own # <<>>
    <3>1. slot = Reviewers!More(own, ids)  BY <2>3 DEF Reviewers!Slot
    <3> QED  BY <2>1, <3>1
  <2>4. CASE {family} # caller /\ own = <<>>
    <3>1. slot = Reviewers!More(Reviewers!Among(spare), ids)  BY <2>4 DEF Reviewers!Slot
    <3> QED  BY <2>1, <2>4, <3>1
  <2> QED  BY <2>2, <2>3, <2>4
<1>2. /\ slot \in Seq(Reviewers!Member) /\ Len(slot) \in 0..1
      /\ \A x : Holds(slot, x) => Holds(list, x) /\ ~Holds(ids, x)
      /\ Len(slot) = 0 => \A x : Holds(list, x) => Holds(ids, x)
      /\ Len(slot) = 1 => \E x : Holds(slot, x)
  BY <1>1, MoreKeeps
<1>3. /\ own \in Seq(Reviewers!Member)
      /\ \A x : Holds(own, x) <=> x \in Others /\ Reviewers!Family(x) = family
  BY AmongOthers
<1>4. {family} # caller /\ own = <<>> => Reviewers!SlotMissing(family, ids)
  BY DEF Reviewers!SlotMissing
<1>5. own = <<>> => \A x : ~Holds(own, x)  BY DEF Holds
<1>6. own # <<>> => \E x : Holds(own, x)
  <2>1. own # <<>> => 1 \in DOMAIN own  BY <1>3
  <2> QED  BY <2>1 DEF Holds
<1> HIDE DEF own, slot, caller
<1>7. ASSUME {family} # caller, own # <<>>
      PROVE  \E x : (Holds(slot, x) \/ Holds(ids, x)) /\ Reviewers!Family(x) = family
  <2>1. list = own  BY <1>1, <1>7
  <2>2. CASE Len(slot) = 0  BY <1>2, <1>3, <1>6, <1>7, <2>1, <2>2
  <2>3. CASE Len(slot) = 1  BY <1>2, <1>3, <2>1, <2>3
  <2> QED  BY <1>2, <2>2, <2>3
<1>8. {family} # caller =>
        IF \E x \in Others : Reviewers!Family(x) = family
        THEN \E x : (Holds(slot, x) \/ Holds(ids, x)) /\ Reviewers!Family(x) = family
        ELSE Reviewers!SlotMissing(family, ids)
  BY <1>3, <1>4, <1>5, <1>6, <1>7
<1> QED  BY <1>1, <1>2, <1>8 DEF slot, caller

\* Whoever is picked for diversity: two of the others if there are two, with one
\* of each lab that is not the caller's if there is one.
LEMMA DiverseKeeps ==
  ASSUME RosterTyped
  PROVE  /\ Reviewers!Diverse \in Seq(Reviewers!Member) /\ Distinct(Reviewers!Diverse)
         /\ \A x : Holds(Reviewers!Diverse, x) => x \in Others
         /\ IsFiniteSet(Others)
         /\ Len(Reviewers!Diverse) = IF 2 < Cardinality(Others) THEN 2 ELSE Cardinality(Others)
         /\ \A x : Holds(Reviewers!OpenAi, x) \/ Holds(Reviewers!Google, x)
                     => Holds(Reviewers!Diverse, x)
<1> DEFINE a == Reviewers!OpenAi
           b == Reviewers!Google
           two == a \o b
           rest == Only(Reviewers!Eligible, Reviewers!Member \ Reviewers!Range(two))
           both == two \o rest
           some == Reviewers!UpTo(2, both)
<1>0. Reviewers!Diverse = some
  BY OneMeaning DEF Reviewers!Diverse
<1>1. /\ a \in Seq(Reviewers!Member) /\ Len(a) \in 0..1
      /\ \A x : Holds(a, x) => x \in Others
  BY SlotFills DEF Reviewers!OpenAi
<1>2. /\ b \in Seq(Reviewers!Member) /\ Len(b) \in 0..1
      /\ \A x : Holds(b, x) => x \in Others /\ ~Holds(a, x)
  BY SlotFills DEF Reviewers!Google
<1> HIDE DEF a, b
<1>3. Distinct(a) /\ Distinct(b)
  <2>1. DOMAIN a = 1..Len(a) /\ DOMAIN b = 1..Len(b)
    <3>1. DOMAIN a = 1..Len(a)  BY <1>1
    <3>2. DOMAIN b = 1..Len(b)  BY <1>2
    <3> QED  BY <3>1, <3>2
  <2>2. \A n \in 0..1 : \A i, j \in 1..n : i = j  OBVIOUS
  <2> QED  BY <1>1, <1>2, <2>1, <2>2 DEF Distinct
<1>4. /\ two \in Seq(Reviewers!Member) /\ Len(two) = Len(a) + Len(b) /\ Distinct(two)
      /\ \A x : Holds(two, x) <=> Holds(a, x) \/ Holds(b, x)
  BY <1>1, <1>2, <1>3, JoinKeeps
<1> HIDE DEF two
<1>5. /\ Reviewers!Eligible \in Seq(Reviewers!Member) /\ Distinct(Reviewers!Eligible)
      /\ \A x : Holds(Reviewers!Eligible, x) <=> x \in Others
  BY EligibleOthers
<1>6. /\ rest \in Seq(Reviewers!Member) /\ Distinct(rest)
      /\ \A x : Holds(rest, x) <=> x \in Others /\ ~Holds(two, x)
  <2>1. /\ rest \in Seq(Reviewers!Member) /\ Distinct(rest)
        /\ \A x : Holds(rest, x) <=> Holds(Reviewers!Eligible, x)
                     /\ x \in Reviewers!Member \ Reviewers!Range(two)
    BY <1>5, OnlyKeeps
  <2>2. \A x \in Others : x \in Reviewers!Member  BY AbleMembers DEF Others
  <2>3. \A x : x \in Reviewers!Range(two) <=> Holds(two, x)  BY OneMeaning
  <2> QED  BY <1>5, <2>1, <2>2, <2>3
<1> HIDE DEF rest
<1>7. /\ both \in Seq(Reviewers!Member) /\ Distinct(both)
      /\ \A i \in 1..Len(two) : both[i] = two[i]
      /\ Len(both) = Len(two) + Len(rest)
      /\ \A x : Holds(both, x) <=> Holds(two, x) \/ Holds(rest, x)
  BY <1>4, <1>6, JoinKeeps
<1>8. \A x : x \in Others <=> Holds(both, x)  BY <1>1, <1>2, <1>4, <1>6, <1>7
<1> HIDE DEF both
<1>9. IsFiniteSet(Others) /\ Cardinality(Others) = Len(both)  BY <1>7, <1>8, DistinctSize
<1>10. /\ some \in Seq(Reviewers!Member)
       /\ Len(some) = IF 2 < Len(both) THEN 2 ELSE Len(both)
       /\ \A i \in 1..Len(some) : some[i] = both[i]
       /\ \A x : Holds(some, x) => Holds(both, x)
       /\ Distinct(some)
  BY <1>7, UpToKeeps
<1> HIDE DEF some
<1>11. \A x : Holds(two, x) => Holds(some, x)
  <2>1. Len(two) \in 0..2
    <3>1. Len(a) \in 0..1 /\ Len(b) \in 0..1  BY <1>1, <1>2
    <3>2. Len(two) = Len(a) + Len(b)  BY <1>4
    <3>3. \A p, q \in 0..1 : p + q \in 0..2  OBVIOUS
    <3> QED  BY <3>1, <3>2, <3>3, Zenon
  <2>2. Len(rest) \in Nat  BY <1>6
  <2>3. Len(two) <= Len(some)  BY <1>7, <1>10, <2>1, <2>2
  <2>4. DOMAIN two = 1..Len(two)  BY <1>4
  <2>5. DOMAIN some = 1..Len(some) /\ Len(some) \in Nat
    <3>1. some \in Seq(Reviewers!Member)  BY <1>10
    <3> QED  BY <3>1
  <2>6. \A i \in DOMAIN two : i \in DOMAIN some /\ some[i] = two[i]
    BY <1>7, <1>10, <2>1, <2>3, <2>4, <2>5
  <2> QED  BY <2>6 DEF Holds
<1> QED  BY <1>0, <1>4, <1>8, <1>9, <1>10, <1>11 DEF a, b

\* One of them is of another lab than the caller's, if such a one can review.
LEMMA StrangerPicked ==
  ASSUME RosterTyped, NEW x \in Others,
         Reviewers!Family(x) \notin Reviewers!CallerFamily
  PROVE  \E y : /\ Holds(Reviewers!OpenAi, y) \/ Holds(Reviewers!Google, y)
               /\ Reviewers!Family(y) \notin Reviewers!CallerFamily
<1> DEFINE caller == Reviewers!CallerFamily
           strangers == Reviewers!Families \ caller
           spare == Reviewers!Families \ (caller \cup Reviewers!Range(Reviewers!TARGET_FAMILIES))
           slot == Reviewers!OpenAi
<1>1. slot = Reviewers!Slot("openai", <<>>)  BY DEF Reviewers!OpenAi
<1>2. x \in Reviewers!Member /\ Reviewers!Family(x) \in Reviewers!Families
  BY AbleMembers DEF Others, Reviewers!Families
<1>3. \A f : f \in Reviewers!Range(Reviewers!TARGET_FAMILIES) => f \in {"openai", "google"}
  BY DEF Reviewers!Range, Reviewers!TARGET_FAMILIES
<1>4. \A f : {f} # caller => f \notin caller
  BY DEF Reviewers!CallerFamily
<1>5. ASSUME NEW families, slot = Reviewers!More(Reviewers!Among(families), <<>>),
             NEW z, Holds(Reviewers!Among(families), z)
      PROVE  \E y : Holds(slot, y) /\ Reviewers!Family(y) \in families
  <2>1. /\ Reviewers!Among(families) \in Seq(Reviewers!Member)
        /\ \A y : Holds(Reviewers!Among(families), y)
                    <=> y \in Others /\ Reviewers!Family(y) \in families
    BY AmongOthers
  <2>2. /\ Len(slot) \in 0..1
        /\ \A y : Holds(slot, y) => Holds(Reviewers!Among(families), y)
        /\ Len(slot) = 0 => \A y : Holds(Reviewers!Among(families), y) => Holds(<<>>, y)
        /\ Len(slot) = 1 => \E y : Holds(slot, y)
    BY <1>5, <2>1, MoreKeeps
  <2>3. ~Holds(<<>>, z)  BY DEF Holds
  <2>4. Len(slot) # 0  BY <1>5, <2>2, <2>3
  <2> QED  BY <2>1, <2>2, <2>4
<1>6. CASE {"openai"} = caller
  <2>1. slot = Reviewers!More(Reviewers!Among(strangers), <<>>)
    BY <1>1, <1>6 DEF Reviewers!Slot
  <2>2. Holds(Reviewers!Among(strangers), x)  BY <1>2, AmongOthers
  <2> HIDE DEF strangers
  <2>3. PICK y : Holds(slot, y) /\ Reviewers!Family(y) \in strangers
    BY <1>5, <2>1, <2>2, Zenon
  <2> QED  BY <2>3 DEF strangers
<1>7. CASE {"openai"} # caller /\ Reviewers!Among({"openai"}) # <<>>
  <2>1. slot = Reviewers!More(Reviewers!Among({"openai"}), <<>>)
    BY <1>1, <1>7 DEF Reviewers!Slot
  <2>2. \E z : Holds(Reviewers!Among({"openai"}), z)
    <3>1. Reviewers!Among({"openai"}) \in Seq(Reviewers!Member)  BY AmongOthers
    <3>2. 1 \in DOMAIN Reviewers!Among({"openai"})  BY <1>7, <3>1
    <3> QED  BY <3>2 DEF Holds
  <2>3. PICK y : Holds(slot, y) /\ Reviewers!Family(y) \in {"openai"}
    BY <1>5, <2>1, <2>2, Zenon
  <2>4. "openai" \notin caller  BY <1>4, <1>7
  <2> QED  BY <2>3, <2>4
<1>8. CASE {"openai"} # caller /\ Reviewers!Among({"openai"}) = <<>>
  <2>1. slot = Reviewers!More(Reviewers!Among(spare), <<>>)
    BY <1>1, <1>8 DEF Reviewers!Slot
  <2>2. CASE Reviewers!Family(x) \in spare
    <3>1. Holds(Reviewers!Among(spare), x)  BY <2>2, AmongOthers
    <3> HIDE DEF spare
    <3>2. PICK y : Holds(slot, y) /\ Reviewers!Family(y) \in spare
      BY <1>5, <2>1, <3>1, Zenon
    <3> QED  BY <3>2 DEF spare
  <2>3. CASE Reviewers!Family(x) \notin spare
    <3>1. Reviewers!Family(x) # "openai"
      <4>1. ~Holds(Reviewers!Among({"openai"}), x)  BY <1>8 DEF Holds
      <4> QED  BY <4>1, AmongOthers
    <3>2. Reviewers!Family(x) = "google"  BY <1>2, <1>3, <2>3, <3>1
    <3>3. {"google"} # caller  BY <3>2
    <3>4. PICK y : /\ Holds(Reviewers!Slot("google", slot), y) \/ Holds(slot, y)
                   /\ Reviewers!Family(y) = "google"
      BY <3>2, <3>3, SlotFills
    <3>5. Reviewers!Google = Reviewers!Slot("google", slot)  BY DEF Reviewers!Google
    <3> QED  BY <1>4, <3>3, <3>4, <3>5
  <2> QED  BY <2>2, <2>3
<1> QED  BY <1>6, <1>7, <1>8

\* The first of the others are picked by priority.
LEMMA PriorityKeeps ==
  ASSUME RosterTyped, NEW n \in Nat
  PROVE  LET first == Reviewers!UpTo(n, Reviewers!Eligible)
         IN  /\ first \in Seq(Reviewers!Member) /\ Distinct(first)
             /\ \A x : Holds(first, x) => x \in Others
             /\ IsFiniteSet(Others)
             /\ Len(first) = IF n < Cardinality(Others) THEN n ELSE Cardinality(Others)
             /\ \A i, j \in 1..6 :
                  /\ i < j /\ Holds(first, Reviewers!ROSTER[j])
                  /\ Reviewers!ROSTER[i] \in Others
                  => Holds(first, Reviewers!ROSTER[i])
<1> DEFINE first == Reviewers!UpTo(n, Reviewers!Eligible)
           list == Reviewers!Eligible
           r == Reviewers!ROSTER
<1>1. /\ list \in Seq(Reviewers!Member) /\ Distinct(list)
      /\ \A x : Holds(list, x) <=> x \in Others
  BY EligibleOthers
<1>2. PICK e : Taken(e, list, r, 6, Others)  BY EligibleOthers
<1>3. Distinct(r) /\ DOMAIN r = 1..6
  <2>1. r \in Seq(Reviewers!Member) /\ Len(r) = 6 /\ Distinct(r)  BY RosterIs
  <2> QED  BY <2>1
<1>4. /\ first \in Seq(Reviewers!Member)
      /\ Len(first) = IF n < Len(list) THEN n ELSE Len(list)
      /\ \A i \in 1..Len(first) : i \in 1..Len(list) /\ first[i] = list[i]
      /\ \A x : Holds(first, x) => Holds(list, x)
      /\ Distinct(first)
  BY <1>1, UpToKeeps
<1>5. Len(list) \in Nat /\ DOMAIN list = 1..Len(list)  BY <1>1
<1>6. Len(first) \in Nat /\ DOMAIN first = 1..Len(first)  BY <1>4
<1>7. IsFiniteSet(Others) /\ Cardinality(Others) = Len(list)  BY <1>1, DistinctSize
<1> HIDE DEF first, list, r
<1>8. ASSUME NEW i \in 1..6, NEW j \in 1..6, i < j, Holds(first, r[j]), r[i] \in Others
      PROVE  Holds(first, r[i])
  <2>1. PICK k \in 1..Len(first) : first[k] = r[j]  BY <1>6, <1>8 DEF Holds
  <2>2. k \in 1..Len(list) /\ list[k] = r[j]  BY <1>4, <2>1
  <2>3. e[k] \in 1..6 /\ list[k] = r[e[k]]  BY <1>2, <2>2 DEF Taken
  <2>4. e[k] = j  BY <1>3, <2>2, <2>3 DEF Distinct
  <2>5. PICK m \in 1..Len(list) : e[m] = i  BY <1>2, <1>8 DEF Taken
  <2>6. list[m] = r[i]  BY <1>2, <2>5 DEF Taken
  <2>7. ~(k < m)  BY <1>2, <1>8, <2>2, <2>4, <2>5 DEF Taken
  <2>8. m # k  BY <1>8, <2>4, <2>5
  <2>9. m \in 1..Len(first)  BY <1>5, <1>6, <2>1, <2>7, <2>8
  <2>10. first[m] = r[i]  BY <1>4, <2>6, <2>9
  <2> QED  BY <1>6, <2>9, <2>10 DEF Holds
<1> QED  BY <1>1, <1>4, <1>7, <1>8 DEF first, list, r

\* What a pick is, whoever is asked for.
LEMMA ChosenKeeps ==
  ASSUME RosterTyped
  PROVE  /\ Reviewers!Chosen \in Seq(Reviewers!Member)
         /\ \A x : Holds(Reviewers!Chosen, x) => x \in Reviewers!Able
         /\ request.by # "only" =>
              /\ Distinct(Reviewers!Chosen) /\ IsFiniteSet(Others)
              /\ \A x : Holds(Reviewers!Chosen, x) => x \in Others
<1>1. /\ request.by \in {"priority", "diversity", "only"}
      /\ request.count \in Nat /\ request.ids \in Seq(STRING)
  BY ServicesAssumption DEF ServicesAssumption, RosterTyped
<1> DEFINE some == Only(request.ids, Reviewers!Able)
<1>2. CASE request.by = "only"
  <2>1. Reviewers!Chosen = some  BY <1>2, OneMeaning DEF Reviewers!Chosen
  <2>2. /\ some \in Seq(STRING)
        /\ \A x : Holds(some, x) <=> Holds(request.ids, x) /\ x \in Reviewers!Able
    BY <1>1, OnlyKeeps
  <2> HIDE DEF some
  <2>3. DOMAIN some = 1..Len(some) /\ Len(some) \in Nat
    <3>1. some \in Seq(STRING)  BY <2>2
    <3> QED  BY <3>1
  <2>4. \A i \in 1..Len(some) : some[i] \in Reviewers!Member
    BY <2>2, <2>3, AbleMembers DEF Holds
  <2>5. some \in Seq(Reviewers!Member)
    <3>1. some \in Seq(STRING)  BY <2>2
    <3> QED  BY <2>4, <3>1
  <2> QED  BY <1>2, <2>1, <2>2, <2>5
<1>3. CASE request.by = "diversity"
  <2>1. Reviewers!Chosen = Reviewers!Diverse  BY <1>3 DEF Reviewers!Chosen
  <2> QED  BY <2>1, DiverseKeeps DEF Others
<1>4. CASE request.by = "priority"
  <2>1. Reviewers!Chosen = Reviewers!UpTo(request.count, Reviewers!Eligible)
    BY <1>4 DEF Reviewers!Chosen
  <2> QED  BY <1>1, <2>1, PriorityKeeps DEF Others
<1> QED  BY <1>1, <1>2, <1>3, <1>4

\* A pick is sound.
LEMMA PickIsSound ==
  ASSUME RosterTyped, Reviewers!pick_reviewers
  PROVE  Reviewers!PickSound'
<1> DEFINE c == Reviewers!Chosen
           wanted == IF request.by = "diversity" THEN 2 ELSE request.count
<1>1. /\ picks' = [i \in DOMAIN c |-> <<c[i], Reviewers!Source(c[i])>>]
      /\ missing' = Reviewers!Absent /\ known' = Reviewers!Installed
      /\ marks' = marks /\ keys' = keys /\ request' = request /\ path' = path
  BY DEF Reviewers!pick_reviewers
<1>2. /\ request.by \in {"priority", "diversity", "only"} /\ request.count \in Nat
  BY ServicesAssumption DEF ServicesAssumption, RosterTyped
<1>3. /\ c \in Seq(Reviewers!Member)
      /\ \A x : Holds(c, x) => x \in Reviewers!Able
      /\ request.by # "only" =>
           /\ Distinct(c) /\ IsFiniteSet(Others)
           /\ \A x : Holds(c, x) => x \in Others
  BY ChosenKeeps
<1>4. Reviewers!detect_self' = Reviewers!detect_self
  BY <1>1 DEF Reviewers!detect_self, Reviewers!First, Reviewers!Only, Reviewers!ROSTER
<1>5. Reviewers!AbleNow' = Others
  <2>1. known' \cup keys' = Reviewers!Able  BY <1>1 DEF Reviewers!Able
  <2>2. Reviewers!Member' = Reviewers!Member
    BY DEF Reviewers!Member, Reviewers!Range, Reviewers!ROSTER
  <2> QED  BY <1>4, <2>1, <2>2, AbleMembers DEF Reviewers!AbleNow, Others
<1>6. /\ DOMAIN picks' = 1..Len(c) /\ Len(c) \in Nat /\ DOMAIN c = 1..Len(c)
      /\ Len(picks') = Len(c)
      /\ \A i \in 1..Len(c) : picks'[i][1] = c[i] /\ picks'[i][2] = Reviewers!Source(c[i])
  BY <1>1, <1>3
<1> HIDE DEF c
<1>7. \A x : x \in Reviewers!Ids' <=> Holds(c, x)
  BY <1>6 DEF Reviewers!Ids, Holds
<1>8. \A i \in DOMAIN picks' : picks'[i][2] = "cli" <=> picks'[i][1] \in known'
  <2> TAKE i \in DOMAIN picks'
  <2>1. c[i] \in Reviewers!Able  BY <1>3, <1>6 DEF Holds
  <2>2. picks'[i][1] = c[i] /\ picks'[i][2] = Reviewers!Source(c[i])  BY <1>6
  <2>3. Reviewers!Source(c[i]) = "cli" <=> c[i] \in Reviewers!Installed
    BY <2>1 DEF Reviewers!Source, Reviewers!Able
  <2> QED  BY <1>1, <2>2, <2>3
<1>9. Reviewers!Ids' \subseteq known' \cup keys'
  BY <1>1, <1>3, <1>7 DEF Reviewers!Able
<1>10. ASSUME request.by # "only"
       PROVE  /\ Reviewers!Ids' \subseteq Others
              /\ Cardinality(Reviewers!Ids') = Len(picks') /\ Len(picks') <= wanted
              /\ Len(picks') < wanted => Others \subseteq Reviewers!Ids'
  <2>1. Reviewers!Ids' \subseteq Others  BY <1>3, <1>7, <1>10
  <2>2. Cardinality(Reviewers!Ids') = Len(c)  BY <1>3, <1>7, <1>10, DistinctSize
  <2>3. Cardinality(Others) \in Nat  BY <1>3, <1>10, FS_CardinalityType
  <2>6. Len(c) = Cardinality(Others) => Others \subseteq Reviewers!Ids'
    BY <1>3, <1>10, <2>1, <2>2, FS_Subset
  <2>4. CASE request.by = "diversity"
    <3>1. c = Reviewers!Diverse  BY <2>4 DEF Reviewers!Chosen, c
    <3>2. Len(c) = IF 2 < Cardinality(Others) THEN 2 ELSE Cardinality(Others)
      BY <3>1, DiverseKeeps
    <3> QED  BY <1>6, <2>1, <2>2, <2>3, <2>4, <2>6, <3>2
  <2>5. CASE request.by = "priority"
    <3>1. c = Reviewers!UpTo(request.count, Reviewers!Eligible)
      BY <2>5 DEF Reviewers!Chosen, c
    <3>2. Len(c) = IF request.count < Cardinality(Others) THEN request.count
                   ELSE Cardinality(Others)
      BY <1>2, <3>1, PriorityKeeps
    <3> QED  BY <1>2, <1>6, <2>1, <2>2, <2>3, <2>5, <2>6, <3>2
  <2> QED  BY <1>2, <1>10, <2>4, <2>5
<1>11. ASSUME request.by = "priority"
       PROVE  \A i, j \in DOMAIN Reviewers!ROSTER :
                /\ i < j /\ Reviewers!ROSTER[j] \in Reviewers!Ids'
                /\ Reviewers!ROSTER[i] \in Others
                => Reviewers!ROSTER[i] \in Reviewers!Ids'
  <2>1. c = Reviewers!UpTo(request.count, Reviewers!Eligible)
    BY <1>11 DEF Reviewers!Chosen, c
  <2>2. DOMAIN Reviewers!ROSTER = 1..6
    <3>1. Reviewers!ROSTER \in Seq(Reviewers!Member) /\ Len(Reviewers!ROSTER) = 6  BY RosterIs
    <3> QED  BY <3>1
  <2> QED  BY <1>2, <1>7, <2>1, <2>2, PriorityKeeps
<1>12. ASSUME request.by = "diversity",
              NEW family \in {"openai", "google"}, family \notin Reviewers!CallerFamily
       PROVE  IF \E id \in Others : Reviewers!Family(id) = family
              THEN \E id \in Reviewers!Ids' : Reviewers!Family(id) = family
              ELSE family \in missing'
  <2>1. c = Reviewers!Diverse  BY <1>12 DEF Reviewers!Chosen, c
  <2>2. {family} # Reviewers!CallerFamily  BY <1>12
  <2>3. missing' = {f \in {"openai"} : Reviewers!SlotMissing(f, <<>>)}
               \cup {f \in {"google"} : Reviewers!SlotMissing(f, Reviewers!OpenAi)}
    BY <1>1, <1>12 DEF Reviewers!Absent
  <2>4. \A x : Holds(Reviewers!OpenAi, x) \/ Holds(Reviewers!Google, x) => x \in Reviewers!Ids'
    BY <1>7, <2>1, DiverseKeeps
  <2>5. \A x : ~Holds(<<>>, x)  BY DEF Holds
  <2>6. CASE family = "openai"
    <3>1. IF \E x \in Others : Reviewers!Family(x) = family
          THEN \E x : /\ Holds(Reviewers!OpenAi, x) \/ Holds(<<>>, x)
                      /\ Reviewers!Family(x) = family
          ELSE Reviewers!SlotMissing(family, <<>>)
      BY <2>2, <2>6, SlotFills DEF Reviewers!OpenAi
    <3> QED  BY <2>3, <2>4, <2>5, <2>6, <3>1
  <2>7. CASE family = "google"
    <3>1. IF \E x \in Others : Reviewers!Family(x) = family
          THEN \E x : /\ Holds(Reviewers!Google, x) \/ Holds(Reviewers!OpenAi, x)
                      /\ Reviewers!Family(x) = family
          ELSE Reviewers!SlotMissing(family, Reviewers!OpenAi)
      BY <2>2, <2>7, SlotFills DEF Reviewers!Google
    <3> QED  BY <2>3, <2>4, <2>7, <3>1
  <2> QED  BY <2>6, <2>7
<1>13. Reviewers!CallerFamily' = Reviewers!CallerFamily
  BY <1>4 DEF Reviewers!CallerFamily, Reviewers!Family
<1>14. \A f : f \in Reviewers!Range(Reviewers!TARGET_FAMILIES) => f \in {"openai", "google"}
  BY DEF Reviewers!Range, Reviewers!TARGET_FAMILIES
<1>15. Reviewers!OtherLabs'
         = {id \in Others : Reviewers!Family(id) \notin Reviewers!CallerFamily}
  BY <1>5, <1>13 DEF Reviewers!OtherLabs, Reviewers!Family
<1>16. ASSUME request.by = "diversity", Reviewers!OtherLabs' # {}
       PROVE  Reviewers!Ids' \cap Reviewers!OtherLabs' # {}
  <2>1. PICK x \in Others : Reviewers!Family(x) \notin Reviewers!CallerFamily
    BY <1>15, <1>16
  <2>2. PICK y : /\ Holds(Reviewers!OpenAi, y) \/ Holds(Reviewers!Google, y)
                 /\ Reviewers!Family(y) \notin Reviewers!CallerFamily
    BY <2>1, StrangerPicked
  <2>3. c = Reviewers!Diverse  BY <1>16 DEF Reviewers!Chosen, c
  <2>4. y \in Reviewers!Ids' /\ y \in Others
    BY <1>7, <2>2, <2>3, DiverseKeeps
  <2> QED  BY <1>15, <2>2, <2>4
<1>17. Reviewers!OtherLabs' \subseteq Others  BY <1>15
<1>18. request.by # "only" =>
         /\ Reviewers!Ids' \subseteq Reviewers!AbleNow'
         /\ Cardinality(Reviewers!Ids') = Len(picks') /\ Len(picks') <= wanted
         /\ Len(picks') < wanted => Reviewers!OtherLabs' \subseteq Reviewers!Ids'
  BY <1>5, <1>10, <1>17
<1>19. request.by = "priority" =>
         \A i, j \in DOMAIN Reviewers!ROSTER :
           /\ i < j /\ Reviewers!ROSTER[j] \in Reviewers!Ids'
           /\ Reviewers!ROSTER[i] \in Reviewers!OtherLabs'
           => Reviewers!ROSTER[i] \in Reviewers!Ids'
  BY <1>11, <1>17
<1>20. request.by = "diversity" =>
         /\ Reviewers!OtherLabs' # {} => Reviewers!Ids' \cap Reviewers!OtherLabs' # {}
         /\ \A family \in Reviewers!Range(Reviewers!TARGET_FAMILIES) \ Reviewers!CallerFamily :
              IF \E id \in Reviewers!AbleNow' : Reviewers!Family(id) = family
              THEN \E id \in Reviewers!Ids' : Reviewers!Family(id) = family
              ELSE family \in missing'
  BY <1>5, <1>12, <1>14, <1>16
<1> QED
  BY <1>1, <1>8, <1>9, <1>13, <1>18, <1>19, <1>20, OneMeaning
     DEF Reviewers!PickSound, Reviewers!Family

\* The choice is sound with what it starts from.
PickInv == Reviewers!TypeOK /\ Reviewers!PickSound

\* What is given in the type invariant.
LEMMA RosterTypes ==
  ASSUME Reviewers!TypeOK
  PROVE  RosterTyped
BY DEF Reviewers!TypeOK, RosterTyped

\* Nothing is picked at first.
LEMMA RosterStarts ==
  ASSUME Reviewers!Init
  PROVE  PickInv
<1>1. Moves \in Nat  BY ServicesAssumption DEF ServicesAssumption
<1>2. picks = None /\ missing = {} /\ known = None /\ moves = 0  BY DEF Reviewers!Init
<1>3. Reviewers!PickSound  BY <1>2 DEF Reviewers!PickSound
<1>4. Reviewers!TypeOK  BY <1>1 DEF Reviewers!Init, Reviewers!TypeOK
<1> QED  BY <1>3, <1>4 DEF PickInv

\* Every step of the roster keeps the invariant.
LEMMA RosterKeeps ==
  ASSUME PickInv, [Reviewers!Next]_rosterVars
  PROVE  PickInv'
<1>0. RosterTyped /\ Reviewers!TypeOK /\ Reviewers!PickSound  BY RosterTypes DEF PickInv
<1>1. CASE UNCHANGED rosterVars
  <2>1. UNCHANGED <<marks, path, keys, request, known, picks, missing, moves>>
    BY <1>1 DEF rosterVars
  <2>2. Reviewers!TypeOK'  BY <1>0, <2>1 DEF Reviewers!TypeOK
  <2>3. /\ UNCHANGED <<Reviewers!Ids, Reviewers!AbleNow, Reviewers!CallerFamily>>
        /\ UNCHANGED Reviewers!OtherLabs
    BY <2>1 DEF Reviewers!Ids, Reviewers!AbleNow, Reviewers!OtherLabs,
                Reviewers!CallerFamily, Reviewers!detect_self, Reviewers!Family,
                Reviewers!Member
  <2>4. Reviewers!PickSound'  BY <1>0, <2>1, <2>3 DEF Reviewers!PickSound, Reviewers!Family
  <2> QED  BY <2>2, <2>4 DEF PickInv
<1>2. CASE Reviewers!pick_reviewers
  <2> DEFINE c == Reviewers!Chosen
  <2>1. /\ picks' = [i \in DOMAIN c |-> <<c[i], Reviewers!Source(c[i])>>]
        /\ missing' = Reviewers!Absent /\ known' = Reviewers!Installed
        /\ marks' = marks /\ keys' = keys /\ request' = request /\ path' = path
        /\ moves' = moves
    BY <1>2 DEF Reviewers!pick_reviewers
  <2>2. c \in Seq(Reviewers!Member)  BY <1>0, ChosenKeeps
  <2>3. \A i \in DOMAIN c : c[i] \in Reviewers!Member  BY <2>2
  <2> HIDE DEF c
  <2>4. \A id : Reviewers!Source(id) \in {"cli", "api"}  BY DEF Reviewers!Source
  <2>5. Reviewers!Range(picks') \subseteq Reviewers!Member \X {"cli", "api"}
    BY <2>1, <2>3, <2>4 DEF Reviewers!Range
  <2>6. known' \subseteq Reviewers!Member  BY <1>0, <2>1, AbleMembers
  <2>7. missing' \subseteq Reviewers!Member \cup Reviewers!Range(Reviewers!TARGET_FAMILIES)
    <3>1. request.by \in {"priority", "diversity", "only"}
      BY <1>0, ServicesAssumption DEF ServicesAssumption, RosterTyped
    <3>2. {"openai", "google"} \subseteq Reviewers!Range(Reviewers!TARGET_FAMILIES)
      <4>1. Reviewers!TARGET_FAMILIES = <<"openai", "google">>
        BY DEF Reviewers!TARGET_FAMILIES
      <4>2. 1 \in DOMAIN <<"openai", "google">> /\ 2 \in DOMAIN <<"openai", "google">>
        OBVIOUS
      <4> QED  BY <4>1, <4>2, OneMeaning DEF Holds
    <3>3. CASE request.by = "only"  BY <2>1, <3>3 DEF Reviewers!Absent
    <3>4. CASE request.by = "diversity"
      <4>1. Reviewers!Absent =
              {f \in {"openai"} : Reviewers!SlotMissing(f, <<>>)}
                \cup {f \in {"google"} : Reviewers!SlotMissing(f, Reviewers!OpenAi)}
        BY <3>4 DEF Reviewers!Absent
      <4> QED  BY <2>1, <3>2, <4>1
    <3>5. CASE request.by = "priority"  BY <2>1, <3>5 DEF Reviewers!Absent
    <3> QED  BY <3>1, <3>3, <3>4, <3>5
  <2>8. Reviewers!TypeOK'  BY <1>0, <2>1, <2>5, <2>6, <2>7 DEF Reviewers!TypeOK
  <2>9. Reviewers!PickSound'  BY <1>0, <1>2, PickIsSound
  <2> QED  BY <2>8, <2>9 DEF PickInv
<1>3. CASE Reviewers!Move
  <2>1. /\ picks' = None /\ missing' = {} /\ moves' \in 0..Moves
        /\ marks' \in Marks
        /\ path' \subseteq Reviewers!Member /\ keys' \subseteq Reviewers!Api
        /\ UNCHANGED <<request, known>>
    <3>1. Moves \in Nat  BY ServicesAssumption DEF ServicesAssumption
    <3> QED  BY <1>0, <1>3, <3>1 DEF Reviewers!Move, Reviewers!Toggle, RosterTyped
  <2>2. Reviewers!TypeOK'  BY <1>0, <2>1 DEF Reviewers!TypeOK
  <2>3. Reviewers!PickSound'  BY <2>1 DEF Reviewers!PickSound
  <2> QED  BY <2>2, <2>3 DEF PickInv
<1> QED  BY <1>1, <1>2, <1>3 DEF Reviewers!Next

-----------------------------------------------------------------------------
(* The files of a review: text *)

\* What there is of the parts after each of them.
Joined(f, parts, U) ==
  /\ f \in [0..Len(parts) -> Seq(U)] /\ f[0] = <<>>
  /\ \A i \in 1..Len(parts) : f[i] = f[i - 1] \o parts[i]

\* Parts are joined one after the other.
LEMMA Flattening ==
  ASSUME NEW U, NEW parts \in Seq(Seq(U))
  PROVE  \E f : Joined(f, parts, U) /\ Files!Flat(parts) = f[Len(parts)]
<1> DEFINE n == Len(parts)
           Is(f) == f = [i \in 0..n |-> IF i = 0 THEN <<>> ELSE f[i - 1] \o parts[i]]
           g == [i \in 1..n |-> [x \in Seq(U) |-> x \o parts[i]]]
           d == CHOOSE x : Is(x)
<1>1. n \in Nat /\ \A i \in 1..n : parts[i] \in Seq(U)  OBVIOUS
<1>2. g \in [1..n -> [Seq(U) -> Seq(U)]]  BY <1>1
<1>3. <<>> \in Seq(U)  OBVIOUS
<1>4. PICK f : Rounds(f, n, Seq(U), <<>>, g)
  <2> HIDE DEF g, n, d
  <2> QED  BY <1>1, <1>2, <1>3, Recursion
<1>5. f \in [0..n -> Seq(U)] /\ f[0] = <<>> /\ \A i \in 1..n : f[i] = g[i][f[i - 1]]
  <2> HIDE DEF g, n, d
  <2> QED  BY <1>4 DEF Rounds
<1>6. \A i \in 1..n : f[i - 1] \in Seq(U) /\ f[i] = f[i - 1] \o parts[i]
  <2> TAKE i \in 1..n
  <2>1. i - 1 \in 0..n  BY <1>1
  <2>2. f[i - 1] \in Seq(U)  BY <1>5, <2>1
  <2> QED  BY <1>5, <2>2
<1>7. Joined(f, parts, U)  BY <1>5, <1>6 DEF Joined
<1>8. Files!Flat(parts) = d[n]  BY DEF Files!Flat
<1>9. Is(f)
  <2>1. \A i \in 0..n : i # 0 => i \in 1..n  BY <1>1
  <2>2. \A i \in 0..n : f[i] = IF i = 0 THEN <<>> ELSE f[i - 1] \o parts[i]
    <3> HIDE DEF n
    <3> QED  BY <1>5, <1>6, <2>1
  <2> HIDE DEF n
  <2> QED  BY <1>5, <2>2
<1>10. Is(d)  BY <1>9
<1> HIDE DEF d
<1>11. \A i \in 0..n : d[i] = IF i = 0 THEN <<>> ELSE d[i - 1] \o parts[i]
  <2> HIDE DEF n
  <2> QED  BY <1>10, Zenon
<1> DEFINE P == {i \in 0..n : d[i] = f[i]}
<1>12. 0 \in P  BY <1>1, <1>5, <1>11
<1>13. ASSUME NEW i \in 1..n, i - 1 \in P PROVE i \in P
  <2>1. i # 0 /\ i \in 0..n  BY <1>1
  <2>2. d[i - 1] = f[i - 1]  BY <1>13
  <2>3. d[i] = d[i - 1] \o parts[i]  BY <1>11, <2>1
  <2> HIDE DEF n
  <2> QED  BY <1>6, <2>1, <2>2, <2>3
<1>14. \A i \in 1..n : i - 1 \in P => i \in P  BY <1>13
<1> HIDE DEF P
<1>15. \A i \in 0..n : i \in P  BY <1>1, <1>12, <1>14, Induct
<1>16. n \in 0..n  BY <1>1
<1>17. d[n] = f[n]
  <2> HIDE DEF n
  <2> QED  BY <1>15, <1>16 DEF P
<1> QED  BY <1>7, <1>8, <1>17

\* The positions from one to another.
LEMMA PositionsIs ==
  ASSUME NEW a \in Nat \ {0}, NEW b \in Nat, b >= a - 1
  PROVE  /\ Files!Positions(a, b) \in Seq(1..b)
         /\ Len(Files!Positions(a, b)) = b - a + 1
         /\ \A i \in 1..(b - a + 1) : Files!Positions(a, b)[i] = a + i - 1
<1> DEFINE n == b - a + 1
           p == [i \in 1..n |-> a + i - 1]
<1>1. n \in Nat /\ \A i \in 1..n : a + i - 1 \in 1..b  OBVIOUS
<1>2. Files!Positions(a, b) = p  BY DEF Files!Positions
<1> HIDE DEF n
<1>3. p \in Seq(1..b) /\ Len(p) = n /\ \A i \in 1..n : p[i] = a + i - 1  BY <1>1
<1> QED  BY <1>2, <1>3 DEF n

\* Those from the first one.
LEMMA FromOne ==
  ASSUME NEW b \in Nat
  PROVE  /\ Files!Positions(1, b) \in Seq(1..b) /\ Len(Files!Positions(1, b)) = b
         /\ \A i \in 1..b : Files!Positions(1, b)[i] = i
<1> DEFINE p == Files!Positions(1, b)
<1>1. 1 \in Nat \ {0} /\ b >= 1 - 1 /\ b - 1 + 1 = b  OBVIOUS
<1>2. /\ p \in Seq(1..b) /\ Len(p) = b - 1 + 1
      /\ \A i \in 1..(b - 1 + 1) : p[i] = 1 + i - 1
  <2> HIDE DEF p
  <2> QED  BY <1>1, PositionsIs DEF p
<1>3. \A i \in 1..b : 1 + i - 1 = i  OBVIOUS
<1> HIDE DEF p
<1>4. /\ p \in Seq(1..b) /\ Len(p) = b /\ \A i \in 1..b : p[i] = i
  BY <1>1, <1>2, <1>3
<1> QED  BY <1>4 DEF p

\* Chunks overlap by less than a chunk.
ChunkIs ==
  /\ ChunkSize \in Nat \ {0} /\ Overlap \in Nat /\ Overlap < ChunkSize

\* Where the chunks of a large file begin.
LEMMA Strides ==
  ASSUME NEW size \in Nat, NEW w \in Nat \ {0}, size > 0
  PROVE  LET q == (size + w - 1) \div w
         IN  /\ q \in Nat \ {0} /\ q * w >= size
             /\ (q - 1) * w < size
             /\ \A i \in 1..q : (i - 1) * w \in Nat /\ (i - 1) * w < size
             /\ \A i \in 1..q : i * w = (i - 1) * w + w
OBVIOUS

\* Text goes on where it was, or by at most an overlap before that, ...
Smooth(t) == \A n \in 1..(Len(t) - 1) : t[n + 1] \in (t[n] + 1 - Overlap)..(t[n] + 1)

\* ... and its first chunk is as it is in the file.
Begins(t) == \A n \in 1..Len(t) : n <= ChunkSize => t[n] = n

\* The text of a large file after one more chunk: it ends where the chunk does.
Read(t, size, last) ==
  /\ t \in Seq(1..size) /\ Len(t) \in Nat \ {0}
  /\ t[Len(t)] = last /\ Len(t) >= ChunkSize
  /\ Smooth(t) /\ Begins(t)

\* A chunk that begins where the text ends, or an overlap before that, goes on with it.
LEMMA ReadMore ==
  ASSUME ChunkIs, NEW size \in Nat, NEW t, NEW last \in 1..size, Read(t, size, last),
         NEW a \in 1..size, NEW b \in a..size, a \in (last + 1 - Overlap)..(last + 1)
  PROVE  Read(t \o Files!Positions(a, b), size, b)
<1> DEFINE p == Files!Positions(a, b)
           n == Len(t)
           m == b - a + 1
           u == t \o p
<1>1. /\ p \in Seq(1..b) /\ Len(p) = m /\ m \in Nat \ {0}
      /\ \A i \in 1..m : p[i] = a + i - 1
  <2>1. a \in Nat \ {0} /\ b \in Nat /\ b >= a - 1  OBVIOUS
  <2>2. m \in Nat \ {0}  OBVIOUS
  <2> HIDE DEF p
  <2>3. /\ p \in Seq(1..b) /\ Len(p) = b - a + 1
        /\ \A i \in 1..(b - a + 1) : p[i] = a + i - 1
    BY <2>1, PositionsIs DEF p
  <2> QED  BY <2>2, <2>3
<1>2. t \in Seq(1..size) /\ n \in Nat \ {0} /\ t[n] = last /\ n >= ChunkSize
      /\ Smooth(t) /\ Begins(t)
  BY DEF Read
<1>3. p \in Seq(1..size)
  <2>1. \A i \in 1..m : p[i] \in 1..size  BY <1>1
  <2> QED  BY <1>1, <2>1
<1> HIDE DEF p, m, n
<1>4. /\ u \in Seq(1..size) /\ Len(u) = n + m
      /\ \A i \in 1..n : u[i] = t[i]
      /\ \A i \in 1..m : u[n + i] = p[i]
  <2>1. /\ u \in Seq(1..size) /\ Len(u) = Len(t) + Len(p)
        /\ \A i \in 1..Len(t) : u[i] = t[i]
        /\ \A i \in 1..Len(p) : u[Len(t) + i] = p[i]
    BY <1>2, <1>3, JoinKeeps
  <2> HIDE DEF u
  <2> QED  BY <1>1, <2>1 DEF n
<1> HIDE DEF u
<1>5. u[n + m] = b
  <2>1. m \in 1..m  BY <1>1
  <2>2. u[n + m] = p[m] /\ p[m] = a + m - 1  BY <1>1, <1>4, <2>1
  <2> QED  BY <2>2 DEF m
<1>6. ASSUME NEW i \in 1..(n + m - 1)
      PROVE  u[i + 1] \in (u[i] + 1 - Overlap)..(u[i] + 1)
  <2>1. CASE i \in 1..(n - 1)
    <3>1. i \in 1..n /\ i + 1 \in 1..n  BY <1>2, <2>1
    <3>2. t[i + 1] \in (t[i] + 1 - Overlap)..(t[i] + 1)  BY <1>2, <2>1 DEF Smooth, n
    <3> QED  BY <1>4, <3>1, <3>2
  <2>2. CASE i = n
    <3>1. 1 \in 1..m /\ n \in 1..n  BY <1>1, <1>2
    <3>2. u[n + 1] = p[1] /\ p[1] = a + 1 - 1 /\ u[n] = last  BY <1>1, <1>2, <1>4, <3>1
    <3> QED  BY <2>2, <3>2
  <2>3. CASE i > n
    <3> DEFINE k == i - n
    <3>1. k \in 1..m /\ k + 1 \in 1..m /\ i = n + k /\ i + 1 = n + (k + 1)
      BY <1>1, <1>2, <1>6, <2>3
    <3> HIDE DEF k
    <3>2. u[i] = a + k - 1 /\ u[i + 1] = a + (k + 1) - 1  BY <1>1, <1>4, <3>1
    <3>3. k \in Nat /\ Overlap \in Nat  BY <3>1 DEF ChunkIs
    <3> QED  BY <3>2, <3>3
  <2> QED  BY <1>1, <1>2, <1>6, <2>1, <2>2, <2>3
<1>7. Smooth(u)
  <2>1. Len(u) - 1 = n + m - 1  BY <1>1, <1>2, <1>4
  <2>2. \A i \in 1..(Len(u) - 1) : u[i + 1] \in (u[i] + 1 - Overlap)..(u[i] + 1)
    BY <1>6, <2>1, Zenon
  <2> QED  BY <2>2 DEF Smooth
<1>8. Begins(u)
  <2> SUFFICES ASSUME NEW i \in 1..(n + m), i <= ChunkSize PROVE u[i] = i
    BY <1>4 DEF Begins
  <2>1. i \in 1..n  BY <1>2 DEF ChunkIs
  <2> QED  BY <1>2, <1>4, <2>1 DEF Begins, n
<1>9. Len(u) \in Nat \ {0} /\ Len(u) >= ChunkSize /\ u[Len(u)] = b
  BY <1>1, <1>2, <1>4, <1>5 DEF ChunkIs
<1> QED  BY <1>4, <1>7, <1>8, <1>9 DEF Read, u, p

\* From one part there is that.
LEMMA OneJoined ==
  ASSUME NEW U, NEW p \in Seq(U)
  PROVE  Files!Flat(<<p>>) = p
<1> DEFINE parts == <<p>>
<1>1. parts \in Seq(Seq(U)) /\ Len(parts) = 1 /\ parts[1] = p  OBVIOUS
<1> HIDE DEF parts
<1>2. PICK f : Joined(f, parts, U) /\ Files!Flat(parts) = f[Len(parts)]
  BY <1>1, Flattening
<1>3. 1 \in 1..Len(parts) /\ 1 - 1 = 0  BY <1>1
<1>4. f[1] = f[1 - 1] \o parts[1]  BY <1>2, <1>3, Zenon DEF Joined
<1>5. f[1] = <<>> \o p  BY <1>1, <1>2, <1>3, <1>4 DEF Joined
<1>6. f[1] = p  BY <1>5
<1> QED  BY <1>1, <1>2, <1>6 DEF parts

\* The chunks of a file, one after the other: all of it, in order, from its start,
\* without a gap.
LEMMA ChunksRead ==
  ASSUME ChunkIs, NEW size \in Nat
  PROVE  LET t == Files!Flat(Files!Chunks(size))
         IN  t \in Seq(1..size) /\ Len(t) >= size /\ Smooth(t) /\ Begins(t)
<1> DEFINE c == Files!Chunks(size)
           t == Files!Flat(c)
<1>1. CASE size <= ChunkSize
  <2> DEFINE p == Files!Positions(1, size)
  <2>1. /\ p \in Seq(1..size) /\ Len(p) = size /\ \A i \in 1..size : p[i] = i
    BY FromOne
  <2>2. c = <<p>>  BY <1>1 DEF Files!Chunks
  <2> HIDE DEF p
  <2>3. t = p  BY <2>1, <2>2, OneJoined
  <2>4. Smooth(p)
    <3> SUFFICES ASSUME NEW i \in 1..(size - 1)
                 PROVE  p[i + 1] \in (p[i] + 1 - Overlap)..(p[i] + 1)
      BY <2>1 DEF Smooth
    <3>1. i \in 1..size /\ i + 1 \in 1..size  OBVIOUS
    <3> QED  BY <2>1, <3>1 DEF ChunkIs
  <2>5. Begins(p)  BY <2>1 DEF Begins
  <2> QED  BY <2>1, <2>3, <2>4, <2>5
<1>2. CASE size > ChunkSize
  <2> DEFINE w == ChunkSize - Overlap
             q == (size + w - 1) \div w
             from(i) == (i - 1) * w + 1
             end(i) == Files!Least(size, (i - 1) * w + ChunkSize)
  <2>1. w \in Nat \ {0} /\ size > 0 /\ ChunkSize = w + Overlap /\ Overlap \in Nat
    BY <1>2 DEF ChunkIs
  <2>2. /\ q \in Nat \ {0} /\ q * w >= size /\ (q - 1) * w < size
        /\ \A i \in 1..q : (i - 1) * w \in Nat /\ (i - 1) * w < size
        /\ \A i \in 1..q : i * w = (i - 1) * w + w
    BY <2>1, Strides
  <2>3. c = [i \in 1..q |-> Files!Positions(from(i), end(i))]
    BY <1>2 DEF Files!Chunks, ChunkIs
  <2> HIDE DEF w, q
  <2>4. ASSUME NEW i \in 1..q
        PROVE  from(i) \in 1..size /\ end(i) \in from(i)..size
    <3>1. (i - 1) * w \in Nat /\ (i - 1) * w < size  BY <2>2
    <3> QED  BY <3>1 DEF Files!Least, ChunkIs
  <2>5. ASSUME NEW i \in 2..q
        PROVE  from(i) \in (end(i - 1) + 1 - Overlap)..(end(i - 1) + 1)
    <3> DEFINE x == (i - 2) * w
    <3>1. i - 1 \in 1..q /\ i \in 1..q /\ (i - 1) - 1 = i - 2  BY <2>2
    <3>2. (i - 1) * w = x + w /\ x \in Nat
      <4>1. (i - 1) * w = ((i - 1) - 1) * w + w  BY <2>2, <3>1
      <4>2. ((i - 1) - 1) * w \in Nat  BY <2>2, <3>1
      <4> QED  BY <3>1, <4>1, <4>2
    <3>3. (i - 1) * w < size  BY <2>2, <3>1
    <3>4. end(i - 1) = Files!Least(size, x + ChunkSize)  BY <3>1
    <3> HIDE DEF x
    <3> QED  BY <2>1, <3>2, <3>3, <3>4 DEF Files!Least
  <2>6. end(q) = size
    <3>1. q \in 1..q  BY <2>2
    <3>2. q * w = (q - 1) * w + w  BY <2>2, <3>1
    <3>3. (q - 1) * w \in Nat  BY <2>2, <3>1
    <3> QED  BY <2>1, <2>2, <3>2, <3>3 DEF Files!Least
  <2>7. from(1) = 1 /\ end(1) = ChunkSize
    <3>1. (1 - 1) * w = 0  BY <2>1
    <3> QED  BY <1>2, <3>1 DEF Files!Least, ChunkIs
  <2> HIDE DEF from, end
  <2>8. /\ Len(c) = q
        /\ \A i \in 1..q : c[i] = Files!Positions(from(i), end(i)) /\ c[i] \in Seq(1..size)
        /\ c \in Seq(Seq(1..size))
    <3>1. ASSUME NEW i \in 1..q PROVE Files!Positions(from(i), end(i)) \in Seq(1..size)
      <4> DEFINE p == Files!Positions(from(i), end(i))
                 a == from(i)
                 b == end(i)
      <4>1. a \in 1..size /\ b \in a..size  BY <2>4
      <4>2. /\ p \in Seq(1..b) /\ Len(p) = b - a + 1
            /\ \A k \in 1..(b - a + 1) : p[k] = a + k - 1
        <5> HIDE DEF p, a, b
        <5>1. a \in Nat \ {0} /\ b \in Nat /\ b >= a - 1  BY <4>1
        <5>2. p = Files!Positions(a, b)  BY DEF p, a, b
        <5> QED  BY <5>1, <5>2, PositionsIs
      <4> HIDE DEF p, a, b
      <4>3. \A k \in 1..Len(p) : p[k] \in 1..size  BY <4>1, <4>2
      <4>4. p \in Seq(1..size)  BY <4>2, <4>3
      <4> QED  BY <4>4 DEF p
    <3> HIDE DEF c
    <3> QED  BY <2>2, <2>3, <3>1
  <2> HIDE DEF c
  <2>9. PICK f : Joined(f, c, 1..size) /\ t = f[Len(c)]  BY <2>8, Flattening
  <2> DEFINE P == {i \in 0..q : i # 0 => Read(f[i], size, end(i))}
  <2>10. 0 \in P  BY <2>2
  <2>11. ASSUME NEW i \in 1..q, i - 1 \in P PROVE i \in P
    <3>1. f[i] = f[i - 1] \o c[i]  BY <2>8, <2>9 DEF Joined
    <3>2. i \in 0..q /\ i \in Nat  BY <2>2
    <3>3. CASE i = 1
      <4> DEFINE p == Files!Positions(1, ChunkSize)
      <4>1. c[1] = p  BY <2>7, <2>8, <3>3
      <4>2. f[0] = <<>> /\ i - 1 = 0  BY <2>9, <3>3 DEF Joined
      <4>3. /\ p \in Seq(1..ChunkSize) /\ Len(p) = ChunkSize
            /\ \A k \in 1..ChunkSize : p[k] = k
        BY FromOne DEF ChunkIs
      <4> HIDE DEF p
      <4>4. f[1] = p
        <5>1. f[1] = <<>> \o p  BY <3>1, <3>3, <4>1, <4>2
        <5> QED  BY <4>3, <5>1
      <4>5. p \in Seq(1..size)
        <5>1. \A k \in 1..Len(p) : p[k] \in 1..size  BY <1>2, <4>3 DEF ChunkIs
        <5> QED  BY <4>3, <5>1
      <4>6. Smooth(p)
        <5> SUFFICES ASSUME NEW k \in 1..(ChunkSize - 1)
                     PROVE  p[k + 1] \in (p[k] + 1 - Overlap)..(p[k] + 1)
          BY <4>3 DEF Smooth
        <5>1. k \in 1..ChunkSize /\ k + 1 \in 1..ChunkSize  BY DEF ChunkIs
        <5> QED  BY <4>3, <5>1 DEF ChunkIs
      <4>7. Begins(p)  BY <4>3 DEF Begins
      <4>8. p[Len(p)] = end(1) /\ Len(p) \in Nat \ {0}  BY <2>7, <4>3 DEF ChunkIs
      <4>9. Read(p, size, end(1))  BY <4>3, <4>5, <4>6, <4>7, <4>8 DEF Read, ChunkIs
      <4> QED  BY <3>2, <3>3, <4>4, <4>9
    <3>4. CASE i # 1
      <4>1. i \in 2..q /\ i - 1 \in 1..q /\ i - 1 # 0  BY <2>2, <3>4
      <4>2. Read(f[i - 1], size, end(i - 1))  BY <2>11, <4>1
      <4>3. end(i - 1) \in 1..size
        <5>1. end(i - 1) \in from(i - 1)..size /\ from(i - 1) \in 1..size  BY <2>4, <4>1
        <5> QED  BY <5>1
      <4>4. Read(f[i - 1] \o Files!Positions(from(i), end(i)), size, end(i))
        BY <2>4, <2>5, <4>1, <4>2, <4>3, ReadMore
      <4> QED  BY <2>8, <3>1, <3>2, <4>4
    <3> QED  BY <3>3, <3>4
  <2>12. \A i \in 1..q : i - 1 \in P => i \in P  BY <2>11
  <2> HIDE DEF P
  <2>13. \A i \in 0..q : i \in P  BY <2>2, <2>10, <2>12, Induct
  <2>14. Read(t, size, size)
    <3>1. q \in 0..q /\ q # 0  BY <2>2
    <3> QED  BY <2>6, <2>8, <2>9, <2>13, <3>1 DEF P
  <2> HIDE DEF t
  <2> DEFINE n == Len(t)
             T == {i \in 0..n : i # 0 => t[i] <= i}
  <2>15. t \in Seq(1..size) /\ n \in Nat \ {0} /\ t[n] = size /\ Smooth(t) /\ Begins(t)
    BY <2>14 DEF Read
  <2> HIDE DEF n
  <2>16. 0 \in T  BY <2>15
  <2>17. ASSUME NEW i \in 1..n, i - 1 \in T PROVE i \in T
    <3>1. CASE i = 1
      <4>1. t[1] = 1  BY <2>15, <3>1 DEF Begins, ChunkIs, n
      <4> QED  BY <2>15, <3>1, <4>1
    <3>2. CASE i # 1
      <4>1. i - 1 \in 1..(n - 1) /\ (i - 1) + 1 = i /\ i - 1 # 0  BY <2>15, <3>2
      <4>2. t[(i - 1) + 1] \in (t[i - 1] + 1 - Overlap)..(t[i - 1] + 1)
        BY <2>15, <4>1, Zenon DEF Smooth, n
      <4>3. t[i - 1] <= i - 1  BY <2>17, <4>1
      <4>4. i - 1 \in 1..n  BY <2>15, <4>1
      <4>5. t[i - 1] \in Nat  BY <2>15, <4>4 DEF n
      <4>6. t[i] <= i  BY <2>15, <4>1, <4>2, <4>3, <4>5
      <4> QED  BY <2>15, <4>6
    <3> QED  BY <3>1, <3>2
  <2>18. \A i \in 1..n : i - 1 \in T => i \in T  BY <2>17
  <2> HIDE DEF T
  <2>19. \A i \in 0..n : i \in T  BY <2>15, <2>16, <2>18, Induct
  <2>20. t[n] <= n
    <3>1. n \in 0..n /\ n # 0  BY <2>15
    <3> QED  BY <2>19, <3>1 DEF T
  <2> QED  BY <2>15, <2>20 DEF n, t, c
<1> QED  BY <1>1, <1>2 DEF ChunkIs

-----------------------------------------------------------------------------
(* The files of a review: the budget *)

\* A set of numbers with a greatest one.
LEMMA MaxIs ==
  ASSUME NEW S \in SUBSET Nat, NEW m \in S, \A x \in S : x <= m
  PROVE  Files!Max(S) = m
<1>1. \E x \in S : \A y \in S : x >= y  OBVIOUS
<1>2. Files!Max(S) \in S /\ \A y \in S : Files!Max(S) >= y
  <2> DEFINE z == CHOOSE x \in S : \A y \in S : x >= y
  <2>1. z \in S /\ \A y \in S : z >= y  BY <1>1
  <2>2. Files!Max(S) = z  BY DEF Files!Max
  <2> QED  BY <2>1, <2>2
<1>3. Files!Max(S) \in Nat /\ m \in Nat /\ Files!Max(S) <= m /\ Files!Max(S) >= m  BY <1>2
<1> QED  BY <1>3

\* Text that goes on like that shows everything up to the last position it shows.
LEMMA NoGaps ==
  ASSUME ChunkIs, NEW size \in Nat, NEW t \in Seq(1..size), Len(t) # 0, Smooth(t), Begins(t)
  PROVE  Files!Range(t) = 1..Files!Max(Files!Range(t))
<1> DEFINE n == Len(t)
           Upto(m, i) == \A v : v \in 1..m <=> \E k \in 1..i : t[k] = v
           P == {i \in 0..n : i # 0 => \E m \in Nat \ {0} : Upto(m, i)}
<1>1. n \in Nat \ {0} /\ DOMAIN t = 1..n /\ \A i \in 1..n : t[i] \in Nat \ {0}  OBVIOUS
<1>2. t[1] = 1  BY <1>1 DEF Begins, ChunkIs
<1>3. 0 \in P  BY <1>1
<1>4. \A i \in 1..(n - 1) : t[i + 1] <= t[i] + 1
  <2> TAKE i \in 1..(n - 1)
  <2>1. t[i + 1] \in (t[i] + 1 - Overlap)..(t[i] + 1)  BY DEF Smooth
  <2>2. i \in 1..n  BY <1>1
  <2> QED  BY <1>1, <2>1, <2>2 DEF ChunkIs
<1> HIDE DEF n
<1>5. ASSUME NEW i \in 1..n, i - 1 \in P PROVE i \in P
  <2>1. i \in 0..n  BY <1>1
  <2>2. CASE i = 1
    <3>1. Upto(1, 1)  BY <1>2
    <3> QED  BY <2>1, <2>2, <3>1
  <2>3. CASE i # 1
    <3>1. i - 1 \in 1..(n - 1) /\ i - 1 # 0 /\ (i - 1) + 1 = i  BY <1>1, <2>3
    <3>2. PICK m \in Nat \ {0} : Upto(m, i - 1)  BY <1>5, <3>1
    <3>3. i - 1 \in 1..(i - 1) /\ \A k \in 1..i : k = i \/ k \in 1..(i - 1)  BY <3>1
    <3>4. \A k \in 1..(i - 1) : k \in 1..i  BY <1>1
    <3>5. t[i - 1] \in 1..m  BY <3>2, <3>3
    <3>6. t[i] <= t[i - 1] + 1 /\ t[i] \in Nat \ {0}  BY <1>1, <1>4, <3>1
    <3>7. i \in 1..i  BY <1>1
    <3>8. CASE t[i] = m + 1
      <4>1. \A v : v \in 1..(m + 1) <=> v \in 1..m \/ v = m + 1  BY <3>2
      <4>2. Upto(m + 1, i)
        <5> TAKE v
        <5>1. v \in 1..m <=> \E k \in 1..(i - 1) : t[k] = v  BY <3>2
        <5>2. (\E k \in 1..i : t[k] = v) <=> (\E k \in 1..(i - 1) : t[k] = v) \/ t[i] = v
          BY <3>3, <3>4, <3>7
        <5> QED  BY <3>8, <4>1, <5>1, <5>2
      <4>3. m + 1 \in Nat \ {0}  OBVIOUS
      <4> HIDE DEF Upto
      <4> QED  BY <2>1, <4>2, <4>3
    <3>9. CASE t[i] # m + 1
      <4>1. t[i] \in 1..m
        <5>1. \A a \in 1..m, b \in Nat \ {0} : b <= a + 1 /\ b # m + 1 => b \in 1..m
          OBVIOUS
        <5> QED  BY <3>5, <3>6, <3>9, <5>1, Zenon
      <4>2. Upto(m, i)
        <5> TAKE v
        <5>1. v \in 1..m <=> \E k \in 1..(i - 1) : t[k] = v  BY <3>2
        <5>2. (\E k \in 1..i : t[k] = v) <=> (\E k \in 1..(i - 1) : t[k] = v) \/ t[i] = v
          BY <3>3, <3>4, <3>7
        <5> QED  BY <4>1, <5>1, <5>2
      <4> HIDE DEF Upto
      <4> QED  BY <2>1, <3>2, <4>2
    <3> QED  BY <3>8, <3>9
  <2> QED  BY <2>2, <2>3
<1>6. \A i \in 1..n : i - 1 \in P => i \in P  BY <1>5
<1> HIDE DEF P
<1>7. \A i \in 0..n : i \in P  BY <1>1, <1>3, <1>6, Induct
<1>8. PICK m \in Nat \ {0} : Upto(m, n)
  <2>1. n \in 0..n /\ n # 0  BY <1>1
  <2> QED  BY <1>7, <2>1 DEF P
<1>9. Files!Range(t) = 1..m
  <2>1. \A v : v \in Files!Range(t) <=> \E k \in 1..n : t[k] = v  BY <1>1 DEF Files!Range
  <2> QED  BY <1>8, <2>1
<1>10. Files!Max(1..m) = m
  <2>1. (1..m) \in SUBSET Nat /\ m \in 1..m /\ \A x \in 1..m : x <= m  OBVIOUS
  <2> QED  BY <2>1, MaxIs
<1> QED  BY <1>9, <1>10

\* What is taken of a file: as much as there is, as its share and the budget allow,
\* and that from its start without a gap.
LEMMA TakenIs ==
  ASSUME ChunkIs, NEW size \in Nat, NEW s \in Nat, remaining \in Nat, Files!Share = s
  PROVE  LET p == Files!Taken(size)
         IN  /\ p \in Seq(1..size) /\ Smooth(p) /\ Begins(p)
             /\ Len(p) <= s /\ Len(p) <= remaining
             /\ s <= remaining => Len(p) >= Files!Least(size, s)
<1> DEFINE t == Files!Flat(Files!Chunks(size))
           n == Files!Least(Len(t), Files!Least(s, remaining))
           p == SubSeq(t, 1, n)
<1>1. Files!Taken(size) = p  BY DEF Files!Taken
<1>2. t \in Seq(1..size) /\ Len(t) >= size /\ Smooth(t) /\ Begins(t)  BY ChunksRead
<1> HIDE DEF t
<1>3. /\ n \in 0..Len(t) /\ n <= s /\ n <= remaining /\ Len(t) \in Nat
      /\ s <= remaining => n >= Files!Least(size, s)
  <2>1. Len(t) \in Nat  BY <1>2
  <2> QED  BY <1>2, <2>1 DEF Files!Least
<1> HIDE DEF n
<1>4. p \in Seq(1..size) /\ Len(p) = n /\ \A i \in 1..n : p[i] = t[i]
  BY <1>2, <1>3
<1> HIDE DEF p
<1>5. Smooth(p)
  <2>1. \A i \in 1..(Len(p) - 1) : i \in 1..n /\ i + 1 \in 1..n /\ i \in 1..(Len(t) - 1)
    BY <1>3, <1>4
  <2> QED  BY <1>2, <1>4, <2>1 DEF Smooth
<1>6. Begins(p)
  <2>1. \A i \in 1..Len(p) : i \in 1..n /\ i \in 1..Len(t)  BY <1>3, <1>4
  <2> QED  BY <1>2, <1>4, <2>1 DEF Begins
<1> QED  BY <1>1, <1>3, <1>4, <1>5, <1>6

\* Equal shares fit into the budget.
LEMMA SharesFit ==
  ASSUME NEW b \in Nat, NEW n \in Nat \ {0}
  PROVE  b \div n \in Nat /\ (b \div n) * n <= b
OBVIOUS

\* What is left for the rest when one more has had a share.
LEMMA ShareLess ==
  ASSUME NEW s \in Nat, NEW m \in Nat \ {0}
  PROVE  s * m = s * (m - 1) + s /\ s * (m - 1) \in Nat /\ s * m \in Nat
OBVIOUS

\* All that is given: of each file the positions that are filled.
Given == UNION {{f} \X DOMAIN given[f] : f \in File}

\* How far the reading is: each file that is left has its share of the budget.
FilesShared ==
  /\ Len(allowed) <= Len(paths)
  /\ IF status = "checking"
     THEN /\ Len(allowed) <= turn /\ remaining = budget
          /\ \A f \in File : given[f] = <<>>
     ELSE status \in {"reading", "done"} => turn <= Len(allowed)
  /\ status = "reading" => allowed # <<>>
  /\ allowed # <<>> => budget > 0
  /\ status \in {"reading", "done"} /\ allowed # <<>> =>
       /\ remaining >= Files!Share * (Len(allowed) - turn)
       /\ remaining > 0 \/ turn = Len(allowed)
  /\ status = "done" => turn = Len(allowed)

\* What is given fits the budget with what remains, is smooth text of files that
\* are allowed, and as much of each as its share; what is handed on for it is not
\* longer but for markers.
FilesGiven ==
  /\ IsFiniteSet(Given) /\ Cardinality(Given) + remaining <= budget
  /\ \A f \in File : given[f] # <<>> =>
       Holds(allowed, f) /\ Smooth(given[f]) /\ Begins(given[f])
  /\ changes = 0 => \A i \in 1..Len(allowed) :
       disk[allowed[i]].kind \in {"text", "marked", "garbled"}
  /\ changes = 0 /\ status \in {"reading", "done"} =>
       \A i \in 1..turn :
         Len(given[allowed[i]]) >= Files!Least(disk[allowed[i]].size, Files!Share)
  /\ \A f \in File :
       /\ handed[f] <= 3 * Len(given[f])
       /\ changes = 0 /\ disk[f].kind # "marked" => handed[f] = Len(given[f])
  /\ status = "raised" =>
       \/ changes > 0 \/ \E i \in 1..Len(allowed) : disk[allowed[i]].kind = "garbled"
       \/ \E i \in 1..Len(paths) : disk[paths[i]].kind = "locked"

\* The inductive invariant of a review's files.
FilesInv == Files!TypeOK /\ FilesShared /\ FilesGiven

\* What the constants are.
LEMMA FileSizes ==
  /\ ChunkIs /\ Changes \in Nat
  /\ PathLists \subseteq Seq(File) /\ Budgets \subseteq Nat /\ Sizes \subseteq Nat
  /\ Files!Max(Sizes) \in Nat /\ \A size \in Sizes : size <= Files!Max(Sizes)
<1>1. PICK most \in Sizes : \A size \in Sizes : size <= most
  BY ServicesAssumption DEF ServicesAssumption
<1>2. Sizes \subseteq Nat  BY ServicesAssumption DEF ServicesAssumption
<1>3. Files!Max(Sizes) = most  BY <1>1, <1>2, MaxIs
<1>4. ChunkIs  BY ServicesAssumption DEF ServicesAssumption, ChunkIs
<1> QED  BY <1>1, <1>2, <1>3, <1>4, ServicesAssumption DEF ServicesAssumption

\* Nothing is given at first.
LEMMA FilesStart ==
  ASSUME Files!Init
  PROVE  FilesInv
<1>1. /\ allowed = <<>> /\ turn = 0 /\ remaining = budget /\ budget \in Nat
      /\ given = [f \in File |-> <<>>] /\ handed = [f \in File |-> 0]
      /\ status = "checking" /\ changes = 0
      /\ paths \in Seq(File) /\ Len(paths) \in Nat /\ Len(allowed) = 0
  BY FileSizes DEF Files!Init
<1>2. Files!TypeOK
  <2>1. given \in [File -> Files!Text]  BY <1>1 DEF Files!Text
  <2>2. paths \in PathLists /\ budget \in Budgets
        /\ disk \in [File -> [kind : Files!Kind, size : Sizes]]
    BY DEF Files!Init
  <2>3. allowed \in Seq(File)  BY <1>1
  <2>4. turn \in 0..Len(paths) /\ changes \in 0..Changes  BY <1>1, FileSizes
  <2>5. handed \in [File -> Nat]  BY <1>1
  <2> QED  BY <1>1, <2>1, <2>2, <2>3, <2>4, <2>5 DEF Files!TypeOK
<1>3. FilesShared  BY <1>1 DEF FilesShared
<1>4. FilesGiven
  <2>1. Given = {}  BY <1>1 DEF Given
  <2>2. IsFiniteSet(Given) /\ Cardinality(Given) = 0  BY <2>1, FS_EmptySet
  <2>3. \A f \in File : given[f] = <<>> /\ handed[f] = 0 /\ Len(given[f]) = 0  BY <1>1
  <2> QED  BY <1>1, <2>2, <2>3 DEF FilesGiven
<1> QED  BY <1>2, <1>3, <1>4 DEF FilesInv

\* A path is accepted or not, or cannot be looked at.
LEMMA FileChecked ==
  ASSUME FilesInv, Files!Check
  PROVE  FilesInv'
<1> DEFINE f == paths[turn + 1]
<1>1. /\ status = "checking" /\ turn < Len(paths) /\ budget > 0
      /\ \/ /\ turn' = turn + 1 /\ status' = status
            /\ Files!Accepted(f) => allowed' = Append(allowed, f)
            /\ ~Files!Accepted(f) => allowed' = allowed
         \/ /\ disk[f].kind = "locked" /\ status' = "raised"
            /\ allowed' = allowed /\ turn' = turn
      /\ UNCHANGED <<paths, budget, disk, remaining, given, handed, changes>>
  BY DEF Files!Check
<1>2. /\ paths \in Seq(File) /\ Len(paths) \in Nat /\ turn \in 0..Len(paths)
      /\ allowed \in Seq(File) /\ Len(allowed) \in Nat
  BY FileSizes DEF FilesInv, Files!TypeOK
<1>3. f \in File /\ \E i \in 1..Len(paths) : paths[i] = f
  <2>1. turn + 1 \in 1..Len(paths)  BY <1>1, <1>2
  <2> QED  BY <1>2, <2>1
<1> HIDE DEF f
<1>4. CASE /\ turn' = turn + 1 /\ status' = status
           /\ Files!Accepted(f) => allowed' = Append(allowed, f)
           /\ ~Files!Accepted(f) => allowed' = allowed
  <2>4. /\ allowed' \in Seq(File) /\ Len(allowed') \in {Len(allowed), Len(allowed) + 1}
        /\ \A i \in 1..Len(allowed') :
             \/ i \in 1..Len(allowed) /\ allowed'[i] = allowed[i]
             \/ allowed'[i] = f /\ Files!Accepted(f)
    <3>1. CASE Files!Accepted(f)
      <4>1. /\ Append(allowed, f) \in Seq(File)
            /\ Len(Append(allowed, f)) = Len(allowed) + 1
            /\ \A i \in 1..Len(allowed) : Append(allowed, f)[i] = allowed[i]
            /\ Append(allowed, f)[Len(allowed) + 1] = f
        BY <1>2, <1>3
      <4>2. \A i \in 1..(Len(allowed) + 1) : i \in 1..Len(allowed) \/ i = Len(allowed) + 1
        BY <1>2
      <4> QED  BY <1>4, <3>1, <4>1, <4>2
    <3>2. CASE ~Files!Accepted(f)  BY <1>2, <1>4, <3>2
    <3> QED  BY <3>1, <3>2
  <2>5. \A g \in File : given[g] = <<>>  BY <1>1 DEF FilesInv, FilesShared
  <2>6. Files!TypeOK'  BY <1>1, <1>2, <1>4, <2>4 DEF FilesInv, Files!TypeOK
  <2>7. FilesShared'  BY <1>1, <1>2, <1>4, <2>4, <2>5 DEF FilesInv, FilesShared
  <2>8. FilesGiven'
    <3>1. Given' = Given  BY <1>1 DEF Given
    <3>2. changes = 0 =>
            \A i \in 1..Len(allowed') : disk[allowed'[i]].kind \in {"text", "marked", "garbled"}
      BY <2>4 DEF FilesInv, FilesGiven, Files!Accepted, Files!Readable
    <3>3. status' = "checking" /\ changes' = changes /\ disk' = disk  BY <1>1, <1>4
    <3>4. \A g \in File :
            /\ given'[g] = <<>>
            /\ handed'[g] <= 3 * Len(given'[g])
            /\ changes' = 0 /\ disk'[g].kind # "marked" => handed'[g] = Len(given'[g])
      BY <1>1, <2>5 DEF FilesInv, FilesGiven
    <3>5. IsFiniteSet(Given') /\ Cardinality(Given') + remaining' <= budget'
      BY <1>1, <3>1 DEF FilesInv, FilesGiven
    <3> QED  BY <3>2, <3>3, <3>4, <3>5 DEF FilesGiven
  <2> QED  BY <2>6, <2>7, <2>8 DEF FilesInv
<1>5. CASE /\ disk[f].kind = "locked" /\ status' = "raised"
           /\ allowed' = allowed /\ turn' = turn
  <2>1. Files!TypeOK'  BY <1>1, <1>5 DEF FilesInv, Files!TypeOK
  <2>2. FilesShared'  BY <1>1, <1>5 DEF FilesInv, FilesShared
  <2>3. FilesGiven'
    <3>1. Given' = Given  BY <1>1 DEF Given
    <3> QED  BY <1>1, <1>3, <1>5, <3>1 DEF FilesInv, FilesGiven
  <2> QED  BY <2>1, <2>2, <2>3 DEF FilesInv
<1> QED  BY <1>1, <1>4, <1>5

\* All are checked.
LEMMA FilesChecked ==
  ASSUME FilesInv, Files!Checked
  PROVE  FilesInv'
<1>1. /\ status = "checking" /\ turn' = 0 /\ (turn = Len(paths) \/ budget = 0)
      /\ status' = IF allowed = <<>> THEN "done" ELSE "reading"
      /\ UNCHANGED <<paths, budget, disk, allowed, remaining, given, handed, changes>>
  BY DEF Files!Checked
<1>2. /\ Len(paths) \in Nat /\ budget \in Nat
      /\ allowed \in Seq(File) /\ Len(allowed) \in Nat /\ remaining = budget
      /\ allowed = <<>> => Len(allowed) = 0
      /\ allowed # <<>> => Len(allowed) # 0
      /\ \A f \in File : given[f] = <<>>
  BY <1>1, FileSizes DEF FilesInv, Files!TypeOK, FilesShared
<1>3. Files!TypeOK'  BY <1>1, <1>2 DEF FilesInv, Files!TypeOK
<1>4. FilesShared'
  <2>1. CASE allowed = <<>>  BY <1>1, <1>2, <2>1 DEF FilesInv, FilesShared
  <2>2. CASE allowed # <<>>
    <3>1. Files!Share' = budget \div Len(allowed)  BY <1>1 DEF Files!Share
    <3>2. (budget \div Len(allowed)) * Len(allowed) <= budget  BY <1>2, <2>2, SharesFit
    <3>3. remaining' >= Files!Share' * (Len(allowed') - turn')  BY <1>1, <1>2, <3>1, <3>2
    <3>4. remaining' > 0  BY <1>1, <1>2, <2>2 DEF FilesInv, FilesShared
    <3> QED  BY <1>1, <1>2, <2>2, <3>3, <3>4 DEF FilesInv, FilesShared
  <2> QED  BY <2>1, <2>2
<1>5. FilesGiven'
  <2>1. Given' = Given  BY <1>1 DEF Given
  <2> QED  BY <1>1, <1>2, <2>1 DEF FilesInv, FilesGiven
<1> QED  BY <1>3, <1>4, <1>5 DEF FilesInv

\* Text of a smaller file could be of a larger one.
LEMMA SeqWithin ==
  ASSUME NEW a \in Nat, NEW b \in Nat, a <= b, NEW t \in Seq(1..a)
  PROVE  t \in Seq(1..b)
<1>1. \A i \in 1..Len(t) : t[i] \in 1..b  OBVIOUS
<1> QED  BY <1>1

\* A share is taken of the next file.
LEMMA FileRead ==
  ASSUME FilesInv, Files!ReadNext
  PROVE  FilesInv'
<1> DEFINE f == allowed[turn + 1]
           size == disk[f].size
           p == Files!Taken(size)
           s == Files!Share
           m == Len(allowed) - turn
<1>1. /\ status = "reading" /\ turn < Len(allowed) /\ remaining > 0
      /\ given' = [given EXCEPT ![f] = p] /\ remaining' = remaining - Len(p)
      /\ turn' = turn + 1
      /\ UNCHANGED <<paths, budget, disk, allowed, status, changes>>
  BY DEF Files!ReadNext
<1>1a. PICK length \in Files!Sanitized(f, Len(p)) : handed' = [handed EXCEPT ![f] = length]
  BY DEF Files!ReadNext
<1>2a. status = "reading" => turn <= Len(allowed) /\ Len(allowed) <= Len(paths)
  BY DEF FilesInv, FilesShared
<1>2. /\ Len(paths) \in Nat /\ turn \in Nat /\ budget \in Nat /\ remaining \in Nat
      /\ allowed \in Seq(File) /\ Len(allowed) \in Nat /\ turn + 1 \in 1..Len(allowed)
      /\ Len(allowed) <= Len(paths)
      /\ disk \in [File -> [kind : Files!Kind, size : Sizes]]
      /\ given \in [File -> Files!Text]
  BY <1>1, <1>2a, FileSizes DEF FilesInv, Files!TypeOK
<1>3. f \in File /\ size \in Sizes /\ size \in Nat /\ size <= Files!Max(Sizes)
  <2>1. f \in File  BY <1>2
  <2>2. size \in Sizes  BY <1>2, <2>1
  <2> QED  BY <2>1, <2>2, FileSizes
<1>4. s \in Nat /\ allowed # <<>> /\ m \in Nat \ {0} /\ remaining >= s * m
  <2>1. Len(allowed) \in Nat \ {0}  BY <1>1, <1>2
  <2>2. allowed # <<>>  BY <1>2, <2>1
  <2>3. s = budget \div Len(allowed)  BY DEF Files!Share
  <2>4. s \in Nat  BY <1>2, <2>1, <2>3, SharesFit
  <2>5. remaining >= Files!Share * (Len(allowed) - turn)
    BY <1>1, <2>2 DEF FilesInv, FilesShared
  <2> QED  BY <1>1, <1>2, <2>2, <2>4, <2>5
<1> HIDE DEF s, m
<1>5. s * m = s * (m - 1) + s /\ s * (m - 1) \in Nat /\ s <= remaining
  <2>1. s * m = s * (m - 1) + s /\ s * (m - 1) \in Nat  BY <1>4, ShareLess
  <2>2. \A a, b, c, r \in Nat : r >= a /\ a = b + c => c <= r  OBVIOUS
  <2>3. s * m \in Nat  BY <1>4, ShareLess
  <2>4. s <= remaining  BY <1>2, <1>4, <2>1, <2>2, <2>3, Zenon
  <2> QED  BY <2>1, <2>4
<1>6. /\ p \in Seq(1..size) /\ Smooth(p) /\ Begins(p)
      /\ Len(p) <= s /\ Len(p) <= remaining /\ Len(p) >= Files!Least(size, s)
  <2>1. ChunkIs /\ Files!Share = s  BY FileSizes DEF s
  <2> HIDE DEF size
  <2> QED  BY <1>2, <1>3, <1>4, <1>5, <2>1, TakenIs
<1>7. Len(p) \in Nat /\ remaining' \in Nat /\ DOMAIN p = 1..Len(p)
      /\ remaining' >= s * (m - 1)
  <2>1. Len(p) \in Nat /\ DOMAIN p = 1..Len(p)  BY <1>6
  <2> QED  BY <1>1, <1>2, <1>4, <1>5, <1>6, <2>1
<1>8. p \in Files!Text
  <2> DEFINE top == Files!Max(Sizes)
  <2>1. top \in Nat /\ size \in Nat /\ size <= top  BY <1>3, FileSizes
  <2> HIDE DEF p, top, size
  <2>2. p \in Seq(1..size)  BY <1>6
  <2>4. p \in Seq(1..top)  BY <2>1, <2>2, SeqWithin
  <2> QED  BY <2>4 DEF top, Files!Text
<1>8a. /\ length \in Nat /\ length <= 3 * Len(p)
       /\ disk[f].kind # "marked" => length = Len(p)
  <2> DEFINE n == Len(p)
  <2>1. n \in Nat  BY <1>7
  <2>2. length \in Files!Sanitized(f, n)  BY <1>1a
  <2> HIDE DEF n, p, f
  <2>3. length = n \/ (disk[f].kind = "marked" /\ length \in 18..(n + (18 - 6) * (n \div 6)))
    BY <2>2 DEF Files!Sanitized
  <2>4. n \div 6 \in Nat /\ 6 * (n \div 6) <= n  BY <2>1
  <2>5. length \in Nat /\ length <= 3 * n  BY <2>1, <2>3, <2>4
  <2> QED  BY <2>3, <2>5 DEF n
<1> HIDE DEF p
<1>9. /\ given' \in [File -> Files!Text] /\ given'[f] = p
      /\ \A g \in File : g # f => given'[g] = given[g]
  BY <1>1, <1>2, <1>3, <1>8
<1>9a. /\ handed' \in [File -> Nat] /\ handed'[f] = length
       /\ \A g \in File : g # f => handed'[g] = handed[g]
  BY <1>1a, <1>3, <1>8a DEF FilesInv, Files!TypeOK
<1>10. Files!TypeOK'
  <2>1. turn' \in 0..Len(paths')  BY <1>1, <1>2
  <2> HIDE DEF f
  <2> QED  BY <1>1, <1>7, <1>9, <1>9a, <2>1 DEF FilesInv, Files!TypeOK
<1>11. FilesShared'
  <2>1. Files!Share' = s  BY <1>1 DEF Files!Share, s
  <2>2. Len(allowed') - turn' = m - 1  BY <1>1, <1>2 DEF m
  <2>3. remaining' >= Files!Share' * (Len(allowed') - turn')  BY <1>7, <2>1, <2>2
  <2>4. remaining' > 0 \/ turn' = Len(allowed')
    <3>1. CASE s = 0
      <4>1. Len(p) = 0  BY <1>6, <1>7, <3>1
      <4> QED  BY <1>1, <1>2, <4>1
    <3>2. CASE m - 1 = 0  BY <1>2, <2>2, <3>2, <1>1
    <3>3. CASE s # 0 /\ m - 1 # 0
      <4>1. s \in Nat \ {0} /\ m - 1 \in Nat \ {0}  BY <1>4, <3>3
      <4>2. \A a, b \in Nat \ {0} : a * b \in Nat /\ a * b > 0  OBVIOUS
      <4>3. s * (m - 1) > 0  BY <4>1, <4>2, Zenon
      <4> QED  BY <1>5, <1>7, <4>3
    <3> QED  BY <3>1, <3>2, <3>3
  <2>5. turn' <= Len(allowed')  BY <1>1, <1>2
  <2> HIDE DEF f
  <2> QED  BY <1>1, <1>2, <1>4, <2>3, <2>4, <2>5 DEF FilesInv, FilesShared
<1>12. IsFiniteSet(Given') /\ Cardinality(Given') + remaining' <= budget
  <2> DEFINE new == {f} \X DOMAIN p
  <2>1. IsFiniteSet(new) /\ Cardinality(new) = Len(p)
    <3>1. IsFiniteSet({f}) /\ Cardinality({f}) = 1  BY FS_Singleton
    <3>2. IsFiniteSet(1..Len(p)) /\ Cardinality(1..Len(p)) = Len(p)
      <4>1. 1 \in Int /\ Len(p) \in Int  BY <1>7
      <4>2. IsFiniteSet(1..Len(p)) /\ Cardinality(1..Len(p))
              = IF 1 > Len(p) THEN 0 ELSE Len(p) - 1 + 1
        BY <4>1, FS_Interval
      <4> QED  BY <1>7, <4>2
    <3>3. /\ IsFiniteSet({f} \X (1..Len(p)))
          /\ Cardinality({f} \X (1..Len(p))) = Cardinality({f}) * Cardinality(1..Len(p))
      BY <3>1, <3>2, FS_Product
    <3> HIDE DEF f
    <3> QED  BY <1>7, <3>1, <3>2, <3>3
  <2>2. Given' \subseteq Given \cup new
    <3> SUFFICES ASSUME NEW x \in Given' PROVE x \in Given \cup new
      OBVIOUS
    <3>1. PICK g \in File : x \in {g} \X DOMAIN given'[g]  BY DEF Given
    <3>2. CASE g = f  BY <1>9, <3>1, <3>2
    <3>3. CASE g # f  BY <1>9, <3>1, <3>3 DEF Given
    <3> QED  BY <3>2, <3>3
  <2>3. IsFiniteSet(Given) /\ Cardinality(Given) + remaining <= budget
    BY DEF FilesInv, FilesGiven
  <2> HIDE DEF new
  <2>4. IsFiniteSet(Given \cup new)
        /\ Cardinality(Given \cup new)
             = Cardinality(Given) + Cardinality(new) - Cardinality(Given \cap new)
    BY <2>1, <2>3, FS_Union
  <2>5. IsFiniteSet(Given \cap new)
    BY <2>3, FS_Intersection
  <2>6. IsFiniteSet(Given') /\ Cardinality(Given') <= Cardinality(Given \cup new)
    BY <2>2, <2>4, FS_Subset
  <2>7. /\ Cardinality(Given) \in Nat /\ Cardinality(Given \cap new) \in Nat
        /\ Cardinality(Given \cup new) \in Nat /\ Cardinality(Given') \in Nat
    BY <2>3, <2>4, <2>5, <2>6, FS_CardinalityType
  <2>8. Cardinality(Given \cup new) <= Cardinality(Given) + Len(p)
    BY <1>7, <2>1, <2>4, <2>7
  <2>9. remaining' + Len(p) = remaining  BY <1>1, <1>2, <1>7
  <2>10. \A a, b, c, d, e, r, t \in Nat :
           a + r <= t /\ b <= a + d /\ c <= b /\ e + d = r => c + e <= t
    OBVIOUS
  <2> QED  BY <1>2, <1>7, <2>3, <2>6, <2>7, <2>8, <2>9, <2>10
<1>13. \A g \in File : given'[g] # <<>> =>
         Holds(allowed, g) /\ Smooth(given'[g]) /\ Begins(given'[g])
  <2> TAKE g \in File
  <2>1. CASE g = f
    <3>1. Holds(allowed, f)
      <4>1. allowed[turn + 1] = f  OBVIOUS
      <4> HIDE DEF f
      <4> QED  BY <1>2, <4>1 DEF Holds
    <3> QED  BY <1>6, <1>9, <2>1, <3>1
  <2>2. CASE g # f  BY <1>9, <2>2 DEF FilesInv, FilesGiven
  <2> QED  BY <2>1, <2>2
<1>14. ASSUME changes = 0
       PROVE  \A i \in 1..turn' :
                Len(given'[allowed[i]]) >= Files!Least(disk[allowed[i]].size, s)
  <2> TAKE i \in 1..turn'
  <2>1. i \in 1..Len(allowed) /\ (i \in 1..turn \/ i = turn + 1)  BY <1>1, <1>2
  <2>2. allowed[i] \in File  BY <1>2, <2>1
  <2>3. CASE allowed[i] = f  BY <1>6, <1>9, <2>3
  <2>4. CASE allowed[i] # f
    <3>1. i \in 1..turn  BY <2>1, <2>4
    <3>2. Len(given[allowed[i]]) >= Files!Least(disk[allowed[i]].size, s)
      BY <1>1, <1>14, <3>1 DEF FilesInv, FilesGiven, s
    <3> QED  BY <1>9, <2>2, <2>4, <3>2
  <2> QED  BY <2>3, <2>4
<1>15. FilesGiven'
  <2>1. Files!Share' = s  BY <1>1 DEF Files!Share, s
  <2>2. Smooth(given)' = Smooth(given')  BY DEF Smooth
  <2>3. \A g \in File : given'[g] # <<>> =>
         Holds(allowed', g) /\ Smooth(given'[g]) /\ Begins(given'[g])
    BY <1>1, <1>13
  <2>4. changes' = 0 /\ status' \in {"reading", "done"} =>
       \A i \in 1..turn' :
         Len(given'[allowed'[i]]) >= Files!Least(disk'[allowed'[i]].size, Files!Share')
    BY <1>1, <1>14, <2>1
  <2>5. changes' = 0 =>
          \A i \in 1..Len(allowed') : disk'[allowed'[i]].kind \in {"text", "marked", "garbled"}
    BY <1>1 DEF FilesInv, FilesGiven
  <2>8. ASSUME NEW g \in File
        PROVE  /\ handed'[g] <= 3 * Len(given'[g])
               /\ changes' = 0 /\ disk'[g].kind # "marked" => handed'[g] = Len(given'[g])
    <3>1. CASE g = f  BY <1>1, <1>8a, <1>9, <1>9a, <3>1
    <3>2. CASE g # f  BY <1>1, <1>9, <1>9a, <3>2 DEF FilesInv, FilesGiven
    <3> QED  BY <3>1, <3>2
  <2>6. status' # "raised"  BY <1>1
  <2>7. IsFiniteSet(Given') /\ Cardinality(Given') + remaining' <= budget'
    BY <1>1, <1>12
  <2> HIDE DEF f
  <2> QED  BY <2>3, <2>4, <2>5, <2>6, <2>7, <2>8 DEF FilesGiven
<1> QED  BY <1>10, <1>11, <1>15 DEF FilesInv

\* The reading ends, in one way or the other.
LEMMA FileEnds ==
  ASSUME FilesInv, Files!Raise \/ Files!Finish
  PROVE  FilesInv'
<1>1. Given' = Given /\ Files!Share' = Files!Share
  BY DEF Given, Files!Share, Files!Raise, Files!Finish
<1>2. /\ Len(allowed) \in Nat /\ turn \in Nat /\ remaining \in Nat
      /\ allowed \in Seq(File)
  BY FileSizes DEF FilesInv, Files!TypeOK
<1>3. CASE Files!Raise
  <2>1. /\ status = "reading" /\ turn < Len(allowed) /\ status' = "raised"
        /\ disk[allowed[turn + 1]].kind \notin {"text", "marked"}
        /\ UNCHANGED <<paths, budget, disk, allowed, turn, remaining, given, handed, changes>>
    BY <1>3 DEF Files!Raise, Files!Readable
  <2>2. turn + 1 \in 1..Len(allowed)  BY <1>2, <2>1
  <2>3. changes > 0 \/ \E i \in 1..Len(allowed) : disk[allowed[i]].kind = "garbled"
    <3>1. changes \in Nat  BY FileSizes DEF FilesInv, Files!TypeOK
    <3>2. CASE changes = 0
      <4>1. disk[allowed[turn + 1]].kind \in {"text", "marked", "garbled"}
        BY <2>2, <3>2 DEF FilesInv, FilesGiven
      <4> QED  BY <2>1, <2>2, <4>1
    <3> QED  BY <3>1, <3>2
  <2>4. Files!TypeOK'  BY <2>1 DEF FilesInv, Files!TypeOK
  <2>5. FilesShared'  BY <1>1, <2>1 DEF FilesInv, FilesShared
  <2>6. FilesGiven'  BY <1>1, <2>1, <2>3 DEF FilesInv, FilesGiven
  <2> QED  BY <2>4, <2>5, <2>6 DEF FilesInv
<1>4. CASE Files!Finish
  <2>1. /\ status = "reading" /\ status' = "done" /\ (turn = Len(allowed) \/ remaining = 0)
        /\ UNCHANGED <<paths, budget, disk, allowed, turn, remaining, given, handed, changes>>
    BY <1>4 DEF Files!Finish
  <2>2. turn = Len(allowed)  BY <1>2, <2>1 DEF FilesInv, FilesShared
  <2>3. Files!TypeOK'  BY <2>1 DEF FilesInv, Files!TypeOK
  <2>4. FilesShared'  BY <1>1, <1>2, <2>1, <2>2 DEF FilesInv, FilesShared
  <2>5. FilesGiven'  BY <1>1, <2>1 DEF FilesInv, FilesGiven
  <2> QED  BY <2>3, <2>4, <2>5 DEF FilesInv
<1> QED  BY <1>3, <1>4

\* A file changes.
LEMMA FileChanged ==
  ASSUME FilesInv, Files!Change
  PROVE  FilesInv'
<1>1. /\ status \in {"checking", "reading"} /\ changes < Changes /\ changes' = changes + 1
      /\ UNCHANGED <<paths, budget, allowed, turn, remaining, given, handed, status>>
  BY DEF Files!Change
<1>2. PICK f \in File, kind1 \in Files!Kind, size \in Sizes :
        disk' = [disk EXCEPT ![f] = [kind |-> kind1, size |-> size]]
  BY DEF Files!Change
<1>3. changes \in Nat /\ Changes \in Nat  BY FileSizes DEF FilesInv, Files!TypeOK
<1>4. disk' \in [File -> [kind : Files!Kind, size : Sizes]]
  BY <1>2 DEF FilesInv, Files!TypeOK, Files!Kind
<1>5. Files!TypeOK'  BY <1>1, <1>3, <1>4 DEF FilesInv, Files!TypeOK
<1>6. FilesShared'
  <2>1. Files!Share' = Files!Share  BY <1>1 DEF Files!Share
  <2> QED  BY <1>1, <2>1 DEF FilesInv, FilesShared
<1>7. FilesGiven'
  <2>1. Given' = Given  BY <1>1 DEF Given
  <2>2. changes' > 0 /\ changes' # 0  BY <1>1, <1>3
  <2> QED  BY <1>1, <2>1, <2>2 DEF FilesInv, FilesGiven
<1> QED  BY <1>5, <1>6, <1>7 DEF FilesInv

\* Every step keeps it.
LEMMA FilesKeep ==
  ASSUME FilesInv, Files!Next \/ UNCHANGED fileVars
  PROVE  FilesInv'
<1>1. CASE Files!Check  BY <1>1, FileChecked
<1>2. CASE Files!Checked  BY <1>2, FilesChecked
<1>3. CASE Files!ReadNext  BY <1>3, FileRead
<1>4. CASE Files!Raise \/ Files!Finish  BY <1>4, FileEnds
<1>5. CASE Files!Change  BY <1>5, FileChanged
<1>6. CASE UNCHANGED fileVars
  <2>1. Given' = Given /\ Files!Share' = Files!Share
    BY <1>6 DEF fileVars, Given, Files!Share
  <2>2. Files!TypeOK'  BY <1>6 DEF fileVars, FilesInv, Files!TypeOK
  <2>3. FilesShared'  BY <1>6, <2>1 DEF fileVars, FilesInv, FilesShared
  <2>4. FilesGiven'  BY <1>6, <2>1 DEF fileVars, FilesInv, FilesGiven
  <2> QED  BY <2>2, <2>3, <2>4 DEF FilesInv
<1> QED  BY <1>1, <1>2, <1>3, <1>4, <1>5, <1>6 DEF Files!Next

\* What a review is given is within the budget, no less than a share, and has no gaps.
LEMMA FilesGivenRight ==
  ASSUME FilesInv
  PROVE  Files!BudgetKept
<1>1. /\ allowed \in Seq(File) /\ Len(allowed) \in Nat /\ turn \in Nat
      /\ remaining \in Nat /\ budget \in Nat
  BY FileSizes DEF FilesInv, Files!TypeOK
<1>2. Files!GivenInAll <= budget
  <2>1. Files!GivenInAll = Cardinality(Given)
    BY DEF Files!GivenInAll, Given, Files!Cardinality, Cardinality
  <2>2. Cardinality(Given) \in Nat  BY FS_CardinalityType DEF FilesInv, FilesGiven
  <2> QED  BY <1>1, <2>1, <2>2 DEF FilesInv, FilesGiven
<1>3. status = "done" => turn = Len(allowed)  BY DEF FilesInv, FilesShared
<1>4. \A i \in 1..turn : status \in {"reading", "done"} /\ changes = 0 =>
        Len(given[allowed[i]]) >= Files!Least(disk[allowed[i]].size, Files!Share)
  BY DEF FilesInv, FilesGiven
<1>5. ASSUME NEW f \in File, given[f] # <<>>
      PROVE  /\ f \in Files!Range(allowed)
             /\ Files!Range(given[f]) = 1..Files!Max(Files!Range(given[f]))
             /\ \A n \in 1..Len(given[f]) - 1 :
                  given[f][n + 1] \in given[f][n] + 1 - Overlap .. given[f][n] + 1
             /\ Len(given[f]) <= ChunkSize =>
                  given[f] = Files!Positions(1, Len(given[f]))
  <2> DEFINE t == given[f]
             top == Files!Max(Sizes)
  <2>1. t \in Seq(1..top) /\ top \in Nat /\ Len(t) \in Nat
    BY FileSizes DEF FilesInv, Files!TypeOK, Files!Text
  <2>2. Holds(allowed, f) /\ Smooth(t) /\ Begins(t) /\ t # <<>>
    BY <1>5 DEF FilesInv, FilesGiven
  <2> HIDE DEF t, top
  <2>3. Len(t) # 0  BY <2>1, <2>2
  <2>4. ChunkIs  BY FileSizes
  <2>5. f \in Files!Range(allowed)
    <3>1. DOMAIN allowed = 1..Len(allowed)  BY <1>1
    <3> QED  BY <2>2, <3>1 DEF Holds, Files!Range
  <2>6. Files!Range(t) = 1..Files!Max(Files!Range(t))  BY <2>1, <2>2, <2>3, <2>4, NoGaps
  <2>7. Len(t) <= ChunkSize => t = Files!Positions(1, Len(t))
    <3> SUFFICES ASSUME Len(t) <= ChunkSize PROVE t = Files!Positions(1, Len(t))
      OBVIOUS
    <3> DEFINE p == Files!Positions(1, Len(t))
               n == Len(t)
    <3>1. \A i \in 1..n : t[i] = i
      <4>1. \A i \in 1..n : i <= ChunkSize  BY <2>1, <2>4 DEF ChunkIs
      <4> QED  BY <2>2, <4>1 DEF Begins
    <3>2. p \in Seq(1..n) /\ Len(p) = n /\ \A i \in 1..n : p[i] = i  BY <2>1, FromOne
    <3> HIDE DEF p, n
    <3>3. p \in [1..n -> Nat] /\ t \in [1..n -> Nat]
      <4>1. DOMAIN p = 1..n /\ DOMAIN t = 1..n  BY <2>1, <3>2 DEF n
      <4>2. p = [i \in 1..n |-> p[i]] /\ t = [i \in 1..n |-> t[i]]
        BY <2>1, <3>2, <4>1 DEF n
      <4> QED  BY <3>1, <3>2, <4>2
    <3>4. t = p  BY <3>1, <3>2, <3>3
    <3> QED  BY <3>4 DEF p, n
  <2> QED  BY <2>2, <2>5, <2>6, <2>7 DEF Smooth, t
<1>6. ASSUME status = "raised"
      PROVE  \/ changes > 0
             \/ \E f \in Files!Range(allowed) : disk[f].kind = "garbled"
             \/ \E f \in Files!Range(paths) : disk[f].kind = "locked"
  <2>1. paths \in Seq(File)  BY FileSizes DEF FilesInv, Files!TypeOK
  <2>2. DOMAIN allowed = 1..Len(allowed) /\ DOMAIN paths = 1..Len(paths)  BY <1>1, <2>1
  <2>3. \/ changes > 0 \/ \E i \in 1..Len(allowed) : disk[allowed[i]].kind = "garbled"
        \/ \E i \in 1..Len(paths) : disk[paths[i]].kind = "locked"
    BY <1>6 DEF FilesInv, FilesGiven
  <2> QED  BY <2>2, <2>3 DEF Files!Range
<1>7. \A f \in File :
        /\ handed[f] <= 3 * Len(given[f])
        /\ changes = 0 /\ disk[f].kind # "marked" => handed[f] = Len(given[f])
  BY DEF FilesInv, FilesGiven
<1> QED  BY <1>2, <1>3, <1>4, <1>5, <1>6, <1>7 DEF Files!BudgetKept

-----------------------------------------------------------------------------
(* The event bus: lists of handlers *)

\* How often something is in a list.
Count(list, x) == Cardinality({i \in DOMAIN list : list[i] = x})

\* That is a number.
LEMMA CountIs ==
  ASSUME NEW U, NEW list \in Seq(U), NEW x
  PROVE  /\ IsFiniteSet({i \in DOMAIN list : list[i] = x})
         /\ Count(list, x) \in Nat
         /\ ~Holds(list, x) => Count(list, x) = 0
<1> DEFINE S == {i \in DOMAIN list : list[i] = x}
<1>1. Len(list) \in Nat /\ DOMAIN list = 1..Len(list)  OBVIOUS
<1>2. IsFiniteSet(1..Len(list))  BY <1>1, FS_Interval
<1>3. S \subseteq 1..Len(list)  BY <1>1
<1>4. IsFiniteSet(S)  BY <1>2, <1>3, FS_Subset
<1>5. Cardinality(S) \in Nat  BY <1>4, FS_CardinalityType
<1>6. ~Holds(list, x) => S = {}  BY DEF Holds
<1>7. ~Holds(list, x) => Cardinality(S) = 0  BY <1>6, FS_EmptySet
<1> QED  BY <1>4, <1>5, <1>7 DEF Count

\* Of two lists, one after the other.
LEMMA CountJoin ==
  ASSUME NEW U, NEW a \in Seq(U), NEW b \in Seq(U), NEW x
  PROVE  Count(a \o b, x) = Count(a, x) + Count(b, x)
<1> DEFINE c == a \o b
           n == Len(a)
           m == Len(b)
           A == {i \in DOMAIN a : a[i] = x}
           B == {i \in DOMAIN b : b[i] = x}
           C == {i \in DOMAIN c : c[i] = x}
           D == {n + i : i \in B}
<1>1. n \in Nat /\ m \in Nat /\ DOMAIN a = 1..n /\ DOMAIN b = 1..m  OBVIOUS
<1>2. /\ c \in Seq(U) /\ Len(c) = n + m
      /\ \A i \in 1..n : c[i] = a[i]
      /\ \A i \in 1..m : c[n + i] = b[i]
  BY JoinKeeps
<1>3. IsFiniteSet(A) /\ IsFiniteSet(B)  BY CountIs
<1> HIDE DEF c, n, m
<1>4. DOMAIN c = 1..(n + m)  BY <1>2
<1>5. B \subseteq 1..m  BY <1>1
<1>6. IsFiniteSet(D) /\ Cardinality(D) = Cardinality(B)
  <2> DEFINE f == [i \in B |-> n + i]
  <2>1. f \in [B -> D]  OBVIOUS
  <2>2. \A y \in D : \E i \in B : f[i] = y  OBVIOUS
  <2>3. \A i, j \in B : f[i] = f[j] => i = j
    <3>1. \A i, j \in 1..m : n + i = n + j => i = j  BY <1>1
    <3> QED  BY <1>5, <3>1
  <2> HIDE DEF f, B, D
  <2>4. f \in Bijection(B, D)
    BY <2>1, <2>2, <2>3, Zenon DEF Bijection, Injection, Surjection, IsInjective
  <2>5. ExistsBijection(B, D)  BY <2>4 DEF ExistsBijection
  <2> QED  BY <1>3, <2>5, FS_Bijection
<1>7. A \cap D = {}
  <2>1. \A i \in 1..n, j \in 1..m : i # n + j  BY <1>1
  <2> QED  BY <1>1, <1>5, <2>1
<1>8. C = A \cup D
  <2>1. \A i \in 1..(n + m) : i \in 1..n \/ (i - n \in 1..m /\ i = n + (i - n))  BY <1>1
  <2>2. \A i \in 1..n : i \in 1..(n + m)  BY <1>1
  <2>3. \A i \in 1..m : n + i \in 1..(n + m)  BY <1>1
  <2>4. ASSUME NEW i \in C PROVE i \in A \cup D
    <3>1. CASE i \in 1..n  BY <1>1, <1>2, <3>1
    <3>2. CASE i - n \in 1..m /\ i = n + (i - n)
      <4>1. c[n + (i - n)] = b[i - n]  BY <1>2, <3>2
      <4>2. i - n \in B  BY <1>1, <3>2, <4>1
      <4> QED  BY <3>2, <4>2
    <3> QED  BY <1>4, <2>1, <3>1, <3>2
  <2>5. A \subseteq C  BY <1>1, <1>2, <1>4, <2>2
  <2>6. D \subseteq C  BY <1>1, <1>2, <1>4, <2>3
  <2> QED  BY <2>4, <2>5, <2>6
<1> HIDE DEF A, D, C
<1>9. Cardinality(A \cup D) = Cardinality(A) + Cardinality(D) - Cardinality(A \cap D)
  BY <1>3, <1>6, FS_Union
<1>10. Cardinality(A \cap D) = 0  BY <1>7, FS_EmptySet
<1>11. Cardinality(A) \in Nat /\ Cardinality(D) \in Nat  BY <1>3, <1>6, FS_CardinalityType
<1>12. Cardinality(C) = Cardinality(A) + Cardinality(B)
  BY <1>6, <1>8, <1>9, <1>10, <1>11
<1>13. Count(c, x) = Cardinality(C) /\ Count(a, x) = Cardinality(A)
       /\ Count(b, x) = Cardinality(B)
  BY DEF Count, A, C
<1> QED  BY <1>12, <1>13 DEF c

\* Of a list of one.
LEMMA CountOne ==
  ASSUME NEW y, NEW x
  PROVE  Count(<<y>>, x) = IF y = x THEN 1 ELSE 0
<1>1. CASE y = x
  <2>1. {i \in DOMAIN <<y>> : <<y>>[i] = x} = {1}  BY <1>1
  <2>2. Cardinality({1}) = 1  BY FS_Singleton
  <2> QED  BY <1>1, <2>1, <2>2 DEF Count
<1>2. CASE y # x
  <2>1. {i \in DOMAIN <<y>> : <<y>>[i] = x} = {}  BY <1>2
  <2> QED  BY <1>2, <2>1, FS_EmptySet DEF Count
<1> QED  BY <1>1, <1>2

\* One more.
LEMMA AppendCounts ==
  ASSUME NEW U, NEW list \in Seq(U), NEW y \in U
  PROVE  /\ Append(list, y) \in Seq(U)
         /\ \A x : Count(Append(list, y), x) = Count(list, x) + Count(<<y>>, x)
         /\ \A x : Holds(Append(list, y), x) <=> Holds(list, x) \/ x = y
         /\ Append(list, y) = list \o <<y>>
<1>1. Append(list, y) = list \o <<y>> /\ <<y>> \in Seq(U)  OBVIOUS
<1>2. \A x : Holds(<<y>>, x) <=> x = y  BY DEF Holds
<1>3. \A x : Count(list \o <<y>>, x) = Count(list, x) + Count(<<y>>, x)  BY <1>1, CountJoin
<1>4. \A x : Holds(list \o <<y>>, x) <=> Holds(list, x) \/ Holds(<<y>>, x)
  BY <1>1, JoinKeeps
<1>6. list \o <<y>> \in Seq(U)  BY <1>1
<1> QED  BY <1>1, <1>2, <1>3, <1>4, <1>6

\* One less.
LEMMA TailCounts ==
  ASSUME NEW U, NEW list \in Seq(U), list # <<>>
  PROVE  /\ Tail(list) \in Seq(U) /\ Head(list) \in U
         /\ \A x : Count(list, x) = Count(<<Head(list)>>, x) + Count(Tail(list), x)
         /\ \A x : Holds(list, x) <=> x = Head(list) \/ Holds(Tail(list), x)
<1> DEFINE h == Head(list)
           t == Tail(list)
<1>1. h \in U /\ t \in Seq(U) /\ list = <<h>> \o t /\ <<h>> \in Seq(U)  OBVIOUS
<1> HIDE DEF h, t
<1>2. \A x : Count(<<h>> \o t, x) = Count(<<h>>, x) + Count(t, x)  BY <1>1, CountJoin
<1>3. \A x : Holds(<<h>> \o t, x) <=> Holds(<<h>>, x) \/ Holds(t, x)  BY <1>1, JoinKeeps
<1>4. \A x : Holds(<<h>>, x) <=> x = h  BY DEF Holds
<1> QED  BY <1>1, <1>2, <1>3, <1>4 DEF h, t

\* What is kept of a list is kept as often.
LEMMA OnlyCounts ==
  ASSUME NEW U, NEW list \in Seq(U), NEW S, NEW x \in S
  PROVE  Count(Only(list, S), x) = Count(list, x)
<1> DEFINE short == Only(list, S)
           A == {i \in DOMAIN list : list[i] = x}
           B == {k \in DOMAIN short : short[k] = x}
           n == Len(list)
           m == Len(short)
<1>1. PICK e : Taken(e, short, list, n, S)  BY OnlyTakes
<1>2. short \in Seq(U)  BY OnlyTakes
<1>3. n \in Nat /\ m \in Nat /\ DOMAIN list = 1..n /\ DOMAIN short = 1..m  BY <1>2
<1> HIDE DEF short, n, m
<1>5. /\ \A k \in 1..m : e[k] \in 1..n /\ short[k] = list[e[k]]
      /\ \A k, l \in 1..m : k < l => e[k] < e[l]
      /\ \A i \in 1..n : list[i] = x => \E k \in 1..m : e[k] = i
  BY <1>1 DEF Taken, m
<1> DEFINE f == [k \in B |-> e[k]]
<1>6. f \in [B -> A]  BY <1>3, <1>5
<1>7. \A i \in A : \E k \in B : f[k] = i  BY <1>3, <1>5
<1>8. \A k, l \in B : f[k] = f[l] => k = l
  <2> SUFFICES ASSUME NEW k \in B, NEW l \in B, e[k] = e[l] PROVE k = l
    OBVIOUS
  <2>1. k \in 1..m /\ l \in 1..m /\ e[k] \in Nat  BY <1>3, <1>5
  <2>2. ~(k < l) /\ ~(l < k)  BY <1>5, <2>1
  <2> QED  BY <2>1, <2>2
<1> HIDE DEF f, A, B
<1>9. f \in Bijection(B, A)
  BY <1>6, <1>7, <1>8, Zenon DEF Bijection, Injection, Surjection, IsInjective
<1>10. IsFiniteSet(B)  BY <1>2, CountIs DEF B
<1>11. ExistsBijection(B, A)  BY <1>9 DEF ExistsBijection
<1>12. Cardinality(A) = Cardinality(B)  BY <1>10, <1>11, FS_Bijection
<1> QED  BY <1>12 DEF Count, A, B, short

\* What is joined is of the parts.
LEMMA FlatHolds ==
  ASSUME NEW U, NEW parts \in Seq(Seq(U))
  PROVE  /\ Files!Flat(parts) \in Seq(U)
         /\ \A w : Holds(Files!Flat(parts), w) =>
              \E i \in 1..Len(parts) : Holds(parts[i], w)
<1> DEFINE n == Len(parts)
<1>1. n \in Nat /\ \A i \in 1..n : parts[i] \in Seq(U)  OBVIOUS
<1>2. PICK f : Joined(f, parts, U) /\ Files!Flat(parts) = f[n]  BY Flattening
<1>3. /\ f \in [0..n -> Seq(U)] /\ f[0] = <<>>
      /\ \A i \in 1..n : f[i] = f[i - 1] \o parts[i]
  BY <1>2 DEF Joined
<1> HIDE DEF n
<1> DEFINE P == {i \in 0..n : \A w : Holds(f[i], w) => \E k \in 1..i : Holds(parts[k], w)}
<1>4. 0 \in P
  <2>1. \A w : ~Holds(f[0], w)  BY <1>3 DEF Holds
  <2> QED  BY <1>1, <2>1
<1>5. ASSUME NEW i \in 1..n, i - 1 \in P PROVE i \in P
  <2>1. i - 1 \in 0..n /\ i \in 0..n  BY <1>1
  <2>2. f[i - 1] \in Seq(U) /\ parts[i] \in Seq(U)  BY <1>1, <1>3, <2>1
  <2>3. \A w : Holds(f[i], w) <=> Holds(f[i - 1], w) \/ Holds(parts[i], w)
    <3>1. f[i] = f[i - 1] \o parts[i]  BY <1>3
    <3>2. \A w : Holds(f[i - 1] \o parts[i], w)
                  <=> Holds(f[i - 1], w) \/ Holds(parts[i], w)
      BY <2>2, JoinKeeps
    <3> QED  BY <3>1, <3>2
  <2>4. i \in 1..i /\ \A k \in 1..(i - 1) : k \in 1..i  BY <1>1
  <2>5. \A w : Holds(f[i - 1], w) => \E k \in 1..(i - 1) : Holds(parts[k], w)  BY <1>5
  <2>6. \A w : Holds(f[i], w) => \E k \in 1..i : Holds(parts[k], w)
    BY <2>3, <2>4, <2>5
  <2> QED  BY <2>1, <2>6
<1>6. \A i \in 1..n : i - 1 \in P => i \in P  BY <1>5
<1> HIDE DEF P
<1>7. \A i \in 0..n : i \in P  BY <1>1, <1>4, <1>6, Induct
<1>8. n \in 0..n  BY <1>1
<1>9. \A w : Holds(f[n], w) => \E k \in 1..n : Holds(parts[k], w)  BY <1>7, <1>8 DEF P
<1>10. f[n] \in Seq(U)  BY <1>3, <1>8
<1> QED  BY <1>2, <1>9, <1>10 DEF n

\* One part has something more often, and the others have it as often as they had.
MoreInOne(parts, other, x, k, d) ==
  /\ Len(other) = Len(parts)
  /\ \A i \in 1..Len(parts) : i # k => Count(other[i], x) = Count(parts[i], x)
  /\ k \in 1..Len(parts) => Count(other[k], x) = Count(parts[k], x) + d

\* So what is joined has it more often.
LEMMA FlatCounts ==
  ASSUME NEW U, NEW parts \in Seq(Seq(U)), NEW other \in Seq(Seq(U)), NEW x,
         NEW k \in Nat, NEW d \in Nat, MoreInOne(parts, other, x, k, d)
  PROVE  /\ k \in 1..Len(parts) =>
              Count(Files!Flat(other), x) = Count(Files!Flat(parts), x) + d
         /\ k \notin 1..Len(parts) =>
              Count(Files!Flat(other), x) = Count(Files!Flat(parts), x)
<1> DEFINE n == Len(parts)
<1>1. /\ n \in Nat /\ Len(other) = n
      /\ \A i \in 1..n : parts[i] \in Seq(U) /\ other[i] \in Seq(U)
  BY DEF MoreInOne
<1>2. PICK f : Joined(f, parts, U) /\ Files!Flat(parts) = f[n]  BY Flattening
<1>3. PICK g : Joined(g, other, U) /\ Files!Flat(other) = g[n]
  BY Flattening DEF MoreInOne
<1>4. /\ f \in [0..n -> Seq(U)] /\ f[0] = <<>>
      /\ \A i \in 1..n : f[i] = f[i - 1] \o parts[i]
  BY <1>2 DEF Joined
<1>5. /\ g \in [0..n -> Seq(U)] /\ g[0] = <<>>
      /\ \A i \in 1..n : g[i] = g[i - 1] \o other[i]
  BY <1>3 DEF Joined, MoreInOne
<1>6. \A i \in 1..n :
        Count(other[i], x) = Count(parts[i], x) + IF i = k THEN d ELSE 0
  <2> TAKE i \in 1..n
  <2>1. parts[i] \in Seq(U)  BY <1>1
  <2>2. Count(parts[i], x) \in Nat  BY <2>1, CountIs
  <2>3. i # k => Count(other[i], x) = Count(parts[i], x)  BY DEF MoreInOne
  <2>4. i = k => Count(other[i], x) = Count(parts[i], x) + d  BY DEF MoreInOne
  <2> HIDE DEF n
  <2> QED  BY <2>2, <2>3, <2>4
<1> HIDE DEF n
<1> DEFINE P == {i \in 0..n :
                   Count(g[i], x) = Count(f[i], x) + IF k \in 1..i THEN d ELSE 0}
<1>7. 0 \in P
  <2>1. Count(f[0], x) = 0 /\ Count(g[0], x) = 0
    <3>1. <<>> \in Seq(U) /\ ~Holds(<<>>, x)  BY DEF Holds
    <3> QED  BY <1>4, <1>5, <3>1, CountIs
  <2> QED  BY <1>1, <2>1
<1>8. ASSUME NEW i \in 1..n, i - 1 \in P PROVE i \in P
  <2>1. i - 1 \in 0..n /\ i \in 0..n  BY <1>1
  <2>2. f[i - 1] \in Seq(U) /\ parts[i] \in Seq(U) /\ g[i - 1] \in Seq(U) /\ other[i] \in Seq(U)
    BY <1>1, <1>4, <1>5, <2>1
  <2>3. Count(f[i], x) = Count(f[i - 1], x) + Count(parts[i], x)
    <3>1. f[i] = f[i - 1] \o parts[i]  BY <1>4
    <3>2. Count(f[i - 1] \o parts[i], x) = Count(f[i - 1], x) + Count(parts[i], x)
      BY <2>2, CountJoin
    <3> QED  BY <3>1, <3>2
  <2>4. Count(g[i], x) = Count(g[i - 1], x) + Count(other[i], x)
    <3>1. g[i] = g[i - 1] \o other[i]  BY <1>5
    <3>2. Count(g[i - 1] \o other[i], x) = Count(g[i - 1], x) + Count(other[i], x)
      BY <2>2, CountJoin
    <3> QED  BY <3>1, <3>2
  <2>5. Count(other[i], x) = Count(parts[i], x) + IF i = k THEN d ELSE 0  BY <1>6
  <2>6. Count(g[i - 1], x) = Count(f[i - 1], x) + IF k \in 1..(i - 1) THEN d ELSE 0
    BY <1>8
  <2>7. Count(f[i - 1], x) \in Nat /\ Count(parts[i], x) \in Nat  BY <2>2, CountIs
  <2>8. k \in 1..i <=> k \in 1..(i - 1) \/ k = i  BY <1>1
  <2>9. k \in 1..(i - 1) => k # i  BY <1>1
  <2>10. Count(g[i], x) = Count(f[i], x) + IF k \in 1..i THEN d ELSE 0
    BY <2>3, <2>4, <2>5, <2>6, <2>7, <2>8, <2>9
  <2> QED  BY <2>1, <2>10
<1>9. \A i \in 1..n : i - 1 \in P => i \in P  BY <1>8
<1> HIDE DEF P
<1>10. \A i \in 0..n : i \in P  BY <1>1, <1>7, <1>9, Induct
<1>11. n \in 0..n  BY <1>1
<1>12. Count(g[n], x) = Count(f[n], x) + IF k \in 1..n THEN d ELSE 0
  BY <1>10, <1>11 DEF P
<1>13. Count(f[n], x) \in Nat
  <2>1. f[n] \in Seq(U)  BY <1>4, <1>11
  <2> QED  BY <2>1, CountIs
<1>14. /\ k \in 1..n => Count(g[n], x) = Count(f[n], x) + d
       /\ k \notin 1..n => Count(g[n], x) = Count(f[n], x)
  BY <1>12, <1>13
<1> QED  BY <1>2, <1>3, <1>14 DEF n

\* One part more.
LEMMA FlatAppend ==
  ASSUME NEW U, NEW parts \in Seq(Seq(U)), NEW p \in Seq(U)
  PROVE  Files!Flat(Append(parts, p)) = Files!Flat(parts) \o p
<1> DEFINE n == Len(parts)
           more == Append(parts, p)
<1>1. /\ n \in Nat /\ more \in Seq(Seq(U)) /\ Len(more) = n + 1 /\ more[n + 1] = p
      /\ \A i \in 1..n : more[i] = parts[i]
  OBVIOUS
<1> HIDE DEF more
<1>2. PICK f : Joined(f, parts, U) /\ Files!Flat(parts) = f[n]  BY Flattening
<1>3. PICK g : Joined(g, more, U) /\ Files!Flat(more) = g[Len(more)]
  BY <1>1, Flattening
<1>4. f[0] = <<>> /\ \A i \in 1..n : f[i] = f[i - 1] \o parts[i]
  BY <1>2 DEF Joined
<1>5. g[0] = <<>> /\ \A i \in 1..(n + 1) : g[i] = g[i - 1] \o more[i]
  BY <1>1, <1>3 DEF Joined
<1> HIDE DEF n
<1> DEFINE P == {i \in 0..n : g[i] = f[i]}
<1>6. 0 \in P  BY <1>1, <1>4, <1>5
<1>7. ASSUME NEW i \in 1..n, i - 1 \in P PROVE i \in P
  <2>1. i \in 0..n /\ i \in 1..(n + 1)  BY <1>1
  <2>2. g[i - 1] = f[i - 1]  BY <1>7
  <2>3. g[i] = f[i]  BY <1>1, <1>4, <1>5, <2>1, <2>2
  <2> QED  BY <2>1, <2>3
<1>8. \A i \in 1..n : i - 1 \in P => i \in P  BY <1>7
<1> HIDE DEF P
<1>9. \A i \in 0..n : i \in P  BY <1>1, <1>6, <1>8, Induct
<1>10. g[n] = f[n]
  <2>1. n \in 0..n  BY <1>1
  <2> QED  BY <1>9, <2>1 DEF P
<1>11. g[n + 1] = g[n] \o p
  <2>1. n + 1 \in 1..(n + 1) /\ (n + 1) - 1 = n  BY <1>1
  <2>2. g[n + 1] = g[(n + 1) - 1] \o more[n + 1]  BY <1>5, <2>1, Zenon
  <2> QED  BY <1>1, <2>1, <2>2
<1> QED  BY <1>1, <1>2, <1>3, <1>10, <1>11 DEF more

\* The lists of handlers that callers from U may be in.
HandlerLists(U) == Seq([pattern : Bus!Pattern, who : Seq(U)])

\* The handlers of each pattern, or nobody where it does not cover the type.
PartsOf(list, type) ==
  [i \in DOMAIN list |-> IF type \in Bus!Covers(list[i].pattern) THEN list[i].who ELSE <<>>]

\* Whom an event of this type is given to, in order.
Callees(list, type) == Bus!Flat(PartsOf(list, type))

\* No pattern is in a list twice.
Alone(list) == \A i, j \in 1..Len(list) : list[i].pattern = list[j].pattern => i = j

\* A caller is in the list for a pattern.
Registered(list, w, p) ==
  \E i \in 1..Len(list) : Holds(list[i].who, w) /\ list[i].pattern = p

\* Whom an event is given to is registered for a pattern that covers it.
LEMMA CallsAre ==
  ASSUME NEW U, NEW list \in HandlerLists(U), NEW type
  PROVE  /\ PartsOf(list, type) \in Seq(Seq(U)) /\ Len(PartsOf(list, type)) = Len(list)
         /\ \A i \in 1..Len(list) :
              /\ list[i].pattern \in Bus!Pattern /\ list[i].who \in Seq(U)
              /\ PartsOf(list, type)[i]
                   = IF type \in Bus!Covers(list[i].pattern) THEN list[i].who ELSE <<>>
         /\ Callees(list, type) = Files!Flat(PartsOf(list, type))
         /\ Callees(list, type) \in Seq(U)
         /\ \A w : Holds(Callees(list, type), w) =>
              \E p \in Bus!Pattern : Registered(list, w, p) /\ type \in Bus!Covers(p)
<1> DEFINE parts == PartsOf(list, type)
           n == Len(list)
<1> DEFINE E == [pattern : Bus!Pattern, who : Seq(U)]
<1>1. n \in Nat /\ DOMAIN list = 1..n /\ \A i \in 1..n : list[i] \in E
  <2> HIDE DEF E
  <2>1. list \in Seq(E)  BY DEF HandlerLists, E
  <2> QED  BY <2>1
<1>2. \A i \in 1..n : list[i].pattern \in Bus!Pattern /\ list[i].who \in Seq(U)
  BY <1>1
<1> HIDE DEF n
<1>3. /\ parts \in Seq(Seq(U)) /\ Len(parts) = n
      /\ \A i \in 1..n : parts[i]
           = IF type \in Bus!Covers(list[i].pattern) THEN list[i].who ELSE <<>>
  BY <1>1, <1>2 DEF PartsOf
<1> HIDE DEF parts
<1>4. Bus!Flat(parts) = Files!Flat(parts)
  BY DEF Bus!Flat, Files!Flat
<1>5. Callees(list, type) = Files!Flat(parts)  BY <1>4 DEF Callees, parts
<1>6. /\ Files!Flat(parts) \in Seq(U)
      /\ \A w : Holds(Files!Flat(parts), w) =>
           \E i \in 1..Len(parts) : Holds(parts[i], w)
  BY <1>3, FlatHolds
<1>7. ASSUME NEW w, Holds(Callees(list, type), w)
      PROVE  \E p \in Bus!Pattern : Registered(list, w, p) /\ type \in Bus!Covers(p)
  <2>1. PICK i \in 1..n : Holds(parts[i], w)  BY <1>3, <1>5, <1>6, <1>7
  <2>2. ~Holds(<<>>, w)  BY DEF Holds
  <2>3. type \in Bus!Covers(list[i].pattern) /\ Holds(list[i].who, w)
    BY <1>3, <2>1, <2>2
  <2> QED  BY <1>2, <2>1, <2>3 DEF Registered, n
<1> QED  BY <1>2, <1>3, <1>5, <1>6, <1>7 DEF parts, n

\* To register adds one call, for the types that the pattern covers.
LEMMA OnAdds ==
  ASSUME NEW U, NEW list \in HandlerLists(U), Alone(list),
         NEW p \in Bus!Pattern, NEW s \in U
  PROVE  /\ Bus!On(list, p, s) \in HandlerLists(U) /\ Alone(Bus!On(list, p, s))
         /\ \A type, x : Count(Callees(Bus!On(list, p, s), type), x)
              = Count(Callees(list, type), x)
                  + IF x = s /\ type \in Bus!Covers(p) THEN 1 ELSE 0
         /\ \A w, q : Registered(Bus!On(list, p, s), w, q) =>
              Registered(list, w, q) \/ (w = s /\ q = p)
<1> DEFINE n == Len(list)
           more == Bus!On(list, p, s)
<1> DEFINE E == [pattern : Bus!Pattern, who : Seq(U)]
<1>4. n \in Nat /\ DOMAIN list = 1..n /\ \A i \in 1..n : list[i] \in E
  <2> HIDE DEF E
  <2>1. list \in Seq(E)  BY DEF HandlerLists, E
  <2> QED  BY <2>1
<1>1. /\ n \in Nat /\ DOMAIN list = 1..n
      /\ \A i \in 1..n : /\ list[i] \in [pattern : Bus!Pattern, who : Seq(U)]
                         /\ list[i].pattern \in Bus!Pattern /\ list[i].who \in Seq(U)
  BY <1>4
<1>2. CASE \E i \in 1..n : list[i].pattern = p
  <2>1. PICK k \in 1..n : list[k].pattern = p  BY <1>2
  <2>2. more = [i \in 1..n |-> IF list[i].pattern = p
                               THEN Bus!Entry(p, Append(list[i].who, s)) ELSE list[i]]
    BY <1>1, <1>2 DEF Bus!On
  <2>3. \A i \in 1..n : list[i].pattern = p <=> i = k  BY <2>1 DEF Alone
  <2> HIDE DEF n, more
  <2>4. Append(list[k].who, s) \in Seq(U)  BY <1>1
  <2>5. /\ DOMAIN more = 1..n
        /\ \A i \in 1..n : i # k => more[i] = list[i]
        /\ more[k] = [pattern |-> p, who |-> Append(list[k].who, s)]
    BY <2>1, <2>2, <2>3 DEF Bus!Entry
  <2>6. more[k].pattern = p /\ more[k].who = Append(list[k].who, s)  BY <2>5
  <2>7. \A i \in 1..n : more[i] \in [pattern : Bus!Pattern, who : Seq(U)]
    <3>1. [pattern |-> p, who |-> Append(list[k].who, s)] \in E  BY <2>4
    <3> HIDE DEF E
    <3>2. \A i \in 1..n : more[i] \in E  BY <1>4, <2>5, <3>1
    <3> QED  BY <3>2 DEF E
  <2>8. more \in HandlerLists(U) /\ Len(more) = n
    <3>1. more = [i \in 1..n |-> more[i]]  BY <2>2
    <3> HIDE DEF E
    <3>2. more \in [1..n -> E]  BY <2>7, <3>1 DEF E
    <3>3. more \in Seq(E) /\ Len(more) = n  BY <1>4, <3>2
    <3> QED  BY <3>3 DEF HandlerLists, E
  <2>9. \A i \in 1..n : more[i].pattern = list[i].pattern  BY <2>1, <2>5, <2>6
  <2>10. Alone(more)  BY <2>8, <2>9 DEF Alone, n
  <2>11. ASSUME NEW type, NEW x
         PROVE  Count(Callees(more, type), x) = Count(Callees(list, type), x)
                  + IF x = s /\ type \in Bus!Covers(p) THEN 1 ELSE 0
    <3> DEFINE a == PartsOf(list, type)
               b == PartsOf(more, type)
               d == IF x = s /\ type \in Bus!Covers(p) THEN 1 ELSE 0
    <3>1. /\ a \in Seq(Seq(U)) /\ Len(a) = n
          /\ \A i \in 1..n : a[i]
               = IF type \in Bus!Covers(list[i].pattern) THEN list[i].who ELSE <<>>
          /\ Callees(list, type) = Files!Flat(a)
      BY CallsAre DEF n
    <3>2. /\ b \in Seq(Seq(U)) /\ Len(b) = n
          /\ \A i \in 1..n : b[i]
               = IF type \in Bus!Covers(more[i].pattern) THEN more[i].who ELSE <<>>
          /\ Callees(more, type) = Files!Flat(b)
      BY <2>8, CallsAre
    <3> HIDE DEF a, b, d
    <3>3. \A y \in Seq(U) : Count(y, x) \in Nat  BY CountIs
    <3>4. Count(Append(list[k].who, s), x) = Count(list[k].who, x) + Count(<<s>>, x)
      <4>1. list[k].who \in Seq(U)  BY <1>1
      <4> DEFINE y == list[k].who
      <4>2. y \in Seq(U)  BY <4>1
      <4> HIDE DEF y
      <4>3. Count(Append(y, s), x) = Count(y, x) + Count(<<s>>, x)
        BY <4>2, AppendCounts
      <4> QED  BY <4>3 DEF y
    <3>5. ASSUME NEW i \in 1..n
          PROVE  /\ i # k => Count(b[i], x) = Count(a[i], x)
                 /\ i = k => Count(b[i], x) = Count(a[i], x) + d
      <4>1. a[i] \in Seq(U) /\ Count(a[i], x) \in Nat  BY <3>1, <3>3
      <4>2. CASE i # k
        <5>1. b[i] = a[i]  BY <2>5, <3>1, <3>2, <4>2
        <5> QED  BY <4>1, <4>2, <5>1
      <4>3. CASE i = k
        <5>1. CASE type \in Bus!Covers(p)
          <6>1. b[i] = Append(list[k].who, s) /\ a[i] = list[k].who
            BY <2>1, <2>6, <3>1, <3>2, <4>3, <5>1
          <6>2. Count(<<s>>, x) = IF s = x THEN 1 ELSE 0  BY CountOne
          <6> QED  BY <3>4, <4>3, <5>1, <6>1, <6>2 DEF d
        <5>2. CASE type \notin Bus!Covers(p)
          <6>1. b[i] = <<>> /\ a[i] = <<>>  BY <2>1, <2>6, <3>1, <3>2, <4>3, <5>2
          <6> QED  BY <4>1, <4>3, <5>2, <6>1 DEF d
        <5> QED  BY <5>1, <5>2
      <4> QED  BY <4>2, <4>3
    <3>6. d \in Nat /\ k \in Nat  BY DEF d
    <3>7. Count(Files!Flat(b), x) = Count(Files!Flat(a), x) + d
      <4>1. \A i \in 1..Len(a) : i # k => Count(b[i], x) = Count(a[i], x)  BY <3>1, <3>5
      <4>2. Len(b) = Len(a) /\ k \in 1..Len(a)  BY <3>1, <3>2
      <4>3. a \in Seq(Seq(U)) /\ b \in Seq(Seq(U))  BY <3>1, <3>2
      <4>4. Count(b[k], x) = Count(a[k], x) + d  BY <3>5
      <4>5. k \in 1..Len(a) => Count(b[k], x) = Count(a[k], x) + d  BY <4>4
      <4>6. MoreInOne(a, b, x, k, d)  BY <4>1, <4>2, <4>5 DEF MoreInOne
      <4> QED  BY <3>6, <4>2, <4>3, <4>6, FlatCounts
    <3> QED  BY <3>1, <3>2, <3>7 DEF d
  <2>12. ASSUME NEW w, NEW q, Registered(more, w, q)
         PROVE  Registered(list, w, q) \/ (w = s /\ q = p)
    <3>1. PICK i \in 1..n : Holds(more[i].who, w) /\ more[i].pattern = q
      BY <2>8, <2>12 DEF Registered
    <3>2. CASE i # k  BY <2>5, <3>1, <3>2 DEF Registered, n
    <3>3. CASE i = k
      <4>1. list[k].who \in Seq(U)  BY <1>1
      <4> DEFINE y == list[k].who
      <4>3. y \in Seq(U)  BY <4>1
      <4> HIDE DEF y
      <4>4. Holds(Append(y, s), w) <=> Holds(y, w) \/ w = s  BY <4>3, AppendCounts
      <4>2. Holds(list[k].who, w) \/ w = s  BY <2>6, <3>1, <3>3, <4>4 DEF y
      <4> QED  BY <2>1, <2>6, <3>1, <3>3, <4>2 DEF Registered, n
    <3> QED  BY <3>2, <3>3
  <2> QED  BY <2>8, <2>10, <2>11, <2>12 DEF more
<1>3. CASE ~\E i \in 1..n : list[i].pattern = p
  <2> DEFINE e == [pattern |-> p, who |-> <<s>>]
  <2>1. more = Append(list, e)  BY <1>1, <1>3 DEF Bus!On, Bus!Entry
  <2>2. e \in [pattern : Bus!Pattern, who : Seq(U)] /\ e.pattern = p /\ e.who = <<s>>
    OBVIOUS
  <2> HIDE DEF e, more, n
  <2>3. /\ more \in HandlerLists(U) /\ Len(more) = n + 1
        /\ \A i \in 1..n : more[i] = list[i]
        /\ more[n + 1] = e
    BY <2>1, <2>2 DEF HandlerLists, n
  <2>4. \A i \in 1..(n + 1) : i \in 1..n \/ i = n + 1  BY <1>1
  <2>5. Alone(more)
    <3> SUFFICES ASSUME NEW i \in 1..(n + 1), NEW j \in 1..(n + 1),
                        more[i].pattern = more[j].pattern
                 PROVE  i = j
      BY <2>3 DEF Alone
    <3>1. CASE i \in 1..n /\ j \in 1..n  BY <2>3, <3>1 DEF Alone, n
    <3>2. CASE i = n + 1 /\ j = n + 1  BY <3>2
    <3>3. CASE i \in 1..n /\ j = n + 1  BY <1>3, <2>2, <2>3, <3>3
    <3>4. CASE j \in 1..n /\ i = n + 1  BY <1>3, <2>2, <2>3, <3>4
    <3> QED  BY <2>4, <3>1, <3>2, <3>3, <3>4
  <2>6. ASSUME NEW type, NEW x
         PROVE  Count(Callees(more, type), x) = Count(Callees(list, type), x)
                  + IF x = s /\ type \in Bus!Covers(p) THEN 1 ELSE 0
    <3> DEFINE a == PartsOf(list, type)
               b == PartsOf(more, type)
               new == IF type \in Bus!Covers(p) THEN <<s>> ELSE <<>>
    <3>1. /\ a \in Seq(Seq(U)) /\ Len(a) = n
          /\ \A i \in 1..n : a[i]
               = IF type \in Bus!Covers(list[i].pattern) THEN list[i].who ELSE <<>>
          /\ Callees(list, type) = Files!Flat(a)
      BY CallsAre DEF n
    <3>2. /\ b \in Seq(Seq(U)) /\ Len(b) = n + 1
          /\ \A i \in 1..(n + 1) : b[i]
               = IF type \in Bus!Covers(more[i].pattern) THEN more[i].who ELSE <<>>
          /\ Callees(more, type) = Files!Flat(b)
      BY <2>3, CallsAre
    <3>3. new \in Seq(U)  OBVIOUS
    <3> HIDE DEF a, b
    <3>4. b = Append(a, new)
      <4>1. b[n + 1] = new
        <5>1. n + 1 \in 1..(n + 1)  BY <1>1
        <5>2. b[n + 1] = IF type \in Bus!Covers(more[n + 1].pattern)
                         THEN more[n + 1].who ELSE <<>>
          BY <3>2, <5>1
        <5> QED  BY <2>2, <2>3, <5>2
      <4>2. \A i \in 1..n : b[i] = a[i]
        <5>1. \A i \in 1..n : i \in 1..(n + 1)  BY <1>1
        <5> QED  BY <2>3, <3>1, <3>2, <5>1
      <4> HIDE DEF new
      <4> DEFINE c == Append(a, new)
      <4>3. /\ c \in Seq(Seq(U)) /\ Len(c) = n + 1 /\ c[n + 1] = new
            /\ \A i \in 1..n : c[i] = a[i]
        BY <3>1, <3>3
      <4> HIDE DEF c
      <4>4. \A i \in 1..(n + 1) : b[i] = c[i]  BY <2>4, <4>1, <4>2, <4>3
      <4>5. b = c  BY <3>2, <4>3, <4>4
      <4> QED  BY <4>5 DEF c
    <3> HIDE DEF new
    <3>5. Files!Flat(b) = Files!Flat(a) \o new
      BY <3>1, <3>3, <3>4, FlatAppend
    <3>6. Files!Flat(a) \in Seq(U)  BY <3>1, FlatHolds
    <3>7. Count(Files!Flat(a) \o new, x) = Count(Files!Flat(a), x) + Count(new, x)
      BY <3>3, <3>6, CountJoin
    <3>8. Count(new, x) = IF x = s /\ type \in Bus!Covers(p) THEN 1 ELSE 0
      <4>1. <<>> \in Seq(U) /\ ~Holds(<<>>, x)  BY DEF Holds
      <4>2. Count(<<>>, x) = 0  BY <4>1, CountIs
      <4>3. Count(<<s>>, x) = IF s = x THEN 1 ELSE 0  BY CountOne
      <4> QED  BY <4>2, <4>3 DEF new
    <3> QED  BY <3>1, <3>2, <3>5, <3>7, <3>8
  <2>7. ASSUME NEW w, NEW q, Registered(more, w, q)
        PROVE  Registered(list, w, q) \/ (w = s /\ q = p)
    <3>1. PICK i \in 1..(n + 1) : Holds(more[i].who, w) /\ more[i].pattern = q
      BY <2>3, <2>7 DEF Registered
    <3>2. CASE i \in 1..n  BY <2>3, <3>1, <3>2 DEF Registered, n
    <3>3. CASE i = n + 1
      <4>1. Holds(<<s>>, w) => w = s  BY DEF Holds
      <4> QED  BY <2>2, <2>3, <3>1, <3>3, <4>1
    <3> QED  BY <2>4, <3>2, <3>3
  <2> QED  BY <2>3, <2>5, <2>6, <2>7 DEF more
<1> QED  BY <1>2, <1>3

\* How many of the patterns cover a type.
Covering(patterns, type) ==
  Cardinality({i \in DOMAIN patterns : type \in Bus!Covers(patterns[i])})

\* The list of handlers after each of the patterns.
OnStates(f, list, patterns, s) ==
  /\ f[0] = list
  /\ \A i \in 1..Len(patterns) : f[i] = Bus!On(f[i - 1], patterns[i], s)
  /\ Bus!OnAll(list, patterns, s) = f[Len(patterns)]

\* The list grows pattern by pattern.
LEMMA OnGrows ==
  ASSUME NEW U, NEW list \in HandlerLists(U), Alone(list),
         NEW patterns \in Seq(Bus!Pattern), NEW s \in U
  PROVE  \E f : OnStates(f, list, patterns, s)
<1> DEFINE n == Len(patterns)
           H == {l \in HandlerLists(U) : Alone(l)}
           Is(f) == f = [i \in 0..n |-> IF i = 0 THEN list ELSE Bus!On(f[i - 1], patterns[i], s)]
           g == [i \in 1..n |-> [l \in H |-> Bus!On(l, patterns[i], s)]]
<1>1. n \in Nat /\ \A i \in 1..n : patterns[i] \in Bus!Pattern  OBVIOUS
<1>2. g \in [1..n -> [H -> H]]  BY <1>1, OnAdds
<1>3. list \in H  OBVIOUS
<1>4. PICK f : Rounds(f, n, H, list, g)
  <2> HIDE DEF g, n, H
  <2> QED  BY <1>1, <1>2, <1>3, Recursion
<1>5. f \in [0..n -> H] /\ f[0] = list /\ \A i \in 1..n : f[i] = g[i][f[i - 1]]
  <2> HIDE DEF g, n, H
  <2> QED  BY <1>4 DEF Rounds
<1>6. \A i \in 1..n : f[i] = Bus!On(f[i - 1], patterns[i], s)
  <2> TAKE i \in 1..n
  <2>1. i - 1 \in 0..n  BY <1>1
  <2>2. f[i - 1] \in H  BY <1>5, <2>1
  <2> QED  BY <1>5, <2>2
<1>7. Is(f)
  <2>1. f = [i \in 0..n |-> f[i]]  BY <1>5
  <2>2. \A i \in 0..n : i = 0 \/ i \in 1..n  BY <1>1
  <2>3. \A i \in 0..n : f[i] = IF i = 0 THEN list ELSE Bus!On(f[i - 1], patterns[i], s)
    BY <1>5, <1>6, <2>2
  <2> QED  BY <2>1, <2>3
<1> DEFINE d == CHOOSE x : Is(x)
<1>8. Bus!OnAll(list, patterns, s) = d[n]  BY DEF Bus!OnAll
<1>9. Is(d)  BY <1>7
<1> HIDE DEF d
<1>10. d[0] = list /\ \A i \in 1..n : d[i] = Bus!On(d[i - 1], patterns[i], s)
  <2>1. 0 \in 0..n /\ \A i \in 1..n : i \in 0..n /\ i # 0  BY <1>1
  <2> HIDE DEF n
  <2>2. \A i \in 0..n : d[i] = IF i = 0 THEN list ELSE Bus!On(d[i - 1], patterns[i], s)
    BY <1>9, Zenon
  <2> QED  BY <2>1, <2>2
<1> QED  BY <1>8, <1>10 DEF OnStates

\* What a list of handlers becomes when s is registered for the first i patterns.
Grown(l, list, patterns, s, i) ==
  /\ Alone(l)
  /\ \A type, x : Count(Callees(l, type), x)
       = Count(Callees(list, type), x)
           + IF x = s THEN Cardinality({k \in 1..i : type \in Bus!Covers(patterns[k])}) ELSE 0
  /\ \A w, q : Registered(l, w, q) =>
       Registered(list, w, q) \/ (w = s /\ \E k \in 1..i : patterns[k] = q)

\* To register for patterns adds one call for each that covers a type.
LEMMA OnAllAdds ==
  ASSUME NEW U, NEW list \in HandlerLists(U), Alone(list),
         NEW patterns \in Seq(Bus!Pattern), NEW s \in U
  PROVE  /\ Bus!OnAll(list, patterns, s) \in HandlerLists(U)
         /\ Grown(Bus!OnAll(list, patterns, s), list, patterns, s, Len(patterns))
<1> DEFINE n == Len(patterns)
<1>1. n \in Nat /\ \A i \in 1..n : patterns[i] \in Bus!Pattern  OBVIOUS
<1>2. PICK f : OnStates(f, list, patterns, s)  BY OnGrows
<1>3. /\ f[0] = list
      /\ \A i \in 1..n : f[i] = Bus!On(f[i - 1], patterns[i], s)
      /\ Bus!OnAll(list, patterns, s) = f[n]
  BY <1>2 DEF OnStates
<1> HIDE DEF n
<1> DEFINE P == {i \in 0..n : f[i] \in HandlerLists(U) /\ Grown(f[i], list, patterns, s, i)}
           C(type, i) == {k \in 1..i : type \in Bus!Covers(patterns[k])}
<1>4. 0 \in P
  <2>1. \A type : C(type, 0) = {}  OBVIOUS
  <2>2. \A type : Cardinality(C(type, 0)) = 0  BY <2>1, FS_EmptySet
  <2>3. \A type, x : Count(Callees(list, type), x) \in Nat
    <3> TAKE type, x
    <3>1. Callees(list, type) \in Seq(U)  BY CallsAre
    <3> QED  BY <3>1, CountIs
  <2>4. \A type, x : Count(Callees(list, type), x) = Count(Callees(list, type), x)
          + IF x = s THEN Cardinality(C(type, 0)) ELSE 0
    BY <2>2, <2>3
  <2>5. Grown(list, list, patterns, s, 0)  BY <2>4 DEF Grown
  <2> QED  BY <1>1, <1>3, <2>5
<1>5. ASSUME NEW i \in 1..n, i - 1 \in P PROVE i \in P
  <2> DEFINE l == f[i - 1]
             p == patterns[i]
             more == Bus!On(l, p, s)
  <2>1. /\ i - 1 \in 0..n /\ i \in 0..n /\ i \in Nat /\ i - 1 \in Nat
        /\ \A k \in 1..i : k \in 1..(i - 1) \/ k = i
        /\ \A k \in 1..(i - 1) : k \in 1..i
        /\ i \in 1..i
    BY <1>1
  <2>2. l \in HandlerLists(U) /\ Grown(l, list, patterns, s, i - 1)  BY <1>5
  <2>3. p \in Bus!Pattern /\ f[i] = more  BY <1>1, <1>3
  <2> HIDE DEF l, p, more
  <2>4. /\ more \in HandlerLists(U) /\ Alone(more)
        /\ \A type, x : Count(Callees(more, type), x)
             = Count(Callees(l, type), x) + IF x = s /\ type \in Bus!Covers(p) THEN 1 ELSE 0
        /\ \A w, q : Registered(more, w, q) => Registered(l, w, q) \/ (w = s /\ q = p)
    BY <2>2, <2>3, OnAdds DEF Grown, more
  <2>5. ASSUME NEW type, NEW x
        PROVE  Count(Callees(more, type), x) = Count(Callees(list, type), x)
                 + IF x = s THEN Cardinality(C(type, i)) ELSE 0
    <3> DEFINE small == C(type, i - 1)
               large == C(type, i)
    <3>1. IsFiniteSet(small) /\ Cardinality(small) \in Nat
      <4>1. small \subseteq 1..(i - 1)  OBVIOUS
      <4>2. IsFiniteSet(1..(i - 1))  BY <2>1, FS_Interval
      <4>3. IsFiniteSet(small)  BY <4>1, <4>2, FS_Subset
      <4> QED  BY <4>3, FS_CardinalityType
    <3>2. type \in Bus!Covers(p) => large = small \cup {i}  BY <2>1 DEF p
    <3>3. type \notin Bus!Covers(p) => large = small  BY <2>1 DEF p
    <3>4. i \notin small  BY <2>1
    <3> HIDE DEF small, large
    <3>5. Cardinality(small \cup {i}) = Cardinality(small) + 1
      BY <3>1, <3>4, FS_AddElement
    <3>6. Count(Callees(more, type), x)
             = Count(Callees(l, type), x) + IF x = s /\ type \in Bus!Covers(p) THEN 1 ELSE 0
      BY <2>4
    <3>7. Count(Callees(l, type), x) = Count(Callees(list, type), x)
            + IF x = s THEN Cardinality(small) ELSE 0
      BY <2>2 DEF Grown, small
    <3>8. Count(Callees(list, type), x) \in Nat
      <4>1. Callees(list, type) \in Seq(U)  BY CallsAre
      <4> QED  BY <4>1, CountIs
    <3>9. Count(Callees(more, type), x) = Count(Callees(list, type), x)
            + IF x = s THEN Cardinality(large) ELSE 0
      <4>1. CASE x = s /\ type \in Bus!Covers(p)
        <5>1. Cardinality(large) = Cardinality(small) + 1  BY <3>2, <3>5, <4>1
        <5>2. Count(Callees(more, type), x) = Count(Callees(l, type), x) + 1  BY <3>6, <4>1
        <5>3. Count(Callees(l, type), x) = Count(Callees(list, type), x) + Cardinality(small)
          BY <3>7, <4>1
        <5> QED  BY <3>1, <3>8, <4>1, <5>1, <5>2, <5>3
      <4>2. CASE x = s /\ type \notin Bus!Covers(p)
        BY <3>1, <3>3, <3>6, <3>7, <3>8, <4>2
      <4>3. CASE x # s  BY <3>6, <3>7, <3>8, <4>3
      <4> QED  BY <4>1, <4>2, <4>3
    <3> QED  BY <3>9 DEF large
  <2>6. \A w, q : Registered(more, w, q) =>
          Registered(list, w, q) \/ (w = s /\ \E k \in 1..i : patterns[k] = q)
    BY <2>1, <2>2, <2>4 DEF Grown, p
  <2>7. Grown(more, list, patterns, s, i)  BY <2>4, <2>5, <2>6 DEF Grown
  <2> QED  BY <2>1, <2>3, <2>4, <2>7
<1>6. \A i \in 1..n : i - 1 \in P => i \in P  BY <1>5
<1> HIDE DEF P
<1>7. \A i \in 0..n : i \in P  BY <1>1, <1>4, <1>6, Induct
<1>8. n \in 0..n  BY <1>1
<1> QED  BY <1>3, <1>7, <1>8 DEF P, n

\* To remove s for patterns takes nothing from others, and leaves s nothing for them.
LEMMA OffTakes ==
  ASSUME NEW U, U = Stream \cup attached, Stream \cap attached = {},
         NEW list \in HandlerLists(U), Alone(list), NEW patterns, NEW s \in Stream
  PROVE  /\ Bus!Off(list, patterns, s) \in HandlerLists(U)
         /\ Alone(Bus!Off(list, patterns, s))
         /\ \A type : \A x \in U \ {s} : Count(Callees(Bus!Off(list, patterns, s), type), x)
              = Count(Callees(list, type), x)
         /\ \A w, q : Registered(Bus!Off(list, patterns, s), w, q) =>
              Registered(list, w, q) /\ ~(w = s /\ q \in Bus!Range(patterns))
<1> DEFINE n == Len(list)
           E == [pattern : Bus!Pattern, who : Seq(U)]
           others == (Stream \ {s}) \cup attached
           less == Bus!Off(list, patterns, s)
           T == Bus!Range(patterns)
<1>1. n \in Nat /\ DOMAIN list = 1..n /\ \A i \in 1..n : list[i] \in E
  <2> HIDE DEF E
  <2>1. list \in Seq(E)  BY DEF HandlerLists, E
  <2> QED  BY <2>1
<1>2. \A i \in 1..n : list[i].pattern \in Bus!Pattern /\ list[i].who \in Seq(U)
  BY <1>1
<1>3. less = [i \in 1..n |-> IF list[i].pattern \in T
                             THEN [pattern |-> list[i].pattern, who |-> Only(list[i].who, others)]
                             ELSE list[i]]
  <2> DEFINE body(i) == IF list[i].pattern \in T
                        THEN [pattern |-> list[i].pattern, who |-> Only(list[i].who, others)]
                        ELSE list[i]
  <2>4. \A l, S : Bus!Only(l, S) = Only(l, S)  BY DEF Bus!Only, Only
  <2>1. less = [i \in DOMAIN list |-> body(i)]  BY <2>4 DEF Bus!Off, Bus!Entry
  <2>2. DOMAIN list = 1..n  BY <1>1
  <2> HIDE DEF less, n, body
  <2>3. less = [i \in 1..n |-> body(i)]  BY <2>1, <2>2
  <2> QED  BY <2>3 DEF body
<1> HIDE DEF n, less, T, others
<1>4. \A i \in 1..n :
        /\ list[i].pattern \in T =>
             less[i] = [pattern |-> list[i].pattern, who |-> Only(list[i].who, others)]
        /\ list[i].pattern \notin T => less[i] = list[i]
  BY <1>3
<1>5. \A i \in 1..n : Only(list[i].who, others) \in Seq(U)  BY <1>2, OnlyKeeps
<1>6. \A i \in 1..n : less[i] \in E
  <2> TAKE i \in 1..n
  <2>1. [pattern |-> list[i].pattern, who |-> Only(list[i].who, others)] \in E
    BY <1>2, <1>5
  <2> HIDE DEF E
  <2> QED  BY <1>1, <1>4, <2>1
<1>7. less \in HandlerLists(U) /\ Len(less) = n
  <2> HIDE DEF E
  <2>1. less \in [1..n -> E]
    <3>1. less = [i \in 1..n |-> less[i]]  BY <1>3
    <3> QED  BY <1>6, <3>1
  <2>2. less \in Seq(E) /\ Len(less) = n  BY <1>1, <2>1
  <2> QED  BY <2>2 DEF HandlerLists, E
<1>8. \A i \in 1..n :
        /\ less[i].pattern = list[i].pattern
        /\ less[i].who = IF list[i].pattern \in T THEN Only(list[i].who, others)
                         ELSE list[i].who
  <2> TAKE i \in 1..n
  <2>1. CASE list[i].pattern \in T
    <3> DEFINE p == list[i].pattern
               o == Only(list[i].who, others)
    <3>1. less[i] = [pattern |-> p, who |-> o]  BY <1>4, <2>1
    <3> HIDE DEF p, o
    <3>2. less[i].pattern = p /\ less[i].who = o  BY <3>1
    <3> QED  BY <2>1, <3>2 DEF p, o
  <2>2. CASE list[i].pattern \notin T  BY <1>4, <2>2
  <2> QED  BY <2>1, <2>2
<1>9. Alone(less)  BY <1>7, <1>8 DEF Alone, n
<1>10. ASSUME NEW type, NEW x \in U \ {s}
       PROVE  Count(Callees(less, type), x) = Count(Callees(list, type), x)
  <2> DEFINE a == PartsOf(list, type)
             b == PartsOf(less, type)
  <2>1. /\ a \in Seq(Seq(U)) /\ Len(a) = n
        /\ \A i \in 1..n : a[i]
             = IF type \in Bus!Covers(list[i].pattern) THEN list[i].who ELSE <<>>
        /\ Callees(list, type) = Files!Flat(a)
    BY CallsAre DEF n
  <2>2. /\ b \in Seq(Seq(U)) /\ Len(b) = n
        /\ \A i \in 1..n : b[i]
             = IF type \in Bus!Covers(less[i].pattern) THEN less[i].who ELSE <<>>
        /\ Callees(less, type) = Files!Flat(b)
    BY <1>7, CallsAre
  <2> HIDE DEF a, b
  <2>3. x \in others  BY DEF others
  <2>4. \A i \in 1..n : Count(Only(list[i].who, others), x) = Count(list[i].who, x)
    BY <1>2, <2>3, OnlyCounts
  <2>5. \A i \in 1..n : Count(b[i], x) = Count(a[i], x)
    BY <1>8, <2>1, <2>2, <2>4
  <2>6. 0 \in Nat /\ ~(0 \in 1..Len(a)) /\ Len(b) = Len(a)  BY <2>1, <2>2
  <2>7. MoreInOne(a, b, x, 0, 0)  BY <2>1, <2>5, <2>6 DEF MoreInOne
  <2>8. Count(Files!Flat(b), x) = Count(Files!Flat(a), x)
    BY <2>1, <2>2, <2>6, <2>7, FlatCounts
  <2> QED  BY <2>1, <2>2, <2>8
<1>11. ASSUME NEW w, NEW q, Registered(less, w, q)
       PROVE  Registered(list, w, q) /\ ~(w = s /\ q \in T)
  <2>1. PICK i \in 1..n : Holds(less[i].who, w) /\ less[i].pattern = q
    BY <1>7, <1>11 DEF Registered
  <2>2. CASE list[i].pattern \in T
    <3>1. Holds(Only(list[i].who, others), w)  BY <1>8, <2>1, <2>2
    <3>2. Holds(list[i].who, w) /\ w \in others  BY <1>2, <3>1, OnlyKeeps
    <3>3. w # s  BY <3>2 DEF others
    <3> QED  BY <1>8, <2>1, <3>2, <3>3 DEF Registered, n
  <2>3. CASE list[i].pattern \notin T
    BY <1>8, <2>1, <2>3 DEF Registered, n
  <2> QED  BY <2>2, <2>3
<1> QED  BY <1>7, <1>9, <1>10, <1>11 DEF less, T

-----------------------------------------------------------------------------
(* The event bus: what is owed *)

\* Events are known, and none precedes an older one but the suggestion it led to.
Known(ids, n) == \A i \in 1..Len(ids) : ids[i] \in 1..n

\* A suggestion is written before the event that led to it.
Overtakes(id, by, k) == by = id + 1 /\ k[by] = "skill.suggested"

\* Ids in the order of their events, but for that.
InOrder(ids, k) ==
  \A i, j \in 1..Len(ids) : i < j /\ ids[j] < ids[i] => Overtakes(ids[j], ids[i], k)

\* One more event.
Emitted(k, k2, type) ==
  /\ k2 \in Seq(Bus!Type) /\ Len(k2) = Len(k) + 1 /\ k2[Len(k) + 1] = type
  /\ \A i \in 1..Len(k) : k2[i] = k[i]

\* Events that were in order stay so.
LEMMA OrderStays ==
  ASSUME NEW k \in Seq(Bus!Type), NEW k2, NEW type, Emitted(k, k2, type),
         NEW ids \in Seq(Nat), Known(ids, Len(k)), InOrder(ids, k)
  PROVE  Known(ids, Len(k2)) /\ InOrder(ids, k2)
<1>1. Len(k) \in Nat /\ Len(k2) = Len(k) + 1 /\ \A i \in 1..Len(k) : k2[i] = k[i]
  BY DEF Emitted
<1>2. \A i \in 1..Len(ids) : ids[i] \in 1..Len(k)  BY DEF Known
<1>3. Known(ids, Len(k2))  BY <1>1, <1>2 DEF Known
<1>4. InOrder(ids, k2)  BY <1>1, <1>2 DEF InOrder, Overtakes
<1> QED  BY <1>3, <1>4

\* The next one may only be preceded by its suggestion.
LEMMA OrderGrows ==
  ASSUME NEW k \in Seq(Bus!Type), NEW ids \in Seq(Nat), Known(ids, Len(k)), InOrder(ids, k),
         NEW id \in 1..Len(k), id = Len(k) \/ Overtakes(id, Len(k), k)
  PROVE  Known(Append(ids, id), Len(k)) /\ InOrder(Append(ids, id), k)
<1> DEFINE n == Len(ids)
           more == Append(ids, id)
<1>1. /\ n \in Nat /\ Len(more) = n + 1 /\ more[n + 1] = id
      /\ \A i \in 1..n : more[i] = ids[i]
      /\ Len(k) \in Nat
  OBVIOUS
<1>2. \A i \in 1..n : ids[i] \in 1..Len(k)  BY DEF Known
<1> HIDE DEF more
<1>3. \A i \in 1..(n + 1) : i \in 1..n \/ i = n + 1  BY <1>1
<1>4. Known(more, Len(k))  BY <1>1, <1>2, <1>3 DEF Known
<1>5. ASSUME NEW i \in 1..(n + 1), NEW j \in 1..(n + 1), i < j, more[j] < more[i]
      PROVE  Overtakes(more[j], more[i], k)
  <2>1. i \in 1..n  BY <1>1, <1>5
  <2>2. CASE j \in 1..n  BY <1>1, <1>5, <2>1, <2>2 DEF InOrder
  <2>3. CASE j = n + 1
    <3>1. ids[i] \in 1..Len(k) /\ id < ids[i] /\ more[j] = id /\ more[i] = ids[i]
      BY <1>1, <1>2, <1>5, <2>1, <2>3
    <3>2. ids[i] = Len(k) /\ Overtakes(id, Len(k), k)  BY <3>1 DEF Overtakes
    <3> QED  BY <3>1, <3>2
  <2> QED  BY <1>3, <2>2, <2>3
<1>6. InOrder(more, k)  BY <1>1, <1>5 DEF InOrder
<1> QED  BY <1>4, <1>6 DEF more

\* The calls of emit that have not returned.
BusFrame(U) == [id : Nat, left : Seq(U), at : {"handlers", "transports"}]

\* An event that emit has not returned for.
Pending(fr, id) == \E m \in 1..Len(fr) : fr[m].id = id

\* The events that they are about, of the n there are; no two of the same.
AboutKnown(fr, n) == \A m \in 1..Len(fr) : fr[m].id \in 1..n

\* The innermost call of emit is about an event of its own.
Apart(fr) == \A m \in 1..Len(fr) : m # 1 => fr[m].id # fr[1].id

\* The next handler of the first one has been called.
CalledOne(fr, fr2) ==
  /\ fr # <<>> /\ fr[1].left # <<>> /\ Len(fr2) = Len(fr)
  /\ \A m \in 1..Len(fr) : fr2[m].id = fr[m].id
  /\ \A m \in 1..Len(fr) : m # 1 => fr2[m].left = fr[m].left /\ fr2[m].at = fr[m].at
  /\ fr2[1].left = Tail(fr[1].left) /\ fr[1].at = "handlers" /\ fr2[1].at = "handlers"

\* Of each event that began after some one, a stream has been, or will be, given as
\* many as it has patterns that cover it.
Complete(mine, want, from, k, fr, s) ==
  /\ \A m \in 1..Len(fr) :
       Count(mine, fr[m].id) + Count(fr[m].left, s) = Covering(want, k[fr[m].id])
  /\ \A id \in 1..Len(k) : id > from =>
       Pending(fr, id) \/ Count(mine, id) = Covering(want, k[id])

\* Frames that are the same to a stream.
SameTo(s, fr, fr2) ==
  /\ Len(fr2) = Len(fr)
  /\ \A m \in 1..Len(fr) :
       fr2[m].id = fr[m].id /\ Count(fr2[m].left, s) = Count(fr[m].left, s)

\* What a stream is owed depends on its own calls only.
LEMMA CompleteSame ==
  ASSUME NEW mine, NEW want, NEW from, NEW k, NEW fr, NEW fr2, NEW s,
         Complete(mine, want, from, k, fr, s), SameTo(s, fr, fr2)
  PROVE  Complete(mine, want, from, k, fr2, s)
BY DEF Complete, SameTo, Pending

\* An event begins.
LEMMA CompleteEmits ==
  ASSUME NEW mine \in Seq(Nat), NEW want, NEW from, NEW k \in Seq(Bus!Type), NEW k2, NEW type,
         NEW U, NEW fr \in Seq(BusFrame(U)), NEW f \in BusFrame(U), NEW s,
         Emitted(k, k2, type), Known(mine, Len(k)),
         AboutKnown(fr, Len(k)),
         f.id = Len(k) + 1, Count(f.left, s) = Covering(want, type),
         Complete(mine, want, from, k, fr, s)
  PROVE  Complete(mine, want, from, k2, <<f>> \o fr, s)
<1> DEFINE n == Len(k)
           fr2 == <<f>> \o fr
<1>1. /\ n \in Nat /\ Len(fr) \in Nat /\ Len(k2) = n + 1 /\ k2[n + 1] = type
      /\ \A i \in 1..n : k2[i] = k[i]
  <2>1. n \in Nat  OBVIOUS
  <2>2. Len(fr) \in Nat  OBVIOUS
  <2> QED  BY <2>1, <2>2 DEF Emitted
<1>2. Len(fr2) = Len(fr) + 1 /\ fr2[1] = f /\ \A m \in 1..Len(fr) : fr2[m + 1] = fr[m]
  <2> DEFINE E == BusFrame(U)
  <2>1. f \in E /\ fr \in Seq(E)  OBVIOUS
  <2> HIDE DEF E
  <2> QED  BY <2>1
<1>3. Count(mine, n + 1) = 0
  <2>1. ~Holds(mine, n + 1)
    <3>1. DOMAIN mine = 1..Len(mine)  OBVIOUS
    <3>2. \A i \in 1..Len(mine) : mine[i] # n + 1  BY <1>1 DEF Known
    <3> QED  BY <3>1, <3>2 DEF Holds
  <2> QED  BY <2>1, CountIs
<1> HIDE DEF fr2
<1>4. \A m \in 1..(Len(fr) + 1) : m = 1 \/ (m - 1 \in 1..Len(fr) /\ m = (m - 1) + 1)
  BY <1>1
<1>5. ASSUME NEW m \in 1..(Len(fr) + 1)
      PROVE  Count(mine, fr2[m].id) + Count(fr2[m].left, s) = Covering(want, k2[fr2[m].id])
  <2>1. CASE m = 1
    <3>1. fr2[m] = f  BY <1>2, <2>1
    <3>2. f.left \in Seq(U)  BY DEF BusFrame
    <3>3. Count(f.left, s) \in Nat  BY <3>2, CountIs
    <3> QED  BY <1>1, <1>3, <3>1, <3>3
  <2>2. CASE m - 1 \in 1..Len(fr) /\ m = (m - 1) + 1
    <3>1. fr2[m] = fr[m - 1]  BY <1>2, <2>2
    <3>2. fr[m - 1].id \in 1..n  BY <2>2 DEF AboutKnown
    <3>3. k2[fr[m - 1].id] = k[fr[m - 1].id]  BY <1>1, <3>2
    <3>4. Count(mine, fr[m - 1].id) + Count(fr[m - 1].left, s)
            = Covering(want, k[fr[m - 1].id])
      BY <2>2 DEF Complete
    <3> QED  BY <3>1, <3>3, <3>4
  <2> QED  BY <1>4, <2>1, <2>2
<1>6. ASSUME NEW id \in 1..(n + 1), id > from
      PROVE  Pending(fr2, id) \/ Count(mine, id) = Covering(want, k2[id])
  <2>1. CASE id = n + 1
    <3>1. 1 \in 1..(Len(fr) + 1)  BY <1>1
    <3> QED  BY <1>2, <2>1, <3>1 DEF Pending
  <2>2. CASE id # n + 1
    <3>1. id \in 1..n  BY <1>1, <2>2
    <3>2. k2[id] = k[id]  BY <1>1, <3>1
    <3>3. Pending(fr, id) \/ Count(mine, id) = Covering(want, k[id])
      BY <1>6, <3>1 DEF Complete
    <3>4. Pending(fr, id) => Pending(fr2, id)
      <4>1. \A m \in 1..Len(fr) : m + 1 \in 1..(Len(fr) + 1)  BY <1>1
      <4> QED  BY <1>2, <4>1 DEF Pending
    <3> QED  BY <3>2, <3>3, <3>4
  <2> QED  BY <2>1, <2>2
<1> QED  BY <1>1, <1>2, <1>5, <1>6 DEF Complete, fr2

\* The stream is called.
LEMMA CompleteCalls ==
  ASSUME NEW mine \in Seq(Nat), NEW want, NEW from, NEW k, NEW U,
         NEW fr \in Seq(BusFrame(U)), NEW fr2, NEW s,
         CalledOne(fr, fr2), Apart(fr), Head(fr[1].left) = s,
         Complete(mine, want, from, k, fr, s)
  PROVE  Complete(Append(mine, fr[1].id), want, from, k, fr2, s)
<1> DEFINE x == fr[1].id
           more == Append(mine, x)
           left1 == fr[1].left
<1>1. Len(fr) \in Nat /\ 1 \in 1..Len(fr)  BY DEF CalledOne
<1>2. x \in Nat /\ left1 \in Seq(U)
  <2>1. fr[1] \in BusFrame(U)  BY <1>1
  <2> QED  BY <2>1 DEF BusFrame
<1>3. left1 # <<>> /\ Head(left1) = s /\ fr2[1].left = Tail(left1)  BY DEF CalledOne
<1> HIDE DEF x, more, left1
<1>4. /\ more \in Seq(Nat)
      /\ \A y : Count(more, y) = Count(mine, y) + Count(<<x>>, y)
  BY <1>2, AppendCounts DEF more
<1>5. Count(left1, s) = Count(<<s>>, s) + Count(Tail(left1), s) /\ Tail(left1) \in Seq(U)
  BY <1>2, <1>3, TailCounts
<1>6. Count(<<s>>, s) = 1 /\ Count(<<x>>, x) = 1  BY CountOne
<1>7. \A y : Count(mine, y) \in Nat  BY CountIs
<1>8. Count(Tail(left1), s) \in Nat  BY <1>5, CountIs
<1>9. \A y : y # x => Count(more, y) = Count(mine, y)
  <2> TAKE y
  <2> HAVE y # x
  <2>1. Count(<<x>>, y) = 0  BY CountOne
  <2>2. Count(more, y) = Count(mine, y) + Count(<<x>>, y)  BY <1>4
  <2> QED  BY <1>7, <2>1, <2>2
<1>10. Count(more, x) + Count(Tail(left1), s) = Count(mine, x) + Count(left1, s)
  <2>1. Count(more, x) = Count(mine, x) + 1  BY <1>4, <1>6
  <2>2. Count(left1, s) = 1 + Count(Tail(left1), s)  BY <1>5, <1>6
  <2>3. Count(mine, x) \in Nat  BY <1>7
  <2> QED  BY <1>8, <2>1, <2>2, <2>3
<1>11. ASSUME NEW m \in 1..Len(fr2)
       PROVE  Count(more, fr2[m].id) + Count(fr2[m].left, s) = Covering(want, k[fr2[m].id])
  <2>1. m \in 1..Len(fr) /\ fr2[m].id = fr[m].id  BY DEF CalledOne
  <2>2. Count(mine, fr[m].id) + Count(fr[m].left, s) = Covering(want, k[fr[m].id])
    BY <2>1 DEF Complete
  <2>3. CASE m = 1
    <3>1. fr2[m].id = x /\ fr2[m].left = Tail(left1) /\ fr[m].id = x /\ fr[m].left = left1
      BY <1>3, <2>1, <2>3 DEF x, left1
    <3> QED  BY <1>10, <2>2, <3>1
  <2>4. CASE m # 1
    <3>1. fr2[m].left = fr[m].left /\ fr[m].id # x  BY <2>1, <2>4 DEF CalledOne, Apart, x
    <3>2. Count(more, fr[m].id) = Count(mine, fr[m].id)  BY <1>9, <3>1
    <3> QED  BY <2>1, <2>2, <3>1, <3>2
  <2> QED  BY <2>3, <2>4
<1>12. ASSUME NEW id \in 1..Len(k), id > from
       PROVE  Pending(fr2, id) \/ Count(more, id) = Covering(want, k[id])
  <2>1. Pending(fr, id) \/ Count(mine, id) = Covering(want, k[id])  BY <1>12 DEF Complete
  <2>2. Pending(fr, id) => Pending(fr2, id)  BY DEF CalledOne, Pending
  <2>3. CASE id = x  BY <1>1, <2>2, <2>3 DEF Pending, x
  <2>4. CASE id # x  BY <1>9, <2>1, <2>2, <2>4
  <2> QED  BY <2>3, <2>4
<1>13. Complete(more, want, from, k, fr2, s)  BY <1>11, <1>12 DEF Complete
<1> QED  BY <1>13 DEF more, x

\* The first call of emit returns, when the stream is not called any more.
LEMMA CompleteEnds ==
  ASSUME NEW mine \in Seq(Nat), NEW want, NEW from, NEW k, NEW U,
         NEW fr \in Seq(BusFrame(U)), NEW s,
         fr # <<>>, fr[1].left = <<>>, Complete(mine, want, from, k, fr, s)
  PROVE  Complete(mine, want, from, k, Tail(fr), s)
<1> DEFINE fr2 == Tail(fr)
<1>1. /\ Len(fr) \in Nat \ {0} /\ Len(fr2) = Len(fr) - 1
      /\ \A m \in 1..(Len(fr) - 1) : fr2[m] = fr[m + 1]
  <2> DEFINE E == BusFrame(U)
  <2>1. fr \in Seq(E)  OBVIOUS
  <2> HIDE DEF E
  <2> QED  BY <2>1
<1> HIDE DEF fr2
<1>2. \A m \in 1..Len(fr2) : m + 1 \in 1..Len(fr) /\ fr2[m] = fr[m + 1]  BY <1>1
<1>3. Count(mine, fr[1].id) = Covering(want, k[fr[1].id])
  <2>1. 1 \in 1..Len(fr)  BY <1>1
  <2>2. Count(mine, fr[1].id) + Count(<<>>, s) = Covering(want, k[fr[1].id])
    BY <2>1 DEF Complete
  <2>3. Count(<<>>, s) = 0
    <3>1. <<>> \in Seq(U) /\ ~Holds(<<>>, s)  BY DEF Holds
    <3> QED  BY <3>1, CountIs
  <2>4. Count(mine, fr[1].id) \in Nat  BY CountIs
  <2> QED  BY <2>2, <2>3, <2>4
<1>4. ASSUME NEW id \in 1..Len(k), id > from
      PROVE  Pending(fr2, id) \/ Count(mine, id) = Covering(want, k[id])
  <2>1. Pending(fr, id) \/ Count(mine, id) = Covering(want, k[id])  BY <1>4 DEF Complete
  <2>2. CASE Pending(fr, id)
    <3>1. PICK m \in 1..Len(fr) : fr[m].id = id  BY <2>2 DEF Pending
    <3>2. CASE m = 1  BY <1>3, <3>1, <3>2
    <3>3. CASE m # 1
      <4>1. m - 1 \in 1..Len(fr2) /\ (m - 1) + 1 = m  BY <1>1, <3>3
      <4>2. fr2[m - 1] = fr[m]  BY <1>2, <4>1
      <4> QED  BY <3>1, <4>1, <4>2 DEF Pending
    <3> QED  BY <3>2, <3>3
  <2> QED  BY <2>1, <2>2
<1>5. Complete(mine, want, from, k, fr2, s)  BY <1>2, <1>4 DEF Complete
<1> QED  BY <1>5 DEF fr2

\* Another stream than the one called sees no difference.
LEMMA CalledSame ==
  ASSUME NEW U, NEW fr \in Seq(BusFrame(U)), NEW fr2, NEW s,
         CalledOne(fr, fr2), Head(fr[1].left) # s
  PROVE  SameTo(s, fr, fr2)
<1> DEFINE left1 == fr[1].left
<1>1. Len(fr) \in Nat /\ 1 \in 1..Len(fr)  BY DEF CalledOne
<1>2. left1 \in Seq(U)
  <2>1. fr[1] \in BusFrame(U)  BY <1>1
  <2> QED  BY <2>1 DEF BusFrame
<1>3. left1 # <<>> /\ Head(left1) # s /\ fr2[1].left = Tail(left1)  BY DEF CalledOne
<1>4. Count(fr2[1].left, s) = Count(fr[1].left, s)
  <2> HIDE DEF left1
  <2>1. Count(left1, s) = Count(<<Head(left1)>>, s) + Count(Tail(left1), s)
        /\ Tail(left1) \in Seq(U)
    BY <1>2, <1>3, TailCounts
  <2>2. Count(<<Head(left1)>>, s) = 0  BY <1>3, CountOne
  <2>3. Count(Tail(left1), s) \in Nat  BY <2>1, CountIs
  <2>4. Count(left1, s) = Count(Tail(left1), s)  BY <2>1, <2>2, <2>3
  <2> QED  BY <1>3, <2>4 DEF left1
<1> QED  BY <1>4 DEF CalledOne, SameTo

-----------------------------------------------------------------------------
\* After each line there is every event that has been written, but for those whose
\* write failed, and a suggestion.
Gapless(lines, ls, k, fr) ==
  \A older : Holds(lines, older) => \A id \in 1..Len(k) : id > older =>
    Pending(fr, id) \/ Holds(lines, id) \/ id \in ls \/ Overtakes(older, id, k)

\* Lines are of events that have been emitted, each once, and not of those lost.
Kept(lines, ls, k, fr) ==
  /\ lines \in Seq(Nat) /\ Distinct(lines) /\ Known(lines, Len(k))
  /\ \A id : Holds(lines, id) => ~Pending(fr, id) /\ id \notin ls
  /\ Gapless(lines, ls, k, fr)

\* The events whose write failed, in calls of emit that have returned.
Failed(ls, k, fr) ==
  /\ ls \in SUBSET (1..Len(k)) /\ IsFiniteSet(ls) /\ Cardinality(ls) \in Nat
  /\ \A id \in ls : ~Pending(fr, id)

\* What the two JSONL files hold.
Written(fl, as, ls, k, fr) ==
  /\ as \in Seq(Nat) /\ InOrder(fl, k) /\ Failed(ls, k, fr)
  /\ Kept(fl, ls, k, fr) /\ Kept(as \o fl, ls, k, fr)
  /\ Len(k) # 0 => Pending(fr, Len(k)) \/ Holds(as \o fl, Len(k)) \/ Len(k) \in ls
  /\ Len(as \o fl) >= MaxLines \/ Len(as \o fl) + Cardinality(ls) + Len(fr) >= Len(k)

\* The calls of emit are about the same events.
SameIds(fr, fr2) == Len(fr2) = Len(fr) /\ \A m \in 1..Len(fr) : fr2[m].id = fr[m].id

\* The file depends on the events only that emit has not returned for.
LEMMA WrittenSame ==
  ASSUME NEW fl, NEW as, NEW ls, NEW k, NEW fr, NEW fr2, Written(fl, as, ls, k, fr),
         SameIds(fr, fr2)
  PROVE  Written(fl, as, ls, k, fr2)
<1>1. \A id : Pending(fr2, id) <=> Pending(fr, id)  BY DEF Pending, SameIds
<1>2. \A lines : Kept(lines, ls, k, fr) => Kept(lines, ls, k, fr2)
  BY <1>1 DEF Kept, Gapless
<1>3. Failed(ls, k, fr) => Failed(ls, k, fr2)  BY <1>1 DEF Failed
<1> QED  BY <1>1, <1>2, <1>3 DEF Written, SameIds

\* What is before the first, and the rest.
LEMMA ConsPending ==
  ASSUME NEW U, NEW fr \in Seq(BusFrame(U)), NEW f \in BusFrame(U)
  PROVE  /\ Len(<<f>> \o fr) = Len(fr) + 1
         /\ \A id : Pending(<<f>> \o fr, id) <=> id = f.id \/ Pending(fr, id)
<1> DEFINE fr2 == <<f>> \o fr
           E == BusFrame(U)
<1>1. /\ Len(fr) \in Nat /\ Len(fr2) = Len(fr) + 1 /\ fr2[1] = f
      /\ \A m \in 1..Len(fr) : fr2[m + 1] = fr[m]
  <2>1. f \in E /\ fr \in Seq(E)  OBVIOUS
  <2> HIDE DEF E
  <2> QED  BY <2>1
<1> HIDE DEF fr2
<1>2. /\ \A m \in 1..(Len(fr) + 1) : m = 1 \/ (m - 1 \in 1..Len(fr) /\ m = (m - 1) + 1)
      /\ \A m \in 1..Len(fr) : m + 1 \in 1..(Len(fr) + 1)
      /\ 1 \in 1..(Len(fr) + 1)
  BY <1>1
<1>3. ASSUME NEW id PROVE Pending(fr2, id) <=> id = f.id \/ Pending(fr, id)
  <2>1. ASSUME Pending(fr2, id) PROVE id = f.id \/ Pending(fr, id)
    <3>1. PICK m \in 1..(Len(fr) + 1) : fr2[m].id = id  BY <1>1, <2>1 DEF Pending
    <3>2. CASE m = 1  BY <1>1, <3>1, <3>2
    <3>3. CASE m - 1 \in 1..Len(fr) /\ m = (m - 1) + 1
      <4>1. fr2[m] = fr[m - 1]  BY <1>1, <3>3
      <4> QED  BY <3>1, <3>3, <4>1 DEF Pending
    <3> QED  BY <1>2, <3>2, <3>3
  <2>2. id = f.id => Pending(fr2, id)  BY <1>1, <1>2 DEF Pending
  <2>3. Pending(fr, id) => Pending(fr2, id)  BY <1>1, <1>2 DEF Pending
  <2> QED  BY <2>1, <2>2, <2>3
<1> QED  BY <1>1, <1>3 DEF fr2

\* An event that has only begun is in no file.
LEMMA KeptEmits ==
  ASSUME NEW l, NEW ls, NEW k \in Seq(Bus!Type), NEW k2, NEW type, Emitted(k, k2, type),
         NEW U, NEW fr \in Seq(BusFrame(U)), NEW f \in BusFrame(U), f.id = Len(k) + 1,
         Kept(l, ls, k, fr)
  PROVE  Kept(l, ls, k2, <<f>> \o fr)
<1> DEFINE n == Len(k)
           fr2 == <<f>> \o fr
<1>1. n \in Nat /\ Len(k2) = n + 1 /\ \A i \in 1..n : k2[i] = k[i]
  BY DEF Emitted
<1>2. \A id : Pending(fr2, id) <=> id = n + 1 \/ Pending(fr, id)  BY ConsPending
<1> HIDE DEF fr2
<1>3. l \in Seq(Nat) /\ Distinct(l) /\ \A i \in 1..Len(l) : l[i] \in 1..n
  BY DEF Kept, Known
<1>4. Known(l, Len(k2))  BY <1>1, <1>3 DEF Known
<1>5. \A id : Holds(l, id) => id \in 1..n
  <2>1. DOMAIN l = 1..Len(l)  BY <1>3
  <2> QED  BY <1>3, <2>1 DEF Holds
<1>6. \A id : Holds(l, id) => ~Pending(fr2, id) /\ id \notin ls
  <2>1. \A id : Holds(l, id) => ~Pending(fr, id) /\ id \notin ls  BY DEF Kept
  <2>2. \A id \in 1..n : id # n + 1  BY <1>1
  <2> QED  BY <1>2, <1>5, <2>1, <2>2
<1>7. Gapless(l, ls, k2, fr2)
  <2> SUFFICES ASSUME NEW older, Holds(l, older), NEW id \in 1..(n + 1), id > older
               PROVE  Pending(fr2, id) \/ Holds(l, id) \/ id \in ls \/ Overtakes(older, id, k2)
    BY <1>1 DEF Gapless
  <2>1. CASE id = n + 1  BY <1>2, <2>1
  <2>2. CASE id # n + 1
    <3>1. id \in 1..n /\ k2[id] = k[id]  BY <1>1, <2>2
    <3>2. Pending(fr, id) \/ Holds(l, id) \/ id \in ls \/ Overtakes(older, id, k)
      BY <3>1 DEF Kept, Gapless
    <3> QED  BY <1>2, <3>1, <3>2 DEF Overtakes
  <2> QED  BY <2>1, <2>2
<1> QED  BY <1>3, <1>4, <1>6, <1>7 DEF Kept, fr2

\* An event that begins is not in the file yet.
LEMMA WrittenEmits ==
  ASSUME NEW fl, NEW as, NEW ls, NEW k \in Seq(Bus!Type), NEW k2, NEW type,
         Emitted(k, k2, type),
         NEW U, NEW fr \in Seq(BusFrame(U)), NEW f \in BusFrame(U), f.id = Len(k) + 1,
         MaxLines \in Nat, Written(fl, as, ls, k, fr)
  PROVE  Written(fl, as, ls, k2, <<f>> \o fr)
<1> DEFINE fr2 == <<f>> \o fr
           lines == as \o fl
<1>1. Len(k) \in Nat /\ Len(k2) = Len(k) + 1  BY DEF Emitted
<1>2. /\ Len(fr2) = Len(fr) + 1 /\ Pending(fr2, Len(k) + 1)
      /\ \A id : Pending(fr2, id) <=> id = Len(k) + 1 \/ Pending(fr, id)
  BY ConsPending
<1>3. Kept(fl, ls, k, fr) /\ Kept(lines, ls, k, fr) /\ InOrder(fl, k)  BY DEF Written
<1> HIDE DEF lines
<1>4. Kept(fl, ls, k2, fr2) /\ Kept(lines, ls, k2, fr2)  BY <1>3, KeptEmits
<1>5. InOrder(fl, k2)  BY <1>3, OrderStays DEF Kept
<1> HIDE DEF fr2
<1>6. Len(lines) >= MaxLines \/ Len(lines) + Cardinality(ls) + Len(fr2) >= Len(k2)
  <2>1. Len(lines) >= MaxLines \/ Len(lines) + Cardinality(ls) + Len(fr) >= Len(k)
    BY DEF Written, lines
  <2>2. Len(lines) \in Nat /\ Len(fr) \in Nat /\ Cardinality(ls) \in Nat
    BY <1>3 DEF Kept, Written, Failed
  <2> QED  BY <1>1, <1>2, <2>1, <2>2
<1>7. Failed(ls, k2, fr2)
  <2>1. /\ ls \in SUBSET (1..Len(k)) /\ IsFiniteSet(ls) /\ Cardinality(ls) \in Nat
        /\ \A id \in ls : ~Pending(fr, id)
    BY DEF Written, Failed
  <2>2. \A id \in 1..Len(k) : id \in 1..(Len(k) + 1) /\ id # Len(k) + 1  BY <1>1
  <2> QED  BY <1>1, <1>2, <2>1, <2>2 DEF Failed
<1> QED  BY <1>1, <1>2, <1>4, <1>5, <1>6, <1>7 DEF Written, fr2, lines

\* The first call of emit returns.
LEMMA TailPending ==
  ASSUME NEW U, NEW fr \in Seq(BusFrame(U)), fr # <<>>, Apart(fr)
  PROVE  /\ Len(Tail(fr)) = Len(fr) - 1 /\ Len(fr) \in Nat \ {0}
         /\ \A m \in 1..Len(Tail(fr)) : m + 1 \in 1..Len(fr) /\ Tail(fr)[m] = fr[m + 1]
         /\ \A id : Pending(Tail(fr), id) <=> Pending(fr, id) /\ id # fr[1].id
         /\ Pending(fr, fr[1].id)
<1> DEFINE fr2 == Tail(fr)
           E == BusFrame(U)
<1>1. /\ Len(fr) \in Nat \ {0} /\ Len(fr2) = Len(fr) - 1
      /\ \A m \in 1..(Len(fr) - 1) : fr2[m] = fr[m + 1]
  <2>1. fr \in Seq(E)  OBVIOUS
  <2> HIDE DEF E
  <2> QED  BY <2>1
<1> HIDE DEF fr2
<1>2. \A m \in 1..Len(fr2) : m + 1 \in 1..Len(fr) /\ m + 1 # 1 /\ fr2[m] = fr[m + 1]
  BY <1>1
<1>3. \A m \in 1..Len(fr) : m = 1 \/ (m - 1 \in 1..Len(fr2) /\ (m - 1) + 1 = m)
  BY <1>1
<1>4. ASSUME NEW id PROVE Pending(fr2, id) <=> Pending(fr, id) /\ id # fr[1].id
  <2>1. Pending(fr2, id) => Pending(fr, id) /\ id # fr[1].id
    BY <1>2 DEF Pending, Apart
  <2>2. ASSUME Pending(fr, id), id # fr[1].id PROVE Pending(fr2, id)
    <3>1. PICK m \in 1..Len(fr) : fr[m].id = id  BY <2>2 DEF Pending
    <3>2. m - 1 \in 1..Len(fr2) /\ (m - 1) + 1 = m  BY <1>3, <2>2, <3>1
    <3>3. fr2[m - 1] = fr[m]  BY <1>2, <3>2
    <3> QED  BY <3>1, <3>2, <3>3 DEF Pending
  <2> QED  BY <2>1, <2>2
<1>5. Pending(fr, fr[1].id)
  <2>1. 1 \in 1..Len(fr)  BY <1>1
  <2> QED  BY <2>1 DEF Pending
<1> QED  BY <1>1, <1>2, <1>4, <1>5 DEF fr2

\* To join a list and one that has something more at its end.
LEMMA JoinAppend ==
  ASSUME NEW U, NEW a \in Seq(U), NEW b \in Seq(U), NEW x \in U
  PROVE  a \o Append(b, x) = Append(a \o b, x)
<1> DEFINE c == Append(b, x)
           d == a \o b
           l == a \o c
           r == Append(d, x)
           n == Len(a)
           m == Len(b)
<1>1. /\ n \in Nat /\ m \in Nat /\ c \in Seq(U) /\ Len(c) = m + 1 /\ c[m + 1] = x
      /\ \A i \in 1..m : c[i] = b[i]
      /\ d \in Seq(U)
  OBVIOUS
<1> HIDE DEF c
<1>2. /\ l \in Seq(U) /\ Len(l) = n + (m + 1)
      /\ \A i \in 1..n : l[i] = a[i]
      /\ \A i \in 1..(m + 1) : l[n + i] = c[i]
  <2>1. c \in Seq(U)  BY <1>1
  <2>2. /\ a \o c \in Seq(U) /\ Len(a \o c) = n + Len(c)
        /\ \A i \in 1..n : (a \o c)[i] = a[i]
        /\ \A i \in 1..Len(c) : (a \o c)[n + i] = c[i]
    BY <2>1, JoinKeeps
  <2> HIDE DEF n, m
  <2> QED  BY <1>1, <2>2
<1>3. /\ Len(d) = n + m
      /\ \A i \in 1..n : d[i] = a[i]
      /\ \A i \in 1..m : d[n + i] = b[i]
  BY JoinKeeps
<1> HIDE DEF d, n, m, l
<1>4. /\ r \in Seq(U) /\ Len(r) = (n + m) + 1 /\ r[(n + m) + 1] = x
      /\ \A i \in 1..(n + m) : r[i] = d[i]
  <2>1. d \in Seq(U)  BY <1>1
  <2>2. /\ Append(d, x) \in Seq(U) /\ Len(Append(d, x)) = Len(d) + 1
        /\ Append(d, x)[Len(d) + 1] = x
        /\ \A i \in 1..Len(d) : Append(d, x)[i] = d[i]
    <3>1. \A b2 \in Seq(U) : /\ Append(b2, x) \in Seq(U)
                             /\ Len(Append(b2, x)) = Len(b2) + 1
                             /\ Append(b2, x)[Len(b2) + 1] = x
                             /\ \A i \in 1..Len(b2) : Append(b2, x)[i] = b2[i]
      OBVIOUS
    <3> QED  BY <2>1, <3>1
  <2> QED  BY <1>3, <2>2
<1> HIDE DEF r
<1>5. ASSUME NEW i \in 1..(n + (m + 1)) PROVE l[i] = r[i]
  <2>1. \/ i \in 1..n /\ i \in 1..(n + m)
        \/ i - n \in 1..m /\ i = n + (i - n) /\ i \in 1..(n + m) /\ i - n \in 1..(m + 1)
        \/ i = n + (m + 1) /\ i = (n + m) + 1 /\ m + 1 \in 1..(m + 1)
    <3>1. i \in Nat /\ i >= 1 /\ i <= n + (m + 1)  BY <1>1
    <3>2. CASE i <= n  BY <1>1, <3>1, <3>2
    <3>3. CASE i > n /\ i <= n + m  BY <1>1, <3>1, <3>3
    <3>4. CASE i > n + m  BY <1>1, <3>1, <3>4
    <3> QED  BY <1>1, <3>1, <3>2, <3>3, <3>4
  <2>2. CASE i \in 1..n /\ i \in 1..(n + m)  BY <1>2, <1>3, <1>4, <2>2
  <2>3. CASE i - n \in 1..m /\ i = n + (i - n) /\ i \in 1..(n + m) /\ i - n \in 1..(m + 1)
    <3>1. l[n + (i - n)] = c[i - n] /\ c[i - n] = b[i - n] /\ d[n + (i - n)] = b[i - n]
      BY <1>1, <1>2, <1>3, <2>3
    <3> QED  BY <1>4, <2>3, <3>1
  <2>4. CASE i = n + (m + 1) /\ i = (n + m) + 1 /\ m + 1 \in 1..(m + 1)
    <3>1. l[n + (m + 1)] = x  BY <1>1, <1>2, <2>4
    <3> QED  BY <1>4, <2>4, <3>1
  <2> QED  BY <2>1, <2>2, <2>3, <2>4
<1>6. n + (m + 1) = (n + m) + 1  BY <1>1
<1>7. l = r  BY <1>2, <1>4, <1>5, <1>6
<1> QED  BY <1>7 DEF l, r, c, d

\* A line at the end of a file, or of both.
LEMMA OneLine ==
  ASSUME NEW l \in Seq(Nat), NEW x \in Nat
  PROVE  /\ Append(l, x) \in Seq(Nat)
         /\ \A id : Holds(Append(l, x), id) <=> Holds(l, id) \/ id = x
         /\ \A a \in Seq(Nat) : a \o Append(l, x) = Append(a \o l, x)
<1>1. Append(l, x) \in Seq(Nat)  OBVIOUS
<1>2. \A id : Holds(Append(l, x), id) <=> Holds(l, id) \/ id = x
  BY AppendCounts, Zenon
<1>3. \A a \in Seq(Nat) : a \o Append(l, x) = Append(a \o l, x)
  <2> TAKE a \in Seq(Nat)
  <2> QED  BY JoinAppend, SMT
<1> QED  BY <1>1, <1>2, <1>3

\* Its event is one more line.
LEMMA KeptGrows ==
  ASSUME NEW l, NEW ls, NEW k \in Seq(Bus!Type), NEW U, NEW fr \in Seq(BusFrame(U)),
         fr # <<>>, Apart(fr), NEW x \in 1..Len(k), x = fr[1].id, x \notin ls,
         x = Len(k) \/ Overtakes(x, Len(k), k), Kept(l, ls, k, fr)
  PROVE  Kept(Append(l, x), ls, k, Tail(fr))
<1> DEFINE more == Append(l, x)
           fr2 == Tail(fr)
           n == Len(k)
<1>1. n \in Nat /\ x \in Nat  OBVIOUS
<1>2. /\ \A id : Pending(fr2, id) <=> Pending(fr, id) /\ id # x
      /\ Pending(fr, x)
  BY TailPending
<1> HIDE DEF fr2
<1>3. /\ l \in Seq(Nat) /\ Distinct(l) /\ \A i \in 1..Len(l) : l[i] \in 1..n
      /\ \A id : Holds(l, id) => ~Pending(fr, id) /\ id \notin ls
  BY DEF Kept, Known
<1>4. DOMAIN l = 1..Len(l) /\ Len(l) \in Nat  BY <1>3
<1>5. /\ more \in Seq(Nat)
      /\ \A id : Holds(more, id) <=> Holds(l, id) \/ id = x
  <2>1. l \in Seq(Nat) /\ x \in Nat  BY <1>1, <1>3
  <2> QED  BY <2>1, OneLine
<1>6. /\ Len(more) = Len(l) + 1 /\ more[Len(l) + 1] = x /\ DOMAIN more = 1..(Len(l) + 1)
      /\ \A i \in 1..Len(l) : more[i] = l[i]
      /\ \A i \in 1..(Len(l) + 1) : i \in 1..Len(l) \/ i = Len(l) + 1
  BY <1>1, <1>3, <1>4
<1> HIDE DEF more, n
<1>7. ~Holds(l, x)  BY <1>2, <1>3
<1>8. Distinct(more)
  <2>1. \A i \in 1..Len(l) : l[i] # x  BY <1>4, <1>7 DEF Holds
  <2>2. \A i, j \in 1..Len(l) : l[i] = l[j] => i = j  BY <1>3, <1>4 DEF Distinct
  <2> QED  BY <1>6, <2>1, <2>2 DEF Distinct
<1>9. Known(more, n)  BY <1>3, <1>6 DEF Known, n
<1>10. \A id : Holds(more, id) => ~Pending(fr2, id) /\ id \notin ls  BY <1>2, <1>3, <1>5
<1>11. Gapless(more, ls, k, fr2)
  <2> SUFFICES ASSUME NEW older, Holds(more, older), NEW id \in 1..n, id > older
               PROVE  Pending(fr2, id) \/ Holds(more, id) \/ id \in ls \/ Overtakes(older, id, k)
    BY DEF Gapless, n
  <2>1. CASE Holds(l, older)
    <3>1. Pending(fr, id) \/ Holds(l, id) \/ id \in ls \/ Overtakes(older, id, k)
      BY <2>1 DEF Kept, Gapless, n
    <3> QED  BY <1>2, <1>5, <3>1
  <2>2. CASE older = x
    <3>1. x = n \/ (n = x + 1 /\ Overtakes(x, n, k))  BY DEF Overtakes, n
    <3>2. id = n /\ Overtakes(x, n, k)  BY <1>1, <2>2, <3>1
    <3> QED  BY <2>2, <3>2
  <2> QED  BY <1>5, <2>1, <2>2
<1> QED  BY <1>5, <1>8, <1>9, <1>10, <1>11 DEF Kept, more, fr2, n

\* Its event is one that has failed.
LEMMA KeptLoses ==
  ASSUME NEW l, NEW ls, NEW k, NEW U, NEW fr \in Seq(BusFrame(U)), fr # <<>>, Apart(fr),
         NEW x, x = fr[1].id, Kept(l, ls, k, fr)
  PROVE  Kept(l, ls \cup {x}, k, Tail(fr))
<1>1. /\ \A id : Pending(Tail(fr), id) <=> Pending(fr, id) /\ id # x
      /\ Pending(fr, x)
  BY TailPending
<1>2. \A id : Holds(l, id) => ~Pending(fr, id) /\ id \notin ls  BY DEF Kept
<1>3. \A id : Holds(l, id) => ~Pending(Tail(fr), id) /\ id \notin ls \cup {x}
  BY <1>1, <1>2
<1>4. Gapless(l, ls \cup {x}, k, Tail(fr))
  <2>1. Gapless(l, ls, k, fr)  BY DEF Kept
  <2> QED  BY <1>1, <2>1 DEF Gapless
<1> QED  BY <1>3, <1>4 DEF Kept

\* The two files after one more line: the file may be put aside when it is large.
Rotated(fl, as, fl2, as2, x) ==
  \/ Len(fl) >= MaxLines /\ as2 = fl /\ fl2 = <<x>>
  \/ Len(fl) >= MaxLines /\ as2 \in {as, <<>>} /\ fl2 = Append(fl, x)
  \/ as2 = as /\ fl2 = Append(fl, x)

\* ... and after one that could not be written.
Dropped(fl, as, fl2, as2) ==
  \/ Len(fl) >= MaxLines /\ as2 = fl /\ fl2 = <<>>
  \/ Len(fl) >= MaxLines /\ as2 = <<>> /\ fl2 = fl
  \/ as2 = as /\ fl2 = fl

\* An event whose emit is over is in the file, unless its write failed.
Saved(fl, ls, id) == Holds(fl, id) \/ id \in ls

\* Wherever it is put.
LEMMA WrittenGrows ==
  ASSUME NEW fl, NEW as, NEW ls, NEW fl2, NEW as2, NEW k \in Seq(Bus!Type),
         NEW U, NEW fr \in Seq(BusFrame(U)), fr # <<>>, Apart(fr),
         NEW x \in 1..Len(k), x = fr[1].id,
         x = Len(k) \/ (Overtakes(x, Len(k), k) /\ Saved(fl, ls, Len(k))),
         MaxLines \in Nat, Written(fl, as, ls, k, fr),
         Rotated(fl, as, fl2, as2, x)
  PROVE  Written(fl2, as2, ls, k, Tail(fr)) /\ Saved(fl2, ls, x)
<1> USE DEF Rotated
<1> DEFINE n == Len(k)
           fr2 == Tail(fr)
           lines == as \o fl
           lines2 == as2 \o fl2
<1>1. /\ Kept(fl, ls, k, fr) /\ Kept(lines, ls, k, fr) /\ InOrder(fl, k) /\ as \in Seq(Nat)
      /\ fl \in Seq(Nat) /\ x \in Nat /\ n \in Nat /\ Len(fl) \in Nat /\ Len(lines) \in Nat
      /\ Len(fr) \in Nat /\ lines \in Seq(Nat) /\ Failed(ls, k, fr) /\ x \notin ls
  <2>1. /\ Kept(fl, ls, k, fr) /\ Kept(lines, ls, k, fr) /\ InOrder(fl, k)
        /\ as \in Seq(Nat) /\ Failed(ls, k, fr)
    BY DEF Written
  <2>2. fl \in Seq(Nat) /\ lines \in Seq(Nat)
    <3> HIDE DEF lines
    <3> QED  BY <2>1 DEF Kept
  <2>3. x \in Nat /\ n \in Nat /\ Len(fr) \in Nat  OBVIOUS
  <2>4. Len(fl) \in Nat /\ Len(lines) \in Nat
    <3> HIDE DEF lines
    <3> QED  BY <2>2
  <2>5. x \notin ls
    <3>1. Pending(fr, x)  BY TailPending
    <3> QED  BY <2>1, <3>1 DEF Failed
  <2> QED  BY <2>1, <2>2, <2>3, <2>4, <2>5
<1>2. Len(fr2) = Len(fr) - 1 /\ Failed(ls, k, fr2)
  <2>1. Len(fr2) = Len(fr) - 1 /\ \A id : Pending(fr2, id) <=> Pending(fr, id) /\ id # x
    BY TailPending
  <2> HIDE DEF fr2
  <2> QED  BY <1>1, <2>1 DEF Failed
<1>3. Kept(<<>>, ls, k, fr)
  <2>1. <<>> \in Seq(Nat) /\ Len(<<>>) = 0 /\ \A id : ~Holds(<<>>, id)  BY DEF Holds
  <2> QED  BY <2>1 DEF Kept, Known, Distinct, Gapless
<1>4. x = n \/ Overtakes(x, n, k)  OBVIOUS
<1>5. <<x>> = Append(<<>>, x) /\ lines = as \o fl  OBVIOUS
<1> HIDE DEF lines
<1>6. /\ Kept(Append(fl, x), ls, k, fr2) /\ Kept(Append(lines, x), ls, k, fr2)
      /\ Kept(<<x>>, ls, k, fr2)
  <2>1. \A l : Kept(l, ls, k, fr) => Kept(Append(l, x), ls, k, fr2)
    BY <1>1, <1>4, KeptGrows
  <2> HIDE DEF fr2, n
  <2> QED  BY <1>1, <1>3, <1>5, <2>1
<1>7. InOrder(Append(fl, x), k)
  <2>1. Known(fl, Len(k))  BY <1>1 DEF Kept
  <2> QED  BY <1>1, <1>4, <2>1, OrderGrows
<1>8. InOrder(<<x>>, k)  BY DEF InOrder
<1>9. \/ lines2 = Append(fl, x) /\ Len(fl) >= MaxLines
      \/ lines2 = Append(lines, x)
  <2>1. fl \o <<x>> = Append(fl, x) /\ <<>> \o Append(fl, x) = Append(fl, x)  BY <1>1
  <2>2. as \in Seq(Nat) /\ fl \in Seq(Nat) /\ x \in Nat  BY <1>1
  <2>3. as \o Append(fl, x) = Append(as \o fl, x)
    <3>1. \A a \in Seq(Nat) : a \o Append(fl, x) = Append(a \o fl, x)
      BY <2>2, OneLine, Zenon
    <3> QED  BY <2>2, <3>1, Zenon
  <2>5. \/ as2 \o fl2 = as \o Append(fl, x)
        \/ Len(fl) >= MaxLines /\ (as2 \o fl2 = fl \o <<x>> \/ as2 \o fl2 = <<>> \o Append(fl, x))
    OBVIOUS
  <2> QED  BY <2>1, <2>3, <2>5 DEF lines
<1>10. /\ Len(Append(fl, x)) = Len(fl) + 1 /\ Len(Append(lines, x)) = Len(lines) + 1
       /\ \A id : Holds(Append(fl, x), id) <=> Holds(fl, id) \/ id = x
       /\ \A id : Holds(Append(lines, x), id) <=> Holds(lines, id) \/ id = x
       /\ \A id : Holds(fl, id) => Holds(lines, id)
  <2>1. Len(Append(fl, x)) = Len(fl) + 1 /\ Len(Append(lines, x)) = Len(lines) + 1
    BY <1>1
  <2>2. /\ \A id : Holds(Append(fl, x), id) <=> Holds(fl, id) \/ id = x
        /\ \A id : Holds(Append(lines, x), id) <=> Holds(lines, id) \/ id = x
    <3>1. fl \in Seq(Nat) /\ x \in Nat /\ lines \in Seq(Nat)  BY <1>1
    <3> QED  BY <3>1, OneLine
  <2>3. \A id : Holds(as \o fl, id) <=> Holds(as, id) \/ Holds(fl, id)
    BY <1>1, JoinKeeps
  <2> QED  BY <2>1, <2>2, <2>3 DEF lines
<1>11. Saved(fl2, ls, x)
  <2>1. Holds(<<x>>, x)  BY DEF Holds
  <2> QED  BY <1>10, <2>1 DEF Saved
<1>12. Holds(lines2, n) \/ n \in ls
  <2>1. x = n \/ Holds(fl, n) \/ n \in ls  BY DEF Saved
  <2> HIDE DEF lines2, n
  <2> QED  BY <1>9, <1>10, <2>1
<1>13. Len(lines2) >= MaxLines \/ Len(lines2) + Cardinality(ls) + Len(fr2) >= n
  <2>1. Len(lines) >= MaxLines \/ Len(lines) + Cardinality(ls) + Len(fr) >= n
    BY DEF Written, lines
  <2>2. Cardinality(ls) \in Nat  BY <1>1 DEF Failed
  <2> DEFINE c == Cardinality(ls)
  <2>3. Len(lines) >= MaxLines \/ Len(lines) + c + Len(fr) >= n  BY <2>1
  <2>4. c \in Nat  BY <2>2
  <2> HIDE DEF lines2, n, fr2, c
  <2>5. Len(lines2) >= MaxLines \/ Len(lines2) + c + Len(fr2) >= n
    <3>1. CASE lines2 = Append(fl, x) /\ Len(fl) >= MaxLines  BY <1>1, <1>10, <3>1
    <3>2. CASE lines2 = Append(lines, x)
      <4>1. Len(lines2) = Len(lines) + 1 /\ Len(fr2) = Len(fr) - 1  BY <1>2, <1>10, <3>2
      <4> QED  BY <1>1, <2>3, <2>4, <4>1
    <3> QED  BY <1>9, <3>1, <3>2
  <2> QED  BY <2>5 DEF c
<1>14. /\ Kept(fl2, ls, k, fr2) /\ InOrder(fl2, k) /\ Kept(lines2, ls, k, fr2)
       /\ as2 \in Seq(Nat)
  <2>1. <<>> \in Seq(Nat)  OBVIOUS
  <2>2. fl2 = <<x>> \/ fl2 = Append(fl, x)  OBVIOUS
  <2>3. as2 = fl \/ as2 = as \/ as2 = <<>>  OBVIOUS
  <2> HIDE DEF lines2, fr2
  <2> QED  BY <1>1, <1>6, <1>7, <1>8, <1>9, <2>1, <2>2, <2>3
<1> QED  BY <1>2, <1>11, <1>12, <1>13, <1>14 DEF Written, lines2, fr2, n

\* ... or if it is put nowhere.
LEMMA WrittenLoses ==
  ASSUME NEW fl, NEW as, NEW ls, NEW fl2, NEW as2, NEW k \in Seq(Bus!Type),
         NEW U, NEW fr \in Seq(BusFrame(U)), fr # <<>>, Apart(fr),
         NEW x \in 1..Len(k), x = fr[1].id,
         x = Len(k) \/ (Overtakes(x, Len(k), k) /\ Saved(fl, ls, Len(k))),
         MaxLines \in Nat, Written(fl, as, ls, k, fr), Dropped(fl, as, fl2, as2)
  PROVE  Written(fl2, as2, ls \cup {x}, k, Tail(fr)) /\ Saved(fl2, ls \cup {x}, x)
<1> DEFINE n == Len(k)
           ls2 == ls \cup {x}
           fr2 == Tail(fr)
           lines == as \o fl
           lines2 == as2 \o fl2
<1>1. /\ Kept(fl, ls, k, fr) /\ Kept(lines, ls, k, fr) /\ InOrder(fl, k)
      /\ as \in Seq(Nat) /\ Failed(ls, k, fr)
      /\ n # 0 => Pending(fr, n) \/ Holds(lines, n) \/ n \in ls
      /\ Len(lines) >= MaxLines \/ Len(lines) + Cardinality(ls) + Len(fr) >= n
  BY DEF Written
<1>2. fl \in Seq(Nat) /\ <<>> \in Seq(Nat) /\ n \in Nat /\ Len(fr) \in Nat  BY <1>1 DEF Kept
<1>3. lines2 = lines \/ (lines2 = fl /\ Len(fl) >= MaxLines)
  <2>1. fl \o <<>> = fl /\ <<>> \o fl = fl  BY <1>2
  <2> QED  BY <2>1 DEF Dropped
<1>4. /\ as2 \in Seq(Nat) /\ InOrder(fl2, k) /\ (fl2 = fl \/ fl2 = <<>>)
  <2>1. InOrder(<<>>, k)  BY DEF InOrder
  <2> QED  BY <1>1, <1>2, <2>1 DEF Dropped
<1>5. /\ Len(fr2) = Len(fr) - 1
      /\ \A id : Pending(fr2, id) <=> Pending(fr, id) /\ id # x
      /\ Pending(fr, x)
  BY TailPending
<1>6. Kept(<<>>, ls, k, fr)
  <2>1. <<>> \in Seq(Nat) /\ Len(<<>>) = 0 /\ \A id : ~Holds(<<>>, id)  BY DEF Holds
  <2> QED  BY <2>1 DEF Kept, Known, Distinct, Gapless
<1> HIDE DEF lines, lines2
<1>7. Kept(fl2, ls2, k, fr2) /\ Kept(lines2, ls2, k, fr2)
  <2>1. \A l : Kept(l, ls, k, fr) => Kept(l, ls2, k, fr2)  BY KeptLoses
  <2> HIDE DEF ls2, fr2
  <2> QED  BY <1>1, <1>3, <1>4, <1>6, <2>1
<1> HIDE DEF fr2
<1>8. /\ x \notin ls /\ IsFiniteSet(ls) /\ Cardinality(ls) \in Nat
      /\ \A id \in ls : ~Pending(fr, id)
      /\ ls \in SUBSET (1..Len(k))
  BY <1>1, <1>5 DEF Failed
<1>9. IsFiniteSet(ls2) /\ Cardinality(ls2) = Cardinality(ls) + 1  BY <1>8, FS_AddElement
<1>10. Failed(ls2, k, fr2)
  <2>1. ls2 \in SUBSET (1..Len(k)) /\ \A id \in ls2 : ~Pending(fr2, id)  BY <1>5, <1>8
  <2>2. Cardinality(ls2) \in Nat  BY <1>8, <1>9
  <2> QED  BY <1>9, <2>1, <2>2 DEF Failed
<1>11. Holds(lines2, n) \/ n \in ls2
  <2>1. x = n \/ Holds(fl, n) \/ n \in ls  BY DEF Saved
  <2>2. Holds(fl, n) => Holds(lines, n)
    <3>1. \A id : Holds(as \o fl, id) <=> Holds(as, id) \/ Holds(fl, id)
      BY <1>1, <1>2, JoinKeeps
    <3> QED  BY <3>1 DEF lines
  <2> QED  BY <1>3, <2>1, <2>2
<1>12. Len(lines2) >= MaxLines \/ Len(lines2) + Cardinality(ls2) + Len(fr2) >= n
  <2>1. lines \in Seq(Nat)  BY <1>1 DEF Kept
  <2>2. Len(lines) \in Nat  BY <2>1
  <2> HIDE DEF ls2, n
  <2> QED  BY <1>1, <1>2, <1>3, <1>5, <1>8, <1>9, <2>2
<1> QED  BY <1>4, <1>7, <1>10, <1>11, <1>12 DEF Written, Saved, lines2, fr2, n, ls2

\* Whom an event is still to be given to is registered for it.
AllWanted(left2, list, type) ==
  \A w : Holds(left2, w) => \E p \in Bus!Pattern : Registered(list, w, p) /\ type \in Bus!Covers(p)

\* One event is being emitted, and from its engine's call a suggestion may be; the
\* suggestion is in the file, or failed, before the event is.
FramesOK(fr, k, list, th, fl, ls) ==
  /\ Len(fr) <= 2 /\ AboutKnown(fr, Len(k))
  /\ \A m \in 1..Len(fr) : AllWanted(fr[m].left, list, k[fr[m].id])
  /\ \A m \in 1..Len(fr) : fr[m].at = "transports" => fr[m].left = <<>>
  /\ Len(fr) = 1 =>
       \/ fr[1].id = Len(k)
       \/ Overtakes(fr[1].id, Len(k), k) /\ th = TRUE /\ Saved(fl, ls, Len(k))
  /\ Len(fr) = 2 => fr[1].id = Len(k) /\ Overtakes(fr[2].id, Len(k), k) /\ th = TRUE

\* They are about different events.
LEMMA FramesApart ==
  ASSUME NEW k \in Seq(Bus!Type), NEW U, NEW fr \in Seq(BusFrame(U)), NEW list,
         NEW th, NEW fl, NEW ls,
         FramesOK(fr, k, list, th, fl, ls)
  PROVE  Apart(fr)
<1>1. Len(fr) \in Nat /\ Len(k) \in Nat  OBVIOUS
<1>2. Len(fr) <= 2  BY DEF FramesOK
<1>3. ASSUME NEW m \in 1..Len(fr), m # 1 PROVE fr[m].id # fr[1].id
  <2>1. m = 2 /\ Len(fr) = 2
    <3>1. \A q \in Nat : \A i \in 1..q : q <= 2 /\ i # 1 => i = 2 /\ q = 2  OBVIOUS
    <3> QED  BY <1>1, <1>2, <1>3, <3>1
  <2>2. fr[1].id = Len(k) /\ Len(k) = fr[2].id + 1  BY <2>1 DEF FramesOK, Overtakes
  <2>3. fr[2].id \in 1..Len(k)  BY <2>1 DEF FramesOK, AboutKnown
  <2>4. fr[2].id # Len(k)  BY <1>1, <2>2, <2>3
  <2> QED  BY <2>1, <2>2, <2>4
<1> QED  BY <1>3 DEF Apart

\* The next handler of the first call of emit is called.
LEMMA FramesCalled ==
  ASSUME NEW U, NEW fr \in Seq(BusFrame(U)), fr # <<>>, fr[1].at = "handlers",
         fr[1].left # <<>>, NEW f,
         f = [id |-> fr[1].id, left |-> Tail(fr[1].left), at |-> "handlers"]
  PROVE  /\ f \in BusFrame(U) /\ <<f>> \o Tail(fr) \in Seq(BusFrame(U))
         /\ CalledOne(fr, <<f>> \o Tail(fr)) /\ SameIds(fr, <<f>> \o Tail(fr))
         /\ Tail(fr) \in Seq(BusFrame(U))
         /\ fr[1].id \in Nat /\ fr[1].left \in Seq(U) /\ Tail(fr[1].left) \in Seq(U)
<1> DEFINE E == BusFrame(U)
           t == Tail(fr)
           fr2 == <<f>> \o t
<1>1. /\ Len(fr) \in Nat \ {0} /\ t \in Seq(E) /\ Len(t) = Len(fr) - 1 /\ fr[1] \in E
      /\ \A m \in 1..(Len(fr) - 1) : t[m] = fr[m + 1]
  <2>1. fr \in Seq(E)  OBVIOUS
  <2> HIDE DEF E
  <2> QED  BY <2>1
<1>2. fr[1].id \in Nat /\ fr[1].left \in Seq(U)  BY <1>1 DEF BusFrame
<1>3. Tail(fr[1].left) \in Seq(U)  BY <1>2
<1>4. f \in E /\ f.id = fr[1].id /\ f.left = Tail(fr[1].left) /\ f.at = "handlers"
  <2> DEFINE i == fr[1].id
             l == Tail(fr[1].left)
  <2>1. i \in Nat /\ l \in Seq(U)  BY <1>2, <1>3
  <2>2. f = [id |-> i, left |-> l, at |-> "handlers"]  OBVIOUS
  <2> HIDE DEF i, l
  <2>3. f.id = i /\ f.left = l /\ f.at = "handlers"  BY <2>2
  <2>4. [id |-> i, left |-> l, at |-> "handlers"] \in BusFrame(U)
    <3> DEFINE V == Seq(U)
    <3>1. i \in Nat /\ l \in V  BY <2>1
    <3> HIDE DEF V
    <3>2. [id |-> i, left |-> l, at |-> "handlers"]
            \in [id : Nat, left : V, at : {"handlers", "transports"}]
      BY <3>1
    <3> QED  BY <3>2 DEF V, BusFrame
  <2>5. f \in BusFrame(U)  BY <2>2, <2>4, Zenon
  <2> QED  BY <2>3, <2>5 DEF i, l
<1> HIDE DEF E, t
<1>5. /\ fr2 \in Seq(E) /\ Len(fr2) = Len(t) + 1 /\ fr2[1] = f
      /\ \A m \in 1..Len(t) : fr2[m + 1] = t[m]
  BY <1>1, <1>4
<1> HIDE DEF fr2
<1>6. \A m \in 1..Len(fr) : m # 1 => fr2[m] = fr[m]
  <2> TAKE m \in 1..Len(fr)
  <2> HAVE m # 1
  <2>1. m - 1 \in 1..(Len(fr) - 1) /\ (m - 1) + 1 = m /\ m - 1 \in 1..Len(t)  BY <1>1
  <2>2. fr2[(m - 1) + 1] = t[m - 1] /\ t[m - 1] = fr[(m - 1) + 1]  BY <1>1, <1>5, <2>1
  <2> QED  BY <2>1, <2>2
<1>7. Len(fr2) = Len(fr)  BY <1>1, <1>5
<1>8. CalledOne(fr, fr2)  BY <1>4, <1>5, <1>6, <1>7 DEF CalledOne
<1>9. SameIds(fr, fr2)  BY <1>8 DEF CalledOne, SameIds
<1> QED  BY <1>1, <1>2, <1>3, <1>4, <1>5, <1>8, <1>9 DEF E, t, fr2

\* A call made changes nothing of that.
LEMMA FramesStay ==
  ASSUME NEW U, NEW fr \in Seq(BusFrame(U)), NEW fr2, CalledOne(fr, fr2),
         NEW k, NEW list, NEW th, NEW fl, NEW ls, FramesOK(fr, k, list, th, fl, ls)
  PROVE  FramesOK(fr2, k, list, th, fl, ls)
<1>1. Len(fr) \in Nat /\ 1 \in 1..Len(fr) /\ Len(fr2) = Len(fr)  BY DEF CalledOne
<1>2. \A m \in 1..Len(fr) : fr2[m].id = fr[m].id  BY DEF CalledOne
<1>3. \A w : Holds(fr2[1].left, w) => Holds(fr[1].left, w)
  <2> DEFINE l == fr[1].left
  <2>1. fr[1] \in BusFrame(U)  BY <1>1
  <2>2. l \in Seq(U)  BY <2>1 DEF BusFrame
  <2>3. l # <<>> /\ fr2[1].left = Tail(l)  BY DEF CalledOne
  <2> HIDE DEF l
  <2>4. ASSUME NEW w PROVE Holds(Tail(l), w) => Holds(l, w)
    <3>1. Holds(l, w) <=> w = Head(l) \/ Holds(Tail(l), w)  BY <2>2, <2>3, TailCounts
    <3> QED  BY <3>1
  <2> QED  BY <2>3, <2>4 DEF l
<1>4. \A m \in 1..Len(fr) : AllWanted(fr2[m].left, list, k[fr2[m].id])
  <2> TAKE m \in 1..Len(fr)
  <2>1. AllWanted(fr[m].left, list, k[fr[m].id])  BY DEF FramesOK
  <2>2. CASE m = 1  BY <1>2, <1>3, <2>1, <2>2 DEF AllWanted
  <2>3. CASE m # 1
    <3>1. fr2[m].left = fr[m].left  BY <2>3 DEF CalledOne
    <3> QED  BY <1>2, <2>1, <3>1
  <2> QED  BY <2>2, <2>3
<1>5. \A m \in 1..Len(fr) : fr2[m].at = "transports" => fr2[m].left = <<>>
  <2> TAKE m \in 1..Len(fr)
  <2>1. CASE m = 1  BY <2>1 DEF CalledOne
  <2>2. CASE m # 1  BY <2>2 DEF CalledOne, FramesOK
  <2> QED  BY <2>1, <2>2
<1>6. AboutKnown(fr2, Len(k))  BY <1>1, <1>2 DEF FramesOK, AboutKnown
<1>7. Len(fr) = 2 => 2 \in 1..Len(fr)  BY <1>1
<1>8. fr2[1].id = fr[1].id /\ (Len(fr) = 2 => fr2[2].id = fr[2].id)  BY <1>1, <1>2, <1>7
<1> QED  BY <1>1, <1>4, <1>5, <1>6, <1>8 DEF FramesOK

\* A call of emit begins.
LEMMA FramesEmit ==
  ASSUME NEW k \in Seq(Bus!Type), NEW k2, NEW type, Emitted(k, k2, type),
         NEW U, NEW fr \in Seq(BusFrame(U)), NEW f \in BusFrame(U), f.id = Len(k) + 1,
         f.at = "handlers", NEW list, AllWanted(f.left, list, type), NEW th,
         NEW th2, NEW fl, NEW ls,
         FramesOK(fr, k, list, th, fl, ls),
         fr = <<>> \/ (Len(fr) = 1 /\ fr[1].id = Len(k) /\ type = "skill.suggested" /\ th2 = TRUE)
  PROVE  FramesOK(<<f>> \o fr, k2, list, th2, fl, ls)
<1> DEFINE n == Len(k)
           E == BusFrame(U)
           fr2 == <<f>> \o fr
<1>1. /\ n \in Nat /\ Len(fr) \in Nat /\ Len(fr2) = Len(fr) + 1 /\ fr2[1] = f
      /\ \A m \in 1..Len(fr) : fr2[m + 1] = fr[m]
  <2>1. f \in E /\ fr \in Seq(E) /\ n \in Nat  OBVIOUS
  <2> HIDE DEF E, n
  <2> QED  BY <2>1
<1>2. Len(k2) = n + 1 /\ k2[n + 1] = type /\ \A i \in 1..n : k2[i] = k[i]  BY DEF Emitted
<1> HIDE DEF fr2
<1>3. \A m \in 1..(Len(fr) + 1) : m = 1 \/ (m - 1 \in 1..Len(fr) /\ m = (m - 1) + 1)
  BY <1>1
<1>4. \A m \in 1..Len(fr) : fr[m].id \in 1..n  BY DEF FramesOK, AboutKnown
<1>5. ASSUME NEW m \in 1..(Len(fr) + 1)
      PROVE  /\ fr2[m].id \in 1..(n + 1)
             /\ AllWanted(fr2[m].left, list, k2[fr2[m].id])
             /\ fr2[m].at = "transports" => fr2[m].left = <<>>
  <2>1. CASE m = 1
    <3>1. fr2[m] = f  BY <1>1, <2>1
    <3>2. n + 1 \in 1..(n + 1)  BY <1>1
    <3> QED  BY <1>2, <3>1, <3>2
  <2>2. CASE m - 1 \in 1..Len(fr) /\ m = (m - 1) + 1
    <3>1. fr2[m] = fr[m - 1]  BY <1>1, <2>2
    <3>2. fr[m - 1].id \in 1..n /\ fr[m - 1].id \in 1..(n + 1)  BY <1>1, <1>4, <2>2
    <3>3. k2[fr[m - 1].id] = k[fr[m - 1].id]  BY <1>2, <3>2
    <3>4. /\ AllWanted(fr[m - 1].left, list, k[fr[m - 1].id])
          /\ fr[m - 1].at = "transports" => fr[m - 1].left = <<>>
      BY <2>2 DEF FramesOK
    <3> QED  BY <3>1, <3>2, <3>3, <3>4
  <2> QED  BY <1>3, <2>1, <2>2
<1>6. CASE fr = <<>>
  <2>1. Len(fr) = 0  BY <1>6
  <2> QED  BY <1>1, <1>2, <1>5, <2>1 DEF FramesOK, AboutKnown, fr2
<1>7. CASE Len(fr) = 1 /\ fr[1].id = n /\ type = "skill.suggested" /\ th2 = TRUE
  <2>1. Len(fr2) = 2 /\ fr2[2] = fr[1]
    <3>1. 1 \in 1..Len(fr) /\ 1 + 1 = 2  BY <1>7
    <3>2. fr2[1 + 1] = fr[1]  BY <1>1, <3>1
    <3> QED  BY <1>1, <1>7, <3>1, <3>2
  <2>2. Overtakes(n, n + 1, k2)  BY <1>2, <1>7 DEF Overtakes
  <2> QED  BY <1>1, <1>2, <1>5, <1>7, <2>1, <2>2 DEF FramesOK, AboutKnown, fr2
<1> QED  BY <1>6, <1>7

\* The first call of emit returns, its event written or lost.
LEMMA FramesEnd ==
  ASSUME NEW k \in Seq(Bus!Type), NEW U, NEW fr \in Seq(BusFrame(U)), fr # <<>>,
         NEW list, NEW th, NEW fl, NEW ls, NEW fl2, NEW ls2,
         FramesOK(fr, k, list, th, fl, ls),
         Saved(fl2, ls2, fr[1].id)
  PROVE  FramesOK(Tail(fr), k, list, th, fl2, ls2) /\ Tail(fr) \in Seq(BusFrame(U))
<1> DEFINE t == Tail(fr)
           E == BusFrame(U)
<1>1. Apart(fr)  BY FramesApart
<1>2. /\ Len(t) = Len(fr) - 1 /\ Len(fr) \in Nat \ {0}
      /\ \A m \in 1..Len(t) : m + 1 \in 1..Len(fr) /\ t[m] = fr[m + 1]
  BY <1>1, TailPending
<1>3. t \in Seq(E)
  <2>1. fr \in Seq(E)  OBVIOUS
  <2> HIDE DEF E
  <2> QED  BY <2>1
<1>4. Len(fr) <= 2  BY DEF FramesOK
<1> HIDE DEF t
<1>5. \A m \in 1..Len(t) : /\ t[m].id \in 1..Len(k)
                           /\ AllWanted(t[m].left, list, k[t[m].id])
                           /\ t[m].at = "transports" => t[m].left = <<>>
  <2> TAKE m \in 1..Len(t)
  <2>1. m + 1 \in 1..Len(fr) /\ t[m] = fr[m + 1]  BY <1>2
  <2> QED  BY <2>1 DEF FramesOK, AboutKnown
<1>6. ASSUME Len(t) = 1
      PROVE  Overtakes(t[1].id, Len(k), k) /\ th = TRUE /\ Saved(fl2, ls2, Len(k))
  <2>1. Len(fr) = 2 /\ 1 \in 1..Len(t) /\ 1 + 1 = 2
    <3>1. Len(fr) - 1 = 1 /\ Len(fr) \in Nat  BY <1>2, <1>6
    <3> QED  BY <1>6, <3>1
  <2>2. t[1] = fr[1 + 1]  BY <1>2, <2>1
  <2>3. t[1] = fr[2]  BY <2>1, <2>2
  <2> QED  BY <2>1, <2>3 DEF FramesOK
<1>7. Len(t) <= 2 /\ Len(t) # 2  BY <1>2, <1>4
<1> QED  BY <1>3, <1>5, <1>6, <1>7 DEF FramesOK, AboutKnown, t

\* The events that are no suggestions.
Plain(k) == {i \in DOMAIN k : k[i] # "skill.suggested"}

\* A suggestion follows an event that is none.
KindsOK(k) ==
  /\ \A i \in 1..Len(k) : k[i] = "skill.suggested" => i # 1 /\ k[i - 1] # "skill.suggested"
  /\ Cardinality(Plain(k)) <= MaxEvents

\* They are finitely many.
LEMMA PlainIs ==
  ASSUME NEW k \in Seq(Bus!Type)
  PROVE  IsFiniteSet(Plain(k)) /\ Cardinality(Plain(k)) \in Nat /\ Plain(k) \subseteq 1..Len(k)
<1>1. Plain(k) \subseteq 1..Len(k) /\ Len(k) \in Nat  BY DEF Plain
<1>2. IsFiniteSet(1..Len(k))  BY <1>1, FS_Interval
<1>3. IsFiniteSet(Plain(k))  BY <1>1, <1>2, FS_Subset
<1> QED  BY <1>1, <1>3, FS_CardinalityType

\* So it stays when an event is published, or a suggestion is made.
LEMMA KindsGrow ==
  ASSUME NEW k \in Seq(Bus!Type), NEW k2, NEW type, Emitted(k, k2, type),
         MaxEvents \in Nat, KindsOK(k),
         \/ type # "skill.suggested" /\ Cardinality(Plain(k)) < MaxEvents
         \/ type = "skill.suggested" /\ Len(k) # 0 /\ k[Len(k)] # "skill.suggested"
  PROVE  KindsOK(k2)
<1> DEFINE n == Len(k)
<1>1. n \in Nat  OBVIOUS
<1>2. /\ k2 \in Seq(Bus!Type) /\ Len(k2) = n + 1 /\ k2[n + 1] = type
      /\ \A i \in 1..n : k2[i] = k[i]
  BY DEF Emitted
<1>3. DOMAIN k = 1..n /\ DOMAIN k2 = 1..(n + 1)  BY <1>1, <1>2
<1>4. n # 0 => k[n] # "skill.suggested" \/ type # "skill.suggested"  OBVIOUS
<1>5. type = "skill.suggested" => n # 0  OBVIOUS
<1> HIDE DEF n
<1>6. ASSUME NEW i \in 1..(n + 1), k2[i] = "skill.suggested"
      PROVE  i # 1 /\ k2[i - 1] # "skill.suggested"
  <2>1. CASE i \in 1..n
    <3>1. k[i] = "skill.suggested"  BY <1>2, <1>6, <2>1
    <3>2. i # 1 /\ k[i - 1] # "skill.suggested"  BY <2>1, <3>1 DEF KindsOK, n
    <3>3. i - 1 \in 1..n  BY <1>1, <2>1, <3>2
    <3> QED  BY <1>2, <3>2, <3>3
  <2>2. CASE i = n + 1
    <3>1. type = "skill.suggested" /\ n # 0  BY <1>2, <1>5, <1>6, <2>2
    <3>2. n \in 1..n /\ (n + 1) - 1 = n /\ n + 1 # 1  BY <1>1, <3>1
    <3>3. k2[n] # "skill.suggested"  BY <1>2, <1>4, <3>1, <3>2
    <3>4. k2[(n + 1) - 1] # "skill.suggested"  BY <3>2, <3>3
    <3> QED  BY <2>2, <3>2, <3>4
  <2> QED  BY <1>1, <2>1, <2>2
<1>7. Cardinality(Plain(k2)) <= MaxEvents
  <2>1. /\ \A i \in 1..(n + 1) : i \in 1..n \/ i = n + 1
        /\ \A i \in 1..n : i \in 1..(n + 1) /\ i # n + 1
        /\ n + 1 \in 1..(n + 1)
    BY <1>1
  <2>2. CASE type # "skill.suggested" /\ Cardinality(Plain(k)) < MaxEvents
    <3>1. Plain(k2) = Plain(k) \cup {n + 1}  BY <1>2, <1>3, <2>1, <2>2 DEF Plain
    <3>2. n + 1 \notin Plain(k)  BY <1>3, <2>1 DEF Plain
    <3>3. Cardinality(Plain(k) \cup {n + 1}) = Cardinality(Plain(k)) + 1
      BY <3>2, PlainIs, FS_AddElement
    <3>4. Cardinality(Plain(k)) \in Nat  BY PlainIs
    <3> QED  BY <2>2, <3>1, <3>3, <3>4
  <2>3. CASE type = "skill.suggested"
    <3>1. Plain(k2) = Plain(k)  BY <1>2, <1>3, <2>1, <2>3 DEF Plain
    <3> QED  BY <3>1 DEF KindsOK
  <2> QED  BY <2>2, <2>3
<1> QED  BY <1>2, <1>6, <1>7 DEF KindsOK

\* So there are at most as many suggestions as there are other events.
LEMMA KindsBounded ==
  ASSUME NEW k \in Seq(Bus!Type), MaxEvents \in Nat, KindsOK(k)
  PROVE  Len(k) \in Nat /\ Len(k) <= 2 * MaxEvents
<1> DEFINE n == Len(k)
           P == Plain(k)
           R == (1..n) \ P
           B == {i - 1 : i \in R}
<1>1. n \in Nat /\ DOMAIN k = 1..n  OBVIOUS
<1>2. IsFiniteSet(P) /\ Cardinality(P) \in Nat /\ P \subseteq 1..n  BY PlainIs
<1>3. IsFiniteSet(1..n) /\ Cardinality(1..n) = n  BY <1>1, FS_Interval
<1>4. Cardinality(P) <= MaxEvents  BY DEF KindsOK
<1>5. \A i \in R : i \in Nat /\ i # 1 /\ i - 1 \in 1..n /\ i - 1 \in P
  <2> TAKE i \in R
  <2>1. i \in 1..n /\ k[i] = "skill.suggested"  BY <1>1 DEF Plain
  <2>2. i # 1 /\ k[i - 1] # "skill.suggested"  BY <2>1 DEF KindsOK
  <2>3. i - 1 \in 1..n  BY <1>1, <2>1, <2>2
  <2> QED  BY <1>1, <2>1, <2>2, <2>3 DEF Plain
<1>6. IsFiniteSet(R)
  <2>1. R \subseteq 1..n  OBVIOUS
  <2> QED  BY <1>3, <2>1, FS_Subset
<1> HIDE DEF n, P
<1>7. Cardinality(B) = Cardinality(R)
  <2> DEFINE f == [i \in R |-> i - 1]
  <2>1. f \in [R -> B]  OBVIOUS
  <2>2. \A y \in B : \E i \in R : f[i] = y  OBVIOUS
  <2>3. \A i, j \in R : f[i] = f[j] => i = j
    <3>1. \A i, j \in R : i \in Nat /\ j \in Nat  BY <1>5
    <3> HIDE DEF R
    <3>2. \A i, j \in R : i - 1 = j - 1 => i = j  BY <3>1
    <3> QED  BY <3>2
  <2> HIDE DEF f, B, R
  <2>4. f \in Bijection(R, B)
    BY <2>1, <2>2, <2>3, Zenon DEF Bijection, Injection, Surjection, IsInjective
  <2>5. ExistsBijection(R, B)  BY <2>4 DEF ExistsBijection
  <2> QED  BY <1>6, <2>5, FS_Bijection
<1>8. B \subseteq P  BY <1>5
<1>9. 1..n = P \cup R /\ P \cap R = {}  BY <1>2
<1> HIDE DEF B, R
<1>10. Cardinality(B) <= Cardinality(P)  BY <1>2, <1>8, FS_Subset
<1>11. Cardinality(P \cup R) = Cardinality(P) + Cardinality(R) - Cardinality(P \cap R)
  BY <1>2, <1>6, FS_Union
<1>12. Cardinality(P \cap R) = 0  BY <1>9, FS_EmptySet
<1>13. Cardinality(R) \in Nat  BY <1>6, FS_CardinalityType
<1>14. n <= 2 * MaxEvents
  <2>1. n = Cardinality(P) + Cardinality(R)
    <3>1. Cardinality(P \cup R) = n  BY <1>3, <1>9
    <3>2. n = Cardinality(P) + Cardinality(R) - 0  BY <1>11, <1>12, <3>1
    <3> QED  BY <1>2, <1>13, <3>2
  <2>2. \A a, b, c \in Nat : a <= c /\ b <= a => a + b <= 2 * c  OBVIOUS
  <2> QED  BY <1>2, <1>4, <1>7, <1>10, <1>13, <2>1, <2>2
<1> QED  BY <1>1, <1>14 DEF n

\* Events that follow each other, up to the last one.
Last(ring, gone, n) ==
  /\ ring \in Seq(Nat) /\ gone \in Nat /\ Len(ring) + gone = n
  /\ \A i \in 1..Len(ring) : ring[i] = gone + i

\* The buffer holds the last events.
BufferOK(ring, gone, n) == Last(ring, gone, n) /\ Len(ring) <= BufferSize

\* One more.
LEMMA LastGrows ==
  ASSUME NEW n \in Nat, NEW ring, NEW gone, Last(ring, gone, n)
  PROVE  Last(Append(ring, n + 1), gone, n + 1) /\ Len(Append(ring, n + 1)) = Len(ring) + 1
<1> DEFINE m == Len(ring)
           more == Append(ring, n + 1)
<1>1. /\ ring \in Seq(Nat) /\ gone \in Nat /\ m \in Nat /\ m + gone = n
      /\ \A i \in 1..m : ring[i] = gone + i
  BY DEF Last
<1>2. /\ more \in Seq(Nat) /\ Len(more) = m + 1 /\ more[m + 1] = n + 1
      /\ \A i \in 1..m : more[i] = ring[i]
  <2>1. n + 1 \in Nat  OBVIOUS
  <2> DEFINE y == n + 1
  <2>2. y \in Nat  BY <2>1
  <2> HIDE DEF y
  <2> QED  BY <1>1, <2>2 DEF y
<1> HIDE DEF more, m
<1>3. \A i \in 1..(m + 1) : i \in 1..m \/ i = m + 1  BY <1>1
<1>4. gone + (m + 1) = n + 1 /\ (m + 1) + gone = n + 1  BY <1>1
<1>5. \A i \in 1..(m + 1) : more[i] = gone + i
  <2> TAKE i \in 1..(m + 1)
  <2>1. CASE i \in 1..m  BY <1>1, <1>2, <2>1
  <2>2. CASE i = m + 1  BY <1>2, <1>4, <2>2
  <2> QED  BY <1>3, <2>1, <2>2
<1>6. Last(more, gone, n + 1)  BY <1>1, <1>2, <1>4, <1>5 DEF Last
<1> QED  BY <1>2, <1>6 DEF more, m

\* One less.
LEMMA LastShifts ==
  ASSUME NEW n \in Nat, NEW ring, NEW gone, Last(ring, gone, n), ring # <<>>
  PROVE  Last(Tail(ring), gone + 1, n) /\ Len(Tail(ring)) = Len(ring) - 1
<1> DEFINE m == Len(ring)
           t == Tail(ring)
<1>1. /\ ring \in Seq(Nat) /\ gone \in Nat /\ m \in Nat /\ m + gone = n
      /\ \A i \in 1..m : ring[i] = gone + i
  BY DEF Last
<1>2. /\ t \in Seq(Nat) /\ Len(t) = m - 1 /\ m # 0
      /\ \A i \in 1..(m - 1) : t[i] = ring[i + 1]
  BY <1>1
<1> HIDE DEF t, m
<1>3. \A i \in 1..(m - 1) : i + 1 \in 1..m /\ gone + (i + 1) = (gone + 1) + i  BY <1>1
<1>4. (m - 1) + (gone + 1) = n /\ gone + 1 \in Nat  BY <1>1
<1>5. \A i \in 1..(m - 1) : t[i] = (gone + 1) + i  BY <1>1, <1>2, <1>3
<1>6. Last(t, gone + 1, n)  BY <1>2, <1>4, <1>5 DEF Last
<1> QED  BY <1>2, <1>6 DEF t, m

\* So the buffer holds the last events after one more.
LEMMA BufferGrows ==
  ASSUME NEW n \in Nat, NEW ring, NEW gone, BufferOK(ring, gone, n),
         BufferSize \in Nat \ {0}, NEW ring2, NEW gone2,
         ring2 = Append(IF Len(ring) = BufferSize THEN Tail(ring) ELSE ring, n + 1),
         gone2 = IF Len(ring) = BufferSize THEN gone + 1 ELSE gone
  PROVE  BufferOK(ring2, gone2, n + 1)
<1>1. Last(ring, gone, n) /\ Len(ring) <= BufferSize /\ Len(ring) \in Nat
  BY DEF BufferOK, Last
<1>2. CASE Len(ring) # BufferSize
  <2>1. ring2 = Append(ring, n + 1) /\ gone2 = gone  BY <1>2
  <2>2. Last(ring2, gone2, n + 1) /\ Len(ring2) = Len(ring) + 1
    BY <1>1, <2>1, LastGrows
  <2> QED  BY <1>1, <1>2, <2>2 DEF BufferOK
<1>3. CASE Len(ring) = BufferSize
  <2>1. ring2 = Append(Tail(ring), n + 1) /\ gone2 = gone + 1  BY <1>3
  <2>2. ring # <<>>  BY <1>3
  <2>3. Last(Tail(ring), gone + 1, n) /\ Len(Tail(ring)) = Len(ring) - 1
    BY <1>1, <2>2, LastShifts
  <2> DEFINE t == Tail(ring)
             g == gone + 1
  <2>4. Last(t, g, n)  BY <2>3
  <2> HIDE DEF t, g
  <2>5. Last(Append(t, n + 1), g, n + 1) /\ Len(Append(t, n + 1)) = Len(t) + 1
    BY <2>4, LastGrows
  <2>6. Last(ring2, gone2, n + 1) /\ Len(ring2) = Len(t) + 1
    BY <2>1, <2>5 DEF t, g
  <2>7. Len(t) = Len(ring) - 1  BY <2>3 DEF t
  <2> QED  BY <1>1, <2>6, <2>7 DEF BufferOK
<1> QED  BY <1>2, <1>3

\* Its events are known.
LEMMA BufferKnown ==
  ASSUME NEW n \in Nat, NEW ring, NEW gone, BufferOK(ring, gone, n)
  PROVE  Known(ring, n)
<1> DEFINE m == Len(ring)
<1>1. /\ ring \in Seq(Nat) /\ gone \in Nat /\ m \in Nat /\ m + gone = n
      /\ \A i \in 1..m : ring[i] = gone + i
  BY DEF BufferOK, Last
<1> HIDE DEF m
<1>2. \A i \in 1..m : gone + i \in 1..n  BY <1>1
<1> QED  BY <1>1, <1>2 DEF Known, m

-----------------------------------------------------------------------------
\* What a stream has been given, or will be when it polls.
StreamOK(mine, st, from, want, k, fr, s) ==
  /\ mine \in Seq(Nat) /\ Known(mine, Len(k)) /\ InOrder(mine, k)
  /\ st = "gone" => \A i \in 1..Len(mine) : mine[i] <= from
  /\ st = "open" => Complete(mine, want, from, k, fr, s)

\* Where nothing is given to it.
LEMMA StreamSame ==
  ASSUME NEW mine, NEW st, NEW from, NEW want, NEW k, NEW fr, NEW fr2, NEW s,
         StreamOK(mine, st, from, want, k, fr, s), SameTo(s, fr, fr2)
  PROVE  StreamOK(mine, st, from, want, k, fr2, s)
BY CompleteSame DEF StreamOK

\* Where an event begins, of which it will be given as many as it asked for.
LEMMA StreamEmits ==
  ASSUME NEW mine, NEW st, NEW from, NEW want, NEW k \in Seq(Bus!Type), NEW k2, NEW type,
         NEW U, NEW fr \in Seq(BusFrame(U)), NEW f \in BusFrame(U), NEW s,
         Emitted(k, k2, type), AboutKnown(fr, Len(k)), f.id = Len(k) + 1,
         st = "open" => Count(f.left, s) = Covering(want, type),
         StreamOK(mine, st, from, want, k, fr, s)
  PROVE  StreamOK(mine, st, from, want, k2, <<f>> \o fr, s)
<1>1. mine \in Seq(Nat) /\ Known(mine, Len(k)) /\ InOrder(mine, k)  BY DEF StreamOK
<1>2. Known(mine, Len(k2)) /\ InOrder(mine, k2)  BY <1>1, OrderStays
<1>3. st = "open" => Complete(mine, want, from, k2, <<f>> \o fr, s)
  <2> HAVE st = "open"
  <2>1. Count(f.left, s) = Covering(want, type)  OBVIOUS
  <2>2. Complete(mine, want, from, k, fr, s)  BY DEF StreamOK
  <2> QED  BY <1>1, <2>1, <2>2, CompleteEmits
<1> QED  BY <1>1, <1>2, <1>3 DEF StreamOK

\* Where it is given an event.
LEMMA StreamCalled ==
  ASSUME NEW mine, NEW from, NEW want, NEW k \in Seq(Bus!Type),
         NEW U, NEW fr \in Seq(BusFrame(U)), NEW fr2, NEW s,
         CalledOne(fr, fr2), Apart(fr), Head(fr[1].left) = s, fr[1].id \in 1..Len(k),
         fr[1].id = Len(k) \/ Overtakes(fr[1].id, Len(k), k),
         StreamOK(mine, "open", from, want, k, fr, s)
  PROVE  StreamOK(Append(mine, fr[1].id), "open", from, want, k, fr2, s)
<1> DEFINE x == fr[1].id
<1>1. mine \in Seq(Nat) /\ Known(mine, Len(k)) /\ InOrder(mine, k)
      /\ Complete(mine, want, from, k, fr, s)
  BY DEF StreamOK
<1>2. Complete(Append(mine, x), want, from, k, fr2, s)  BY <1>1, CompleteCalls
<1>3. x \in 1..Len(k) /\ (x = Len(k) \/ Overtakes(x, Len(k), k)) /\ x \in Nat
  <2>1. \A y \in 1..Len(k) : y \in Nat  OBVIOUS
  <2> QED  BY <2>1
<1> HIDE DEF x
<1>4. Known(Append(mine, x), Len(k)) /\ InOrder(Append(mine, x), k)
  BY <1>1, <1>3, OrderGrows
<1>5. Append(mine, x) \in Seq(Nat)  BY <1>1, <1>3
<1>6. StreamOK(Append(mine, x), "open", from, want, k, fr2, s)
  BY <1>2, <1>4, <1>5 DEF StreamOK
<1> QED  BY <1>6 DEF x

\* Where a call of emit returns, which has called all it was to.
LEMMA StreamEnds ==
  ASSUME NEW mine, NEW st, NEW from, NEW want, NEW k, NEW U,
         NEW fr \in Seq(BusFrame(U)), NEW s, fr # <<>>, fr[1].left = <<>>,
         StreamOK(mine, st, from, want, k, fr, s)
  PROVE  StreamOK(mine, st, from, want, k, Tail(fr), s)
BY CompleteEnds DEF StreamOK

-----------------------------------------------------------------------------
(* The event bus: streams *)

\* Streams that are open are registered for what they want, and the engine for files.
HandlersOK(list, st, want) ==
  /\ Alone(list)
  /\ \A w, p : Registered(list, w, p) =>
       /\ w \in Stream => st[w] = "open" /\ Holds(want[w], p)
       /\ w = "engine" => p = "ide.file_changed"
  /\ \A s \in Stream : st[s] = "open" =>
       \A type : Count(Callees(list, type), s) = Covering(want[s], type)

\* What the bus keeps, its type.
BusTyped ==
  /\ attached \subseteq {"engine", "hooks"}
  /\ handlers \in HandlerLists(Stream \cup attached)
  /\ once \subseteq Bus!Pattern
  /\ kind \in Seq(Bus!Type) /\ hint \in Nat
  /\ frames \in Seq(BusFrame(Stream \cup attached))
  /\ throttled \in BOOLEAN /\ torn \in BOOLEAN
  /\ stream \in [Stream -> {"new", "open", "gone"}]
  /\ wants \in [Stream -> Patterns \cup {<<>>}]
  /\ queue \in [Stream -> Seq(Nat)] /\ polled \in [Stream -> Seq(Nat)]
  /\ since \in [Stream -> Nat]
  /\ heard \in [Bus!Pattern -> Seq(Nat)]

\* Each stream has had what it was owed.
BusGot ==
  \A s \in Stream :
    StreamOK(polled[s] \o queue[s], stream[s], since[s], wants[s], kind, frames, s)

\* A handler that is called once has been called at most once, and not while it waits.
BusHeard ==
  \A p \in Bus!Pattern :
    Known(heard[p], Len(kind)) /\ Len(heard[p]) <= 1 /\ (p \in once => heard[p] = <<>>)

\* The inductive invariant of the event bus.
BusInv ==
  /\ BusTyped
  /\ FramesOK(frames, kind, handlers, throttled, file, lost)
  /\ HandlersOK(handlers, stream, wants)
  /\ BusGot
  /\ Written(file, aside, lost, kind, frames)
  /\ BusHeard
  /\ BufferOK(buffer, dropped, Len(kind))
  /\ KindsOK(kind)

\* Where no call of emit has not returned.
LEMMA NoFrames ==
  ASSUME NEW U, NEW k, NEW list, NEW th, NEW fl, NEW ls
  PROVE  <<>> \in Seq(U) /\ FramesOK(<<>>, k, list, th, fl, ls)
<1>1. Len(<<>>) = 0 /\ \A m : m \notin 1..0  OBVIOUS
<1> QED  BY <1>1 DEF FramesOK, AboutKnown

\* A stream that is not open is not called.
LEMMA Unregistered ==
  ASSUME NEW U, NEW list \in HandlerLists(U), NEW st, NEW want, HandlersOK(list, st, want),
         NEW s \in Stream, st[s] # "open", NEW type
  PROVE  Count(Callees(list, type), s) = 0
<1>1. \A p : ~Registered(list, s, p)  BY DEF HandlersOK
<1>2. ~Holds(Callees(list, type), s)
  <2>1. Holds(Callees(list, type), s) =>
          \E p \in Bus!Pattern : Registered(list, s, p) /\ type \in Bus!Covers(p)
    BY CallsAre
  <2> QED  BY <1>1, <2>1
<1>3. Callees(list, type) \in Seq(U)  BY CallsAre
<1> QED  BY <1>2, <1>3, CountIs

\* What two functions of the streams have in common, but for one stream.
SameBut(s, f, g) == \A t \in Stream : t # s => g[t] = f[t]

\* ... until it subscribes.
LEMMA HandlersGrow ==
  ASSUME NEW U, NEW list \in HandlerLists(U), NEW st, NEW want,
         HandlersOK(list, st, want), NEW s \in Stream, s \in U, s # "engine", st[s] # "open",
         NEW patterns \in Seq(Bus!Pattern), NEW st2, NEW want2,
         st2[s] = "open", want2[s] = patterns,
         SameBut(s, st, st2), SameBut(s, want, want2)
  PROVE  /\ Bus!OnAll(list, patterns, s) \in HandlerLists(U)
         /\ HandlersOK(Bus!OnAll(list, patterns, s), st2, want2)
<1> DEFINE more == Bus!OnAll(list, patterns, s)
<1>0. \A t \in Stream : t # s => st2[t] = st[t] /\ want2[t] = want[t]  BY DEF SameBut
<1>1. Alone(list)  BY DEF HandlersOK
<1>2. more \in HandlerLists(U) /\ Grown(more, list, patterns, s, Len(patterns))
  BY <1>1, OnAllAdds
<1> HIDE DEF more
<1>3. Alone(more)  BY <1>2 DEF Grown
<1>4. DOMAIN patterns = 1..Len(patterns)  OBVIOUS
<1>5. ASSUME NEW w, NEW p, Registered(more, w, p)
      PROVE  /\ w \in Stream => st2[w] = "open" /\ Holds(want2[w], p)
             /\ w = "engine" => p = "ide.file_changed"
  <2>1. Registered(list, w, p) \/ (w = s /\ \E k \in 1..Len(patterns) : patterns[k] = p)
    BY <1>2, <1>5 DEF Grown
  <2>2. CASE Registered(list, w, p)
    <3>1. /\ w \in Stream => st[w] = "open" /\ Holds(want[w], p)
          /\ w = "engine" => p = "ide.file_changed"
      BY <2>2 DEF HandlersOK
    <3>2. w # s  BY <3>1
    <3> QED  BY <1>0, <3>1, <3>2
  <2>3. CASE w = s /\ \E k \in 1..Len(patterns) : patterns[k] = p
    BY <1>4, <2>3 DEF Holds
  <2> QED  BY <2>1, <2>2, <2>3
<1>6. ASSUME NEW t \in Stream, st2[t] = "open", NEW type
      PROVE  Count(Callees(more, type), t) = Covering(want2[t], type)
  <2>1. Count(Callees(more, type), t)
          = Count(Callees(list, type), t)
              + IF t = s THEN Cardinality({k \in 1..Len(patterns) :
                                             type \in Bus!Covers(patterns[k])}) ELSE 0
    BY <1>2 DEF Grown
  <2>2. CASE t = s
    <3> DEFINE c == Cardinality({k \in 1..Len(patterns) : type \in Bus!Covers(patterns[k])})
    <3>1. c = Covering(patterns, type)  BY <1>4 DEF Covering
    <3>2. Count(Callees(list, type), s) = 0  BY Unregistered
    <3>3. c \in Nat
      <4>1. Len(patterns) \in Nat  OBVIOUS
      <4>2. IsFiniteSet(1..Len(patterns))  BY <4>1, FS_Interval
      <4>3. {k \in 1..Len(patterns) : type \in Bus!Covers(patterns[k])} \subseteq 1..Len(patterns)
        OBVIOUS
      <4>4. IsFiniteSet({k \in 1..Len(patterns) : type \in Bus!Covers(patterns[k])})
        BY <4>2, <4>3, FS_Subset
      <4> QED  BY <4>4, FS_CardinalityType
    <3>4. Count(Callees(more, type), t) = Count(Callees(list, type), t) + c
      BY <2>1, <2>2
    <3> HIDE DEF c
    <3> QED  BY <2>2, <3>1, <3>2, <3>3, <3>4
  <2>3. CASE t # s
    <3>1. Callees(list, type) \in Seq(U)  BY CallsAre
    <3>2. Count(Callees(list, type), t) \in Nat  BY <3>1, CountIs
    <3>3. Count(Callees(more, type), t) = Count(Callees(list, type), t)  BY <2>1, <2>3, <3>2
    <3>4. st[t] = "open" /\ want2[t] = want[t]  BY <1>0, <1>6, <2>3
    <3>5. Count(Callees(list, type), t) = Covering(want[t], type)  BY <3>4 DEF HandlersOK
    <3> QED  BY <3>3, <3>4, <3>5
  <2> QED  BY <2>2, <2>3
<1>7. HandlersOK(more, st2, want2)  BY <1>3, <1>5, <1>6 DEF HandlersOK
<1> QED  BY <1>2, <1>7 DEF more

\* ... and after it has unsubscribed.
LEMMA HandlersShrink ==
  ASSUME NEW U, U = Stream \cup attached, Stream \cap attached = {},
         NEW list \in HandlerLists(U), NEW st, NEW want, HandlersOK(list, st, want),
         NEW s \in Stream, NEW st2, st2[s] # "open",
         \A t \in Stream : t # s => st2[t] = st[t]
  PROVE  /\ Bus!Off(list, want[s], s) \in HandlerLists(U)
         /\ HandlersOK(Bus!Off(list, want[s], s), st2, want)
<1> DEFINE less == Bus!Off(list, want[s], s)
           T == Bus!Range(want[s])
<1>1. Alone(list)  BY DEF HandlersOK
<1>2. /\ less \in HandlerLists(U) /\ Alone(less)
      /\ \A type : \A x \in U \ {s} : Count(Callees(less, type), x)
           = Count(Callees(list, type), x)
      /\ \A w, q : Registered(less, w, q) =>
           Registered(list, w, q) /\ ~(w = s /\ q \in T)
  BY <1>1, OffTakes
<1>3. \A q : Holds(want[s], q) => q \in T  BY DEF Holds, Bus!Range
<1> HIDE DEF less, T
<1>4. ASSUME NEW w, NEW p, Registered(less, w, p)
      PROVE  /\ w \in Stream => st2[w] = "open" /\ Holds(want[w], p)
             /\ w = "engine" => p = "ide.file_changed"
  <2>1. Registered(list, w, p) /\ ~(w = s /\ p \in T)  BY <1>2, <1>4
  <2>2. /\ w \in Stream => st[w] = "open" /\ Holds(want[w], p)
        /\ w = "engine" => p = "ide.file_changed"
    BY <2>1 DEF HandlersOK
  <2>3. w # s  BY <1>3, <2>1, <2>2
  <2> QED  BY <2>2, <2>3
<1>5. ASSUME NEW t \in Stream, st2[t] = "open", NEW type
      PROVE  Count(Callees(less, type), t) = Covering(want[t], type)
  <2>1. t # s /\ st[t] = "open" /\ t \in U \ {s}  BY <1>5
  <2>2. Count(Callees(less, type), t) = Count(Callees(list, type), t)  BY <1>2, <2>1
  <2> QED  BY <2>1, <2>2 DEF HandlersOK
<1>6. HandlersOK(less, st2, want)  BY <1>2, <1>4, <1>5 DEF HandlersOK
<1> QED  BY <1>2, <1>6 DEF less

\* What is known of the constants.
LEMMA BusConstants ==
  /\ Patterns \subseteq Seq(Bus!Pattern) /\ Onces \subseteq Bus!Pattern
  /\ "engine" \notin Stream /\ "hooks" \notin Stream
  /\ BufferSize \in Nat \ {0} /\ MaxLines \in Nat \ {0} /\ MaxLines \in Nat /\ MaxEvents \in Nat
BY ServicesAssumption DEF ServicesAssumption

\* A stream that subscribes is owed what is published from then on.
LEMMA BusSubscribes ==
  ASSUME BusInv, NEW s \in Stream, Bus!Subscribe(s)
  PROVE  BusInv'
<1> USE BusConstants
<1> DEFINE U == Stream \cup attached
<1>1. PICK patterns \in Patterns :
        /\ wants' = [wants EXCEPT ![s] = patterns]
        /\ handlers' = Bus!OnAll(handlers, patterns, s)
  BY DEF Bus!Subscribe
<1>2. /\ frames = <<>> /\ stream[s] = "new"
      /\ stream' = [stream EXCEPT ![s] = "open"]
      /\ since' = [since EXCEPT ![s] = Len(kind)]
      /\ UNCHANGED <<attached, once, kind, buffer, dropped, frames, throttled, queue,
                     polled, hint, file, aside, torn, lost, heard>>
  BY DEF Bus!Subscribe
<1>3. /\ handlers \in HandlerLists(U) /\ kind \in Seq(Bus!Type)
      /\ stream \in [Stream -> {"new", "open", "gone"}]
      /\ wants \in [Stream -> Patterns \cup {<<>>}] /\ since \in [Stream -> Nat]
      /\ HandlersOK(handlers, stream, wants)
  BY DEF BusInv, BusTyped
<1>4. /\ stream'[s] = "open" /\ wants'[s] = patterns /\ since'[s] = Len(kind)
      /\ \A t \in Stream : t # s =>
           stream'[t] = stream[t] /\ wants'[t] = wants[t] /\ since'[t] = since[t]
  BY <1>1, <1>2, <1>3
<1>5. Bus!OnAll(handlers, patterns, s) \in HandlerLists(U)
      /\ HandlersOK(Bus!OnAll(handlers, patterns, s), stream', wants')
  <2>1. s \in U /\ s # "engine" /\ stream[s] # "open" /\ patterns \in Seq(Bus!Pattern)
    BY <1>2
  <2>2. SameBut(s, stream, stream') /\ SameBut(s, wants, wants')  BY <1>4 DEF SameBut
  <2>3. stream'[s] = "open" /\ wants'[s] = patterns  BY <1>4
  <2>4. handlers \in HandlerLists(U) /\ HandlersOK(handlers, stream, wants)  BY <1>3
  <2> HIDE DEF U
  <2> QED  BY <2>1, <2>2, <2>3, <2>4, HandlersGrow
<1>6. BusTyped'
  <2>1. Len(kind) \in Nat  BY <1>3
  <2>2. stream' \in [Stream -> {"new", "open", "gone"}]  BY <1>2, <1>3
  <2>3. wants' \in [Stream -> Patterns \cup {<<>>}]  BY <1>1, <1>3
  <2>4. since' \in [Stream -> Nat]  BY <1>2, <1>3, <2>1
  <2>5. handlers' \in HandlerLists(U)  BY <1>1, <1>5
  <2> QED  BY <1>2, <2>2, <2>3, <2>4, <2>5 DEF BusInv, BusTyped
<1>7. BusGot'
  <2> SUFFICES ASSUME NEW t \in Stream
               PROVE  StreamOK(polled[t] \o queue[t], stream'[t], since'[t], wants'[t],
                               kind, frames, t)
    BY <1>2 DEF BusGot
  <2>1. StreamOK(polled[t] \o queue[t], stream[t], since[t], wants[t], kind, frames, t)
    BY DEF BusInv, BusGot
  <2>2. CASE t # s  BY <1>4, <2>1, <2>2
  <2>3. CASE t = s
    <3> DEFINE mine == polled[t] \o queue[t]
    <3>1. mine \in Seq(Nat) /\ Known(mine, Len(kind)) /\ InOrder(mine, kind)
      BY <2>1 DEF StreamOK
    <3> HIDE DEF mine
    <3>2. Complete(mine, wants'[t], Len(kind), kind, <<>>, t)
      <4>1. Len(<<>>) = 0 /\ \A m : m \notin 1..0  OBVIOUS
      <4>2. Len(kind) \in Nat  BY <1>3
      <4>3. \A id \in 1..Len(kind) : ~(id > Len(kind))  BY <4>2
      <4> QED  BY <4>1, <4>3 DEF Complete
    <3>3. StreamOK(mine, "open", Len(kind), wants'[t], kind, <<>>, t)
      BY <3>1, <3>2 DEF StreamOK
    <3> QED  BY <1>2, <1>4, <2>3, <3>3 DEF mine
  <2> QED  BY <2>2, <2>3
<1>8. FramesOK(frames, kind, handlers, throttled, file, lost)'  BY <1>2, NoFrames
<1>9. HandlersOK(handlers, stream, wants)'  BY <1>1, <1>5
<1>10. (Written(file, aside, lost, kind, frames) /\ BusHeard
        /\ BufferOK(buffer, dropped, Len(kind)) /\ KindsOK(kind))'
  BY <1>2 DEF BusInv, BusHeard
<1> QED  BY <1>6, <1>7, <1>8, <1>9, <1>10 DEF BusInv

\* A stream that goes away leaves every pattern it is registered for.
LEMMA BusUnsubscribes ==
  ASSUME BusInv, NEW s \in Stream, Bus!Unsubscribe(s)
  PROVE  BusInv'
<1> USE BusConstants
<1> DEFINE U == Stream \cup attached
<1>1. /\ frames = <<>> /\ stream[s] = "open"
      /\ handlers' = Bus!Off(handlers, wants[s], s)
      /\ stream' = [stream EXCEPT ![s] = "gone"]
      /\ since' = [since EXCEPT ![s] = Len(kind)]
      /\ UNCHANGED <<attached, once, kind, buffer, dropped, frames, throttled, wants, queue,
                     polled, hint, file, aside, torn, lost, heard>>
  BY DEF Bus!Unsubscribe
<1>2. /\ handlers \in HandlerLists(U) /\ kind \in Seq(Bus!Type)
      /\ attached \subseteq {"engine", "hooks"}
      /\ stream \in [Stream -> {"new", "open", "gone"}] /\ since \in [Stream -> Nat]
      /\ HandlersOK(handlers, stream, wants)
  BY DEF BusInv, BusTyped
<1>3. /\ stream'[s] = "gone" /\ since'[s] = Len(kind)
      /\ \A t \in Stream : t # s => stream'[t] = stream[t] /\ since'[t] = since[t]
  BY <1>1, <1>2
<1>4. Bus!Off(handlers, wants[s], s) \in HandlerLists(U)
      /\ HandlersOK(Bus!Off(handlers, wants[s], s), stream', wants)
  <2>1. Stream \cap attached = {}  BY <1>2
  <2>2. stream'[s] # "open" /\ \A t \in Stream : t # s => stream'[t] = stream[t]  BY <1>3
  <2>3. U = Stream \cup attached  OBVIOUS
  <2> HIDE DEF U
  <2> QED  BY <1>2, <2>1, <2>2, <2>3, HandlersShrink
<1>5. BusTyped'
  <2>1. Len(kind) \in Nat  BY <1>2
  <2>2. stream' \in [Stream -> {"new", "open", "gone"}]  BY <1>1, <1>2
  <2>3. since' \in [Stream -> Nat]  BY <1>1, <1>2, <2>1
  <2>4. handlers' \in HandlerLists(U)  BY <1>1, <1>4
  <2> QED  BY <1>1, <2>2, <2>3, <2>4 DEF BusInv, BusTyped
<1>6. BusGot'
  <2> SUFFICES ASSUME NEW t \in Stream
               PROVE  StreamOK(polled[t] \o queue[t], stream'[t], since'[t], wants[t],
                               kind, frames, t)
    BY <1>1 DEF BusGot
  <2>1. StreamOK(polled[t] \o queue[t], stream[t], since[t], wants[t], kind, frames, t)
    BY DEF BusInv, BusGot
  <2>2. CASE t # s  BY <1>3, <2>1, <2>2
  <2>3. CASE t = s
    <3> DEFINE mine == polled[t] \o queue[t]
    <3>1. mine \in Seq(Nat) /\ Known(mine, Len(kind)) /\ InOrder(mine, kind)
      BY <2>1 DEF StreamOK
    <3> HIDE DEF mine
    <3>2. Len(kind) \in Nat  BY <1>2
    <3>3. \A i \in 1..Len(mine) : mine[i] <= Len(kind)  BY <3>1, <3>2 DEF Known
    <3>4. StreamOK(mine, "gone", Len(kind), wants[t], kind, frames, t)
      BY <3>1, <3>3 DEF StreamOK
    <3> QED  BY <1>3, <2>3, <3>4 DEF mine
  <2> QED  BY <2>2, <2>3
<1>7. FramesOK(frames, kind, handlers, throttled, file, lost)'  BY <1>1, NoFrames
<1>8. HandlersOK(handlers, stream, wants)'  BY <1>1, <1>4
<1>9. (Written(file, aside, lost, kind, frames) /\ BusHeard
       /\ BufferOK(buffer, dropped, Len(kind)) /\ KindsOK(kind))'
  BY <1>1 DEF BusInv, BusHeard
<1> QED  BY <1>5, <1>6, <1>7, <1>8, <1>9 DEF BusInv

\* A client takes its queue, in order.
LEMMA BusPolls ==
  ASSUME BusInv, NEW s \in Stream, Bus!Poll(s)
  PROVE  BusInv'
<1>1. /\ polled' = [polled EXCEPT ![s] = polled[s] \o queue[s]]
      /\ queue' = [queue EXCEPT ![s] = <<>>]
      /\ UNCHANGED <<attached, handlers, once, kind, buffer, dropped, frames, throttled,
                     stream, wants, since, hint, file, aside, torn, lost, heard>>
  BY DEF Bus!Poll
<1>2. queue \in [Stream -> Seq(Nat)] /\ polled \in [Stream -> Seq(Nat)]
  BY DEF BusInv, BusTyped
<1>3. polled[s] \o queue[s] \in Seq(Nat) /\ <<>> \in Seq(Nat)  BY <1>2
<1>4. polled' \in [Stream -> Seq(Nat)] /\ queue' \in [Stream -> Seq(Nat)]
  BY <1>1, <1>2, <1>3
<1>5. BusTyped'  BY <1>1, <1>4 DEF BusInv, BusTyped
<1>6. \A t \in Stream : polled'[t] \o queue'[t] = polled[t] \o queue[t]
  <2> TAKE t \in Stream
  <2>1. CASE t = s
    <3>1. polled'[t] = polled[s] \o queue[s] /\ queue'[t] = <<>>  BY <1>1, <1>2, <2>1
    <3>2. (polled[s] \o queue[s]) \o <<>> = polled[s] \o queue[s]
      <4> DEFINE q == polled[s] \o queue[s]
      <4>1. q \in Seq(Nat)  BY <1>3
      <4> HIDE DEF q
      <4>2. q \o <<>> = q  BY <4>1
      <4> QED  BY <4>2 DEF q
    <3> QED  BY <2>1, <3>1, <3>2
  <2>2. CASE t # s  BY <1>1, <1>2, <2>2
  <2> QED  BY <2>1, <2>2
<1>7. BusGot'  BY <1>1, <1>6 DEF BusInv, BusGot
<1>8. (FramesOK(frames, kind, handlers, throttled, file, lost)
       /\ HandlersOK(handlers, stream, wants)
       /\ Written(file, aside, lost, kind, frames) /\ BusHeard
       /\ BufferOK(buffer, dropped, Len(kind)) /\ KindsOK(kind))'
  BY <1>1 DEF BusInv, BusHeard
<1> QED  BY <1>5, <1>7, <1>8 DEF BusInv

\* A handler that is to be called once has not been called before.
LEMMA BusOnces ==
  ASSUME BusInv, NEW pattern \in Onces, Bus!Once(pattern)
  PROVE  BusInv'
<1> USE BusConstants
<1>1. /\ heard[pattern] = <<>> /\ once' = once \cup {pattern}
      /\ UNCHANGED <<attached, handlers, kind, buffer, dropped, frames, throttled, stream,
                     wants, queue, polled, since, hint, file, aside, torn, lost, heard>>
  BY DEF Bus!Once
<1>2. BusTyped'  BY <1>1 DEF BusInv, BusTyped
<1>3. BusHeard'
  <2> SUFFICES ASSUME NEW p \in Bus!Pattern
               PROVE  /\ Known(heard[p], Len(kind)) /\ Len(heard[p]) <= 1
                      /\ p \in once \cup {pattern} => heard[p] = <<>>
    BY <1>1 DEF BusHeard
  <2> QED  BY <1>1 DEF BusInv, BusHeard
<1>4. (FramesOK(frames, kind, handlers, throttled, file, lost)
       /\ HandlersOK(handlers, stream, wants)
       /\ Written(file, aside, lost, kind, frames) /\ BusGot
       /\ BufferOK(buffer, dropped, Len(kind)) /\ KindsOK(kind))'
  BY <1>1 DEF BusInv, BusGot
<1> QED  BY <1>2, <1>3, <1>4 DEF BusInv

\* The throttle ends when no call of emit is under way.
LEMMA BusQuiet ==
  ASSUME BusInv, Bus!Quiet
  PROVE  BusInv'
<1>1. /\ frames = <<>> /\ throttled' = FALSE
      /\ UNCHANGED <<attached, handlers, once, kind, buffer, dropped, frames, stream, wants,
                     queue, polled, since, hint, file, aside, torn, lost, heard>>
  BY DEF Bus!Quiet
<1>2. BusTyped'  BY <1>1 DEF BusInv, BusTyped
<1>3. FramesOK(frames, kind, handlers, throttled, file, lost)'  BY <1>1, NoFrames
<1>4. (HandlersOK(handlers, stream, wants)
       /\ Written(file, aside, lost, kind, frames) /\ BusGot /\ BusHeard
       /\ BufferOK(buffer, dropped, Len(kind)) /\ KindsOK(kind))'
  BY <1>1 DEF BusInv, BusGot, BusHeard
<1> QED  BY <1>2, <1>3, <1>4 DEF BusInv

\* What leaves the bus alone keeps it.
LEMMA BusStays ==
  ASSUME BusInv, UNCHANGED busVars
  PROVE  BusInv'
<1>1. BusTyped' /\ BusGot' /\ BusHeard'  BY DEF busVars, BusInv, BusTyped, BusGot, BusHeard
<1>2. (FramesOK(frames, kind, handlers, throttled, file, lost)
       /\ HandlersOK(handlers, stream, wants)
       /\ Written(file, aside, lost, kind, frames)
       /\ BufferOK(buffer, dropped, Len(kind)) /\ KindsOK(kind))'
  BY DEF busVars, BusInv
<1> QED  BY <1>1, <1>2 DEF BusInv

-----------------------------------------------------------------------------
(* The event bus: calls of emit *)

\* Whom the bus may call.
BusCallers == Stream \cup attached

\* The calls of emit after the next handler has been called.
CalledFrames == <<Bus!Called>> \o Tail(frames)

\* All streams, were fr the calls of emit.
StreamsOK(fr) ==
  \A s \in Stream : StreamOK(polled[s] \o queue[s], stream[s], since[s], wants[s], kind, fr, s)

\* Whom the bus calls for a type.
LEMMA BusListeners ==
  ASSUME BusInv, NEW type
  PROVE  /\ Bus!Listeners(type) \in Seq(BusCallers)
         /\ AllWanted(Bus!Listeners(type), handlers, type)
         /\ \A s \in Stream : stream[s] = "open" =>
              Count(Bus!Listeners(type), s) = Covering(wants[s], type)
<1>1. Bus!Listeners(type) = Callees(handlers, type)
  BY DEF Bus!Listeners, Callees, PartsOf
<1>2. handlers \in HandlerLists(BusCallers)  BY DEF BusInv, BusTyped, BusCallers
<1>3. /\ Callees(handlers, type) \in Seq(BusCallers)
      /\ \A w : Holds(Callees(handlers, type), w) =>
           \E p \in Bus!Pattern : Registered(handlers, w, p) /\ type \in Bus!Covers(p)
  BY <1>2, CallsAre
<1>4. AllWanted(Callees(handlers, type), handlers, type)  BY <1>3 DEF AllWanted
<1>5. \A s \in Stream : stream[s] = "open" =>
        Count(Callees(handlers, type), s) = Covering(wants[s], type)
  BY DEF BusInv, HandlersOK
<1> QED  BY <1>1, <1>3, <1>4, <1>5

\* The call that is the next.
LEMMA BusCalling ==
  ASSUME BusInv, NEW who, Bus!Calling(who)
  PROVE  /\ frames # <<>> /\ Head(frames[1].left) = who
         /\ CalledFrames \in Seq(BusFrame(BusCallers))
         /\ CalledOne(frames, CalledFrames) /\ SameIds(frames, CalledFrames) /\ Apart(frames)
         /\ frames[1].id \in 1..Len(kind)
         /\ frames[1].id = Len(kind) \/ Overtakes(frames[1].id, Len(kind), kind)
         /\ \E p \in Bus!Pattern :
              Registered(handlers, who, p) /\ kind[frames[1].id] \in Bus!Covers(p)
         /\ FramesOK(CalledFrames, kind, handlers, throttled, file, lost)
         /\ Written(file, aside, lost, kind, CalledFrames)
         /\ CalledFrames[1].id = frames[1].id /\ Len(CalledFrames) = Len(frames)
<1>1. /\ frames \in Seq(BusFrame(BusCallers)) /\ kind \in Seq(Bus!Type)
      /\ FramesOK(frames, kind, handlers, throttled, file, lost)
      /\ Written(file, aside, lost, kind, frames)
  BY DEF BusInv, BusTyped, BusCallers
<1>2. frames # <<>> /\ Bus!top.at = "handlers" /\ Bus!top.left # <<>> /\ Head(Bus!top.left) = who
  BY DEF Bus!Calling
<1> DEFINE E == BusFrame(BusCallers)
<1>3. Bus!top = frames[1] /\ Len(frames) \in Nat /\ 1 \in 1..Len(frames)
  <2>1. frames \in Seq(E)  BY <1>1
  <2> HIDE DEF E
  <2> QED  BY <1>2, <2>1 DEF Bus!top
<1>4. Bus!Called = [id |-> frames[1].id, left |-> Tail(frames[1].left), at |-> "handlers"]
  BY <1>3 DEF Bus!Called, Bus!Frame
<1>5. frames[1].at = "handlers" /\ frames[1].left # <<>> /\ Head(frames[1].left) = who
  BY <1>2, <1>3
<1>6. /\ CalledFrames \in Seq(BusFrame(BusCallers))
      /\ CalledOne(frames, CalledFrames) /\ SameIds(frames, CalledFrames)
      /\ frames[1].left \in Seq(BusCallers)
  BY <1>1, <1>2, <1>4, <1>5, FramesCalled DEF CalledFrames
<1>7. Apart(frames)  BY <1>1, FramesApart
<1>8. /\ frames[1].id \in 1..Len(kind)
      /\ frames[1].id = Len(kind) \/ Overtakes(frames[1].id, Len(kind), kind)
  <2>1. Len(frames) <= 2  BY <1>1 DEF FramesOK
  <2>2. Len(frames) = 1 \/ Len(frames) = 2
    <3>1. \A n \in Nat : n <= 2 /\ 1 \in 1..n => n = 1 \/ n = 2  OBVIOUS
    <3> QED  BY <1>3, <2>1, <3>1
  <2> QED  BY <1>1, <1>3, <2>2 DEF FramesOK, AboutKnown
<1>9. \E p \in Bus!Pattern :
        Registered(handlers, who, p) /\ kind[frames[1].id] \in Bus!Covers(p)
  <2>1. AllWanted(frames[1].left, handlers, kind[frames[1].id])  BY <1>1, <1>3 DEF FramesOK
  <2>2. Holds(frames[1].left, who)
    <3> DEFINE l == frames[1].left
    <3>1. l \in Seq(BusCallers) /\ l # <<>> /\ Head(l) = who  BY <1>5, <1>6
    <3> HIDE DEF l
    <3>2. Holds(l, who) <=> who = Head(l) \/ Holds(Tail(l), who)  BY <3>1, TailCounts
    <3> QED  BY <3>1, <3>2 DEF l
  <2> QED  BY <2>1, <2>2 DEF AllWanted
<1>10. FramesOK(CalledFrames, kind, handlers, throttled, file, lost)
  BY <1>1, <1>6, FramesStay
<1>11. Written(file, aside, lost, kind, CalledFrames)  BY <1>1, <1>6, WrittenSame
<1>12. CalledFrames[1].id = frames[1].id /\ Len(CalledFrames) = Len(frames)
  BY <1>3, <1>6 DEF SameIds
<1> QED  BY <1>2, <1>5, <1>6, <1>7, <1>8, <1>9, <1>10, <1>11, <1>12

\* The engine, or the hooks, are called: to the streams that makes no difference.
LEMMA BusOthers ==
  ASSUME BusInv, NEW who, who \notin Stream, Bus!Calling(who)
  PROVE  StreamsOK(CalledFrames)
<1>1. /\ CalledOne(frames, CalledFrames) /\ Head(frames[1].left) = who
  BY BusCalling
<1>2. frames \in Seq(BusFrame(BusCallers))  BY DEF BusInv, BusTyped, BusCallers
<1> SUFFICES ASSUME NEW s \in Stream
             PROVE  StreamOK(polled[s] \o queue[s], stream[s], since[s], wants[s], kind,
                             CalledFrames, s)
  BY DEF StreamsOK
<1>3. StreamOK(polled[s] \o queue[s], stream[s], since[s], wants[s], kind, frames, s)
  BY DEF BusInv, BusGot
<1>4. Head(frames[1].left) # s  BY <1>1
<1>5. SameTo(s, frames, CalledFrames)  BY <1>1, <1>2, <1>4, CalledSame
<1> QED  BY <1>3, <1>5, StreamSame

\* They do nothing else.
LEMMA BusCalls ==
  ASSUME BusInv, NEW who, who \notin Stream, Bus!Calling(who), frames' = CalledFrames,
         hint' \in Nat,
         UNCHANGED <<attached, handlers, once, kind, buffer, dropped, throttled, stream,
                     wants, queue, polled, since, file, aside, torn, lost, heard>>
  PROVE  BusInv'
<1>1. CalledFrames \in Seq(BusFrame(BusCallers))
      /\ FramesOK(CalledFrames, kind, handlers, throttled, file, lost)
      /\ Written(file, aside, lost, kind, CalledFrames)
  BY BusCalling
<1>2. StreamsOK(CalledFrames)  BY BusOthers
<1>3. BusTyped'  BY <1>1 DEF BusInv, BusTyped, BusCallers
<1>4. BusGot'  BY <1>2 DEF BusGot, StreamsOK
<1>5. (FramesOK(frames, kind, handlers, throttled, file, lost)
       /\ Written(file, aside, lost, kind, frames))'
  BY <1>1
<1>6. (HandlersOK(handlers, stream, wants) /\ BusHeard
       /\ BufferOK(buffer, dropped, Len(kind)) /\ KindsOK(kind))'
  BY DEF BusInv, BusHeard
<1> QED  BY <1>3, <1>4, <1>5, <1>6 DEF BusInv

\* The engine is called and suggests nothing.
LEMMA BusSuggestsNothing ==
  ASSUME BusInv, Bus!SuggestNothing
  PROVE  BusInv'
<1>1. "engine" \notin Stream  BY BusConstants
<1>2. hint \in Nat  BY DEF BusInv, BusTyped
<1> QED  BY <1>1, <1>2, BusCalls DEF Bus!SuggestNothing, CalledFrames

\* The hooks are called, and may write the hint.
LEMMA BusHints ==
  ASSUME BusInv, Bus!WriteHint
  PROVE  BusInv'
<1>1. "hooks" \notin Stream  BY BusConstants
<1>2. Bus!Calling("hooks") /\ hint' \in {hint, Bus!top.id}  BY DEF Bus!WriteHint
<1>3. hint' \in Nat
  <2>1. hint \in Nat /\ frames \in Seq(BusFrame(BusCallers))
    BY DEF BusInv, BusTyped, BusCallers
  <2>2. frames # <<>> /\ frames[1].id \in 1..Len(kind)  BY <1>2, BusCalling
  <2>3. Bus!top = frames[1]
    <3> DEFINE E == BusFrame(BusCallers)
    <3>1. frames \in Seq(E)  BY <2>1
    <3> HIDE DEF E
    <3> QED  BY <2>2, <3>1 DEF Bus!top
  <2>4. frames[1].id \in Nat  BY <2>2
  <2> QED  BY <1>2, <2>1, <2>3, <2>4
<1> QED  BY <1>1, <1>2, <1>3, BusCalls DEF Bus!WriteHint, CalledFrames

\* A stream that is called puts the event in its queue.
LEMMA BusCallsStream ==
  ASSUME BusInv, NEW s \in Stream, Bus!CallStream(s)
  PROVE  BusInv'
<1>1. /\ Bus!Calling(s)
      /\ queue' = [queue EXCEPT ![s] = Append(queue[s], Bus!top.id)]
      /\ frames' = CalledFrames
      /\ UNCHANGED <<attached, handlers, once, kind, buffer, dropped, throttled, stream,
                     wants, polled, since, hint, file, aside, torn, lost, heard>>
  BY DEF Bus!CallStream, CalledFrames
<1>2. /\ frames # <<>> /\ Head(frames[1].left) = s
      /\ CalledFrames \in Seq(BusFrame(BusCallers))
      /\ CalledOne(frames, CalledFrames) /\ Apart(frames)
      /\ frames[1].id \in 1..Len(kind)
      /\ frames[1].id = Len(kind) \/ Overtakes(frames[1].id, Len(kind), kind)
      /\ FramesOK(CalledFrames, kind, handlers, throttled, file, lost)
      /\ Written(file, aside, lost, kind, CalledFrames)
  BY <1>1, BusCalling
<1>3. \E p \in Bus!Pattern :
        Registered(handlers, s, p) /\ kind[frames[1].id] \in Bus!Covers(p)
  BY <1>1, BusCalling
<1>4. stream[s] = "open"  BY <1>3 DEF BusInv, HandlersOK
<1> DEFINE x == frames[1].id
<1>5. /\ frames \in Seq(BusFrame(BusCallers)) /\ kind \in Seq(Bus!Type)
      /\ queue \in [Stream -> Seq(Nat)] /\ polled \in [Stream -> Seq(Nat)]
  BY DEF BusInv, BusTyped, BusCallers
<1>6. Bus!top = frames[1]
  <2> DEFINE E == BusFrame(BusCallers)
  <2>1. frames \in Seq(E)  BY <1>5
  <2> HIDE DEF E
  <2> QED  BY <1>2, <2>1 DEF Bus!top
<1>7. x \in Nat
  <2>1. \A y \in 1..Len(kind) : y \in Nat  BY <1>5
  <2> QED  BY <1>2, <2>1
<1>8. queue'[s] = Append(queue[s], x) /\ \A t \in Stream : t # s => queue'[t] = queue[t]
  BY <1>1, <1>5, <1>6
<1>9. queue' \in [Stream -> Seq(Nat)]
  <2>1. queue[s] \in Seq(Nat)  BY <1>5
  <2> HIDE DEF x
  <2>2. Append(queue[s], x) \in Seq(Nat)  BY <1>7, <2>1
  <2> QED  BY <1>1, <1>5, <1>6, <2>2 DEF x
<1>10. BusTyped'  BY <1>1, <1>2, <1>9 DEF BusInv, BusTyped, BusCallers
<1>11. BusGot'
  <2> SUFFICES ASSUME NEW t \in Stream
               PROVE  StreamOK(polled[t] \o queue'[t], stream[t], since[t], wants[t],
                               kind, CalledFrames, t)
    BY <1>1 DEF BusGot
  <2>1. StreamOK(polled[t] \o queue[t], stream[t], since[t], wants[t], kind, frames, t)
    BY DEF BusInv, BusGot
  <2>2. CASE t = s
    <3> DEFINE mine == polled[s] \o queue[s]
    <3>1. StreamOK(mine, "open", since[s], wants[s], kind, frames, s)  BY <1>4, <2>1, <2>2
    <3>2. polled[s] \o queue'[s] = Append(mine, x)
      <4>1. polled[s] \in Seq(Nat) /\ queue[s] \in Seq(Nat)  BY <1>5
      <4> DEFINE a == polled[s]
                 b == queue[s]
      <4>2. a \in Seq(Nat) /\ b \in Seq(Nat)  BY <4>1
      <4> HIDE DEF a, b, x
      <4>3. \A c \in Seq(Nat) : c \o Append(b, x) = Append(c \o b, x)
        BY <1>7, <4>2, OneLine, Zenon
      <4>4. a \o Append(b, x) = Append(a \o b, x)  BY <4>2, <4>3, Zenon
      <4> QED  BY <1>8, <4>4 DEF a, b
    <3> HIDE DEF mine
    <3>3. StreamOK(Append(mine, frames[1].id), "open", since[s], wants[s], kind, CalledFrames, s)
      BY <1>2, <1>5, <3>1, StreamCalled
    <3> QED  BY <1>4, <2>2, <3>2, <3>3
  <2>3. CASE t # s
    <3>1. SameTo(t, frames, CalledFrames)
      <4>1. Head(frames[1].left) # t  BY <1>2, <2>3
      <4> QED  BY <1>2, <1>5, <4>1, CalledSame
    <3>2. StreamOK(polled[t] \o queue[t], stream[t], since[t], wants[t], kind, CalledFrames, t)
      BY <2>1, <3>1, StreamSame
    <3> QED  BY <1>8, <2>3, <3>2
  <2> QED  BY <2>2, <2>3
<1>12. (FramesOK(frames, kind, handlers, throttled, file, lost)
       /\ Written(file, aside, lost, kind, frames))'
  BY <1>1, <1>2
<1>13. (HandlersOK(handlers, stream, wants) /\ BusHeard
        /\ BufferOK(buffer, dropped, Len(kind)) /\ KindsOK(kind))'
  BY <1>1 DEF BusInv, BusHeard
<1> QED  BY <1>10, <1>11, <1>12, <1>13 DEF BusInv

\* An event is numbered, and the buffer holds it.
LEMMA BusEmits ==
  ASSUME BusInv, NEW type \in Bus!Type, Bus!Emit(type)
  PROVE  Emitted(kind, kind', type) /\ BufferOK(buffer', dropped', Len(kind'))
<1>1. kind \in Seq(Bus!Type) /\ BufferOK(buffer, dropped, Len(kind))
  BY DEF BusInv, BusTyped
<1>2. /\ kind' = Append(kind, type)
      /\ buffer' = Append(IF Len(buffer) = BufferSize THEN Tail(buffer) ELSE buffer,
                          Len(kind) + 1)
      /\ dropped' = IF Len(buffer) = BufferSize THEN dropped + 1 ELSE dropped
  BY DEF Bus!Emit
<1>3. /\ kind' \in Seq(Bus!Type) /\ Len(kind') = Len(kind) + 1 /\ kind'[Len(kind) + 1] = type
      /\ \A i \in 1..Len(kind) : kind'[i] = kind[i]
      /\ Len(kind) \in Nat
  <2> DEFINE T == Bus!Type
  <2>1. kind \in Seq(T) /\ type \in T  BY <1>1
  <2> HIDE DEF T
  <2>2. /\ kind' \in Seq(T) /\ Len(kind') = Len(kind) + 1 /\ kind'[Len(kind) + 1] = type
        /\ \A i \in 1..Len(kind) : kind'[i] = kind[i]
        /\ Len(kind) \in Nat
    BY <1>2, <2>1
  <2> QED  BY <2>2 DEF T
<1>4. Emitted(kind, kind', type)  BY <1>3 DEF Emitted
<1>5. BufferOK(buffer', dropped', Len(kind) + 1)
  <2> DEFINE n == Len(kind)
  <2>1. n \in Nat /\ BufferOK(buffer, dropped, n)  BY <1>1, <1>3
  <2>2. buffer' = Append(IF Len(buffer) = BufferSize THEN Tail(buffer) ELSE buffer, n + 1)
    BY <1>2
  <2> HIDE DEF n
  <2>3. BufferOK(buffer', dropped', n + 1)
    BY <1>2, <2>1, <2>2, BusConstants, BufferGrows
  <2> QED  BY <2>3 DEF n
<1> QED  BY <1>3, <1>4, <1>5

\* What has been heard is still known.
LEMMA BusStillHeard ==
  ASSUME BusInv, NEW type, Emitted(kind, kind', type), UNCHANGED <<heard, once>>
  PROVE  BusHeard'
<1>1. kind \in Seq(Bus!Type) /\ heard \in [Bus!Pattern -> Seq(Nat)]  BY DEF BusInv, BusTyped
<1>2. Len(kind) \in Nat /\ Len(kind') = Len(kind) + 1  BY <1>1 DEF Emitted
<1> SUFFICES ASSUME NEW p \in Bus!Pattern
             PROVE  /\ Known(heard[p], Len(kind')) /\ Len(heard[p]) <= 1
                    /\ p \in once => heard[p] = <<>>
  BY DEF BusHeard
<1>3. /\ Known(heard[p], Len(kind)) /\ Len(heard[p]) <= 1
      /\ p \in once => heard[p] = <<>>
  BY DEF BusInv, BusHeard
<1>4. \A x \in 1..Len(kind) : x \in 1..Len(kind')  BY <1>2
<1>5. Known(heard[p], Len(kind'))  BY <1>3, <1>4 DEF Known
<1> QED  BY <1>3, <1>5

\* A call of emit begins, while those that have not returned are fr.
LEMMA BusBegins ==
  ASSUME BusInv, NEW fr, fr \in Seq(BusFrame(BusCallers)), StreamsOK(fr),
         FramesOK(fr, kind, handlers, throttled, file, lost), Written(file, aside, lost, kind, fr),
         NEW type \in Bus!Type, Bus!Emit(type), NEW f,
         f = Bus!Frame(Len(kind) + 1, Bus!Listeners(type), "handlers"),
         frames' = <<f>> \o fr, throttled' \in BOOLEAN,
         fr = <<>> \/ (Len(fr) = 1 /\ fr[1].id = Len(kind) /\ type = "skill.suggested"
                       /\ throttled' = TRUE),
         \/ type # "skill.suggested" /\ Cardinality(Plain(kind)) < MaxEvents
         \/ type = "skill.suggested" /\ Len(kind) # 0 /\ kind[Len(kind)] # "skill.suggested",
         UNCHANGED <<attached, handlers, once, stream, wants, queue, polled, since, hint,
                     file, aside, torn, lost, heard>>
  PROVE  BusInv'
<1>1. Emitted(kind, kind', type) /\ BufferOK(buffer', dropped', Len(kind'))  BY BusEmits
<1>2. kind \in Seq(Bus!Type)  BY DEF BusInv, BusTyped
<1>3. /\ Bus!Listeners(type) \in Seq(BusCallers)
      /\ AllWanted(Bus!Listeners(type), handlers, type)
      /\ \A s \in Stream : stream[s] = "open" =>
           Count(Bus!Listeners(type), s) = Covering(wants[s], type)
  BY BusListeners
<1>4. f \in BusFrame(BusCallers) /\ f.id = Len(kind) + 1 /\ f.left = Bus!Listeners(type)
      /\ f.at = "handlers"
  <2> DEFINE i == Len(kind) + 1
             l == Bus!Listeners(type)
             V == Seq(BusCallers)
  <2>1. i \in Nat /\ l \in V  BY <1>2, <1>3
  <2>2. f = [id |-> i, left |-> l, at |-> "handlers"]  BY DEF Bus!Frame
  <2> HIDE DEF i, l, V
  <2>3. [id |-> i, left |-> l, at |-> "handlers"]
          \in [id : Nat, left : V, at : {"handlers", "transports"}]
    BY <2>1
  <2>4. f \in [id : Nat, left : V, at : {"handlers", "transports"}]  BY <2>2, <2>3, Zenon
  <2>5. f.id = i /\ f.left = l /\ f.at = "handlers"  BY <2>2
  <2> QED  BY <2>4, <2>5 DEF i, l, V, BusFrame
<1>5. FramesOK(<<f>> \o fr, kind', handlers, throttled', file, lost)
  <2>1. AllWanted(f.left, handlers, type)  BY <1>3, <1>4
  <2> QED  BY <1>1, <1>2, <1>4, <2>1, FramesEmit
<1>6. Written(file, aside, lost, kind', <<f>> \o fr)
  BY <1>1, <1>2, <1>4, BusConstants, WrittenEmits
<1>7. BusGot'
  <2> SUFFICES ASSUME NEW s \in Stream
               PROVE  StreamOK(polled[s] \o queue[s], stream[s], since[s], wants[s],
                               kind', <<f>> \o fr, s)
    BY DEF BusGot
  <2>1. StreamOK(polled[s] \o queue[s], stream[s], since[s], wants[s], kind, fr, s)
    BY DEF StreamsOK
  <2>2. AboutKnown(fr, Len(kind))  BY DEF FramesOK
  <2>3. stream[s] = "open" => Count(f.left, s) = Covering(wants[s], type)  BY <1>3, <1>4
  <2> QED  BY <1>1, <1>2, <1>4, <2>1, <2>2, <2>3, StreamEmits
<1>8. KindsOK(kind')  BY <1>1, <1>2, BusConstants, KindsGrow DEF BusInv
<1>9. BusHeard'  BY <1>1, BusStillHeard
<1>10. BusTyped'
  <2>1. frames' \in Seq(BusFrame(BusCallers))
    <3> DEFINE E == BusFrame(BusCallers)
    <3>1. f \in E /\ fr \in Seq(E)  BY <1>4
    <3> HIDE DEF E
    <3>2. <<f>> \o fr \in Seq(E)  BY <3>1
    <3> QED  BY <3>2 DEF E
  <2>2. kind' \in Seq(Bus!Type)  BY <1>1 DEF Emitted
  <2> QED  BY <2>1, <2>2 DEF BusInv, BusTyped, BusCallers
<1>11. HandlersOK(handlers, stream, wants)'  BY DEF BusInv
<1> QED  BY <1>1, <1>5, <1>6, <1>7, <1>8, <1>9, <1>10, <1>11 DEF BusInv

\* An event is published: nobody has been given it yet.
LEMMA BusPublishes ==
  ASSUME BusInv, Bus!Publish
  PROVE  BusInv'
<1>1. PICK type \in {"ide.file_changed", "ide.notification"} :
        /\ Bus!Emit(type)
        /\ frames' = <<Bus!Frame(Len(kind) + 1, Bus!Listeners(type), "handlers")>>
  BY DEF Bus!Publish
<1>2. /\ frames = <<>>
      /\ Bus!Cardinality({i \in DOMAIN kind : kind[i] # "skill.suggested"}) < MaxEvents
      /\ UNCHANGED <<attached, handlers, once, throttled, stream, wants, queue, polled,
                     since, hint, file, aside, torn, lost, heard>>
  BY DEF Bus!Publish
<1>3. Cardinality(Plain(kind)) < MaxEvents
  <2>1. Bus!Cardinality(Plain(kind)) = Cardinality(Plain(kind))
    BY DEF Bus!Cardinality, Cardinality
  <2> QED  BY <1>2, <2>1 DEF Plain
<1>4. type \in Bus!Type /\ type # "skill.suggested"  BY DEF Bus!Type
<1> DEFINE f == Bus!Frame(Len(kind) + 1, Bus!Listeners(type), "handlers")
<1>5. frames' = <<f>> \o <<>>  BY <1>1
<1>6. StreamsOK(<<>>)  BY <1>2 DEF BusInv, BusGot, StreamsOK
<1>7. /\ <<>> \in Seq(BusFrame(BusCallers))
      /\ FramesOK(<<>>, kind, handlers, throttled, file, lost)
      /\ Written(file, aside, lost, kind, <<>>)
      /\ throttled \in BOOLEAN
  BY <1>2 DEF BusInv, BusTyped, BusCallers
<1>8. f = Bus!Frame(Len(kind) + 1, Bus!Listeners(type), "handlers")  OBVIOUS
<1> HIDE DEF f
<1>9. Bus!Emit(type) /\ throttled' \in BOOLEAN
      /\ UNCHANGED <<attached, handlers, once, stream, wants, queue, polled, since, hint,
                     file, aside, torn, lost, heard>>
  BY <1>1, <1>2, <1>7
<1> QED  BY <1>3, <1>4, <1>5, <1>6, <1>7, <1>8, <1>9, BusBegins

\* Two before a list are one before a list that has the other first.
LEMMA TwoFirst ==
  ASSUME NEW U, NEW a \in U, NEW b \in U, NEW t \in Seq(U)
  PROVE  <<a, b>> \o t = <<a>> \o (<<b>> \o t)
<1> DEFINE l == <<a, b>> \o t
           m == <<b>> \o t
           r == <<a>> \o m
           n == Len(t)
<1>1. n \in Nat /\ <<a, b>> \in Seq(U) /\ <<a>> \in Seq(U) /\ <<b>> \in Seq(U)  OBVIOUS
<1>2. /\ m \in Seq(U) /\ Len(m) = n + 1 /\ m[1] = b
      /\ \A i \in 1..n : m[i + 1] = t[i]
  OBVIOUS
<1>3. /\ l \in Seq(U) /\ Len(l) = n + 2 /\ l[1] = a /\ l[2] = b
      /\ \A i \in 1..n : l[i + 2] = t[i]
  OBVIOUS
<1> HIDE DEF m, n
<1>4. /\ r \in Seq(U) /\ Len(r) = (n + 1) + 1 /\ r[1] = a
      /\ \A i \in 1..(n + 1) : r[i + 1] = m[i]
  BY <1>1, <1>2
<1> HIDE DEF l, r
<1>5. ASSUME NEW i \in 1..(n + 2) PROVE l[i] = r[i]
  <2>1. CASE i = 1  BY <1>3, <1>4, <2>1
  <2>2. CASE i = 2
    <3>1. 1 \in 1..(n + 1) /\ 1 + 1 = 2  BY <1>1
    <3>2. r[1 + 1] = m[1]  BY <1>4, <3>1
    <3> QED  BY <1>2, <1>3, <2>2, <3>1, <3>2
  <2>3. CASE i > 2
    <3>1. /\ i - 2 \in 1..n /\ i - 1 \in 1..(n + 1)
          /\ (i - 2) + 2 = i /\ (i - 2) + 1 = i - 1 /\ (i - 1) + 1 = i
      BY <1>1, <2>3
    <3>2. l[(i - 2) + 2] = t[i - 2] /\ m[(i - 2) + 1] = t[i - 2] /\ r[(i - 1) + 1] = m[i - 1]
      BY <1>2, <1>3, <1>4, <3>1
    <3> QED  BY <3>1, <3>2
  <2> QED  BY <1>1, <2>1, <2>2, <2>3
<1>6. n + 2 = (n + 1) + 1  BY <1>1
<1>7. l = r  BY <1>3, <1>4, <1>5, <1>6
<1> QED  BY <1>7 DEF l, r, m

\* The engine emits a suggestion from inside its handler.
LEMMA BusSuggests ==
  ASSUME BusInv, Bus!Suggest
  PROVE  BusInv'
<1> DEFINE type == "skill.suggested"
           f == Bus!Frame(Len(kind) + 1, Bus!Listeners(type), "handlers")
<1>1. /\ Bus!Calling("engine") /\ ~throttled /\ throttled' = TRUE /\ Bus!Emit(type)
      /\ frames' = <<f, Bus!Called>> \o Tail(frames)
      /\ UNCHANGED <<attached, handlers, once, stream, wants, queue, polled, since, hint,
                     file, aside, torn, lost, heard>>
  BY DEF Bus!Suggest
<1>2. type \in Bus!Type /\ "engine" \notin Stream  BY BusConstants DEF Bus!Type
<1>3. /\ frames # <<>> /\ CalledFrames \in Seq(BusFrame(BusCallers))
      /\ frames[1].id \in 1..Len(kind)
      /\ FramesOK(CalledFrames, kind, handlers, throttled, file, lost)
      /\ Written(file, aside, lost, kind, CalledFrames)
      /\ CalledFrames[1].id = frames[1].id /\ Len(CalledFrames) = Len(frames)
  BY <1>1, BusCalling
<1>4. \E p \in Bus!Pattern :
        Registered(handlers, "engine", p) /\ kind[frames[1].id] \in Bus!Covers(p)
  BY <1>1, BusCalling
<1>5. StreamsOK(CalledFrames)  BY <1>1, <1>2, BusOthers
<1>6. /\ kind \in Seq(Bus!Type) /\ frames \in Seq(BusFrame(BusCallers))
      /\ FramesOK(frames, kind, handlers, throttled, file, lost)
  BY DEF BusInv, BusTyped, BusCallers
<1>7. Len(frames) = 1 /\ frames[1].id = Len(kind)
  <2>1. Len(frames) <= 2 /\ throttled # TRUE  BY <1>1, <1>6 DEF FramesOK
  <2>2. Len(frames) = 1 \/ Len(frames) = 2
    <3>1. \A n \in Nat : n <= 2 /\ n # 0 => n = 1 \/ n = 2  OBVIOUS
    <3>2. Len(frames) \in Nat /\ Len(frames) # 0
      <4> DEFINE E == BusFrame(BusCallers)
      <4>1. frames \in Seq(E)  BY <1>6
      <4> HIDE DEF E
      <4> QED  BY <1>3, <4>1
    <3> QED  BY <2>1, <3>1, <3>2
  <2> QED  BY <1>6, <2>1, <2>2 DEF FramesOK
<1>8. Len(kind) # 0 /\ kind[Len(kind)] # "skill.suggested"
  <2>1. PICK p \in Bus!Pattern :
          Registered(handlers, "engine", p) /\ kind[frames[1].id] \in Bus!Covers(p)
    BY <1>4
  <2>2. p = "ide.file_changed"  BY <2>1 DEF BusInv, HandlersOK
  <2>3. Bus!Covers("ide.file_changed") = {"ide.file_changed"}  BY DEF Bus!Covers, Bus!Type
  <2>4. kind[Len(kind)] = "ide.file_changed"  BY <1>7, <2>1, <2>2, <2>3
  <2>5. Len(kind) # 0
    <3>1. \A n \in Nat : n \in 1..n => n # 0  OBVIOUS
    <3>2. Len(kind) \in Nat /\ Len(kind) \in 1..Len(kind)  BY <1>3, <1>6, <1>7
    <3> QED  BY <3>1, <3>2
  <2> QED  BY <2>4, <2>5
<1>9. frames' = <<f>> \o CalledFrames
  <2> DEFINE E == BusFrame(BusCallers)
             c == Bus!Called
             t == Tail(frames)
  <2>1. t \in Seq(E)
    <3>1. frames \in Seq(E)  BY <1>6
    <3> HIDE DEF E
    <3> QED  BY <1>3, <3>1
  <2>2. \A a : a \in {f, c} => TRUE  OBVIOUS
  <2> DEFINE V == {f, c} \cup E
  <2>3. f \in V /\ c \in V  OBVIOUS
  <2>4. t \in Seq(V)
    <3> HIDE DEF E, t, f, c
    <3>1. E \subseteq V  OBVIOUS
    <3> HIDE DEF V
    <3> QED  BY <2>1, <3>1
  <2>5. frames' = <<f, c>> \o t /\ CalledFrames = <<c>> \o t  BY <1>1 DEF CalledFrames
  <2> HIDE DEF V, f, c, t
  <2>6. <<f, c>> \o t = <<f>> \o (<<c>> \o t)  BY <2>3, <2>4, TwoFirst
  <2> QED  BY <2>5, <2>6
<1>10. f = Bus!Frame(Len(kind) + 1, Bus!Listeners(type), "handlers")  OBVIOUS
<1>11. Len(CalledFrames) = 1 /\ CalledFrames[1].id = Len(kind)  BY <1>3, <1>7
<1> DEFINE kinds == \/ type # "skill.suggested" /\ Cardinality(Plain(kind)) < MaxEvents
                    \/ type = "skill.suggested" /\ Len(kind) # 0
                       /\ kind[Len(kind)] # "skill.suggested"
<1>12. kinds  BY <1>8
<1>13. throttled' \in BOOLEAN /\ throttled' = TRUE  BY <1>1
<1> HIDE DEF f
<1> QED  BY <1>1, <1>2, <1>3, <1>5, <1>9, <1>10, <1>11, <1>12, <1>13, BusBegins

\* The once handlers are called, and then the transports are.
LEMMA BusCallsOnce ==
  ASSUME BusInv, Bus!CallOnce
  PROVE  BusInv'
<1> DEFINE f == Bus!Frame(Bus!top.id, <<>>, "transports")
           fr2 == <<f>> \o Tail(frames)
           E == BusFrame(BusCallers)
<1>1. /\ frames # <<>> /\ Bus!top.left = <<>>
      /\ heard' = [p \in Bus!Pattern |->
                     IF p \in Bus!Due THEN Append(heard[p], Bus!top.id) ELSE heard[p]]
      /\ once' = once \ Bus!Due
      /\ frames' = fr2
      /\ UNCHANGED <<attached, handlers, kind, buffer, dropped, throttled, stream, wants,
                     queue, polled, since, hint, file, aside, torn, lost>>
  BY DEF Bus!CallOnce
<1>2. /\ frames \in Seq(E) /\ kind \in Seq(Bus!Type) /\ heard \in [Bus!Pattern -> Seq(Nat)]
      /\ FramesOK(frames, kind, handlers, throttled, file, lost)
      /\ Written(file, aside, lost, kind, frames)
  BY DEF BusInv, BusTyped, BusCallers
<1>3. /\ Bus!top = frames[1] /\ Len(frames) \in Nat /\ 1 \in 1..Len(frames) /\ frames[1] \in E
      /\ Tail(frames) \in Seq(E) /\ Len(Tail(frames)) = Len(frames) - 1
      /\ \A m \in 1..(Len(frames) - 1) : Tail(frames)[m] = frames[m + 1]
  <2> HIDE DEF E
  <2> QED  BY <1>1, <1>2 DEF Bus!top
<1>4. frames[1].id \in Nat /\ frames[1].left = <<>>  BY <1>1, <1>3 DEF BusFrame
<1>5. f \in E /\ f.id = frames[1].id /\ f.left = <<>> /\ f.at = "transports"
  <2> DEFINE i == frames[1].id
             V == Seq(BusCallers)
  <2>1. i \in Nat /\ <<>> \in V  BY <1>4
  <2>2. f = [id |-> i, left |-> <<>>, at |-> "transports"]  BY <1>3 DEF Bus!Frame
  <2> HIDE DEF i, V, f
  <2>3. [id |-> i, left |-> <<>>, at |-> "transports"]
          \in [id : Nat, left : V, at : {"handlers", "transports"}]
    BY <2>1
  <2>4. f \in [id : Nat, left : V, at : {"handlers", "transports"}]  BY <2>2, <2>3, Zenon
  <2>5. f.id = i /\ f.left = <<>> /\ f.at = "transports"  BY <2>2
  <2> QED  BY <2>4, <2>5 DEF i, V, BusFrame
<1> HIDE DEF f
<1>6. /\ fr2 \in Seq(E) /\ Len(fr2) = Len(frames) /\ fr2[1] = f
      /\ \A m \in 1..Len(frames) : m # 1 => fr2[m] = frames[m]
  <2> DEFINE t == Tail(frames)
  <2>1. /\ t \in Seq(E) /\ Len(t) = Len(frames) - 1
        /\ \A m \in 1..(Len(frames) - 1) : t[m] = frames[m + 1]
    BY <1>3
  <2> HIDE DEF E, t
  <2>2. /\ <<f>> \o t \in Seq(E) /\ Len(<<f>> \o t) = Len(t) + 1 /\ (<<f>> \o t)[1] = f
        /\ \A m \in 1..Len(t) : (<<f>> \o t)[m + 1] = t[m]
    BY <1>5, <2>1
  <2> DEFINE g == <<f>> \o t
  <2>3. /\ g \in Seq(E) /\ Len(g) = Len(t) + 1 /\ g[1] = f
        /\ \A m \in 1..Len(t) : g[m + 1] = t[m]
    BY <2>2
  <2> HIDE DEF g
  <2>4. \A m \in 1..Len(frames) : m # 1 => g[m] = frames[m]
    <3> TAKE m \in 1..Len(frames)
    <3> HAVE m # 1
    <3>1. m - 1 \in 1..(Len(frames) - 1) /\ (m - 1) + 1 = m /\ m - 1 \in 1..Len(t)
      BY <1>3, <2>1
    <3>2. g[(m - 1) + 1] = t[m - 1] /\ t[m - 1] = frames[(m - 1) + 1]
      BY <2>1, <2>3, <3>1
    <3> QED  BY <3>1, <3>2
  <2>5. Len(g) = Len(frames)  BY <1>3, <2>1, <2>3
  <2> QED  BY <2>3, <2>4, <2>5 DEF g, t
<1> HIDE DEF fr2
<1>7. \A m \in 1..Len(frames) :
        /\ fr2[m].id = frames[m].id /\ fr2[m].left = frames[m].left
        /\ m # 1 => fr2[m].at = frames[m].at
  <2> TAKE m \in 1..Len(frames)
  <2>1. CASE m = 1  BY <1>4, <1>5, <1>6, <2>1
  <2>2. CASE m # 1  BY <1>6, <2>2
  <2> QED  BY <2>1, <2>2
<1>8. FramesOK(fr2, kind, handlers, throttled, file, lost)
  <2>1. \A m \in 1..Len(frames) : /\ frames[m].id \in 1..Len(kind)
                                  /\ AllWanted(frames[m].left, handlers, kind[frames[m].id])
                                  /\ frames[m].at = "transports" => frames[m].left = <<>>
    BY <1>2 DEF FramesOK, AboutKnown
  <2>2. \A m \in 1..Len(fr2) : /\ fr2[m].id \in 1..Len(kind)
                               /\ AllWanted(fr2[m].left, handlers, kind[fr2[m].id])
                               /\ fr2[m].at = "transports" => fr2[m].left = <<>>
    <3> TAKE m \in 1..Len(fr2)
    <3>1. m \in 1..Len(frames)  BY <1>6
    <3>2. m = 1 => fr2[m].left = <<>>  BY <1>5, <1>6
    <3> QED  BY <1>7, <2>1, <3>1, <3>2
  <2>3. fr2[1].id = frames[1].id /\ (Len(frames) = 2 => fr2[2].id = frames[2].id)
    <3>1. Len(frames) = 2 => 2 \in 1..Len(frames)  BY <1>3
    <3> QED  BY <1>3, <1>7, <3>1
  <2> QED  BY <1>2, <1>6, <2>2, <2>3 DEF FramesOK, AboutKnown
<1>9. Written(file, aside, lost, kind, fr2)
  <2>1. SameIds(frames, fr2)  BY <1>6, <1>7 DEF SameIds
  <2> QED  BY <1>2, <2>1, WrittenSame
<1>10. BusGot'
  <2> SUFFICES ASSUME NEW s \in Stream
               PROVE  StreamOK(polled[s] \o queue[s], stream[s], since[s], wants[s],
                               kind, fr2, s)
    BY <1>1 DEF BusGot
  <2>1. StreamOK(polled[s] \o queue[s], stream[s], since[s], wants[s], kind, frames, s)
    BY DEF BusInv, BusGot
  <2>2. SameTo(s, frames, fr2)  BY <1>6, <1>7 DEF SameTo
  <2> QED  BY <2>1, <2>2, StreamSame
<1>11. Len(kind) \in Nat /\ frames[1].id \in 1..Len(kind)
  BY <1>2, <1>3 DEF FramesOK, AboutKnown
<1>12. \A p \in Bus!Due : p \in Bus!Pattern /\ p \in once /\ heard[p] = <<>>
  BY DEF Bus!Due, BusInv, BusTyped, BusHeard
<1>13. \A p \in Bus!Pattern :
        /\ heard'[p] \in Seq(Nat) /\ Known(heard'[p], Len(kind)) /\ Len(heard'[p]) <= 1
        /\ p \in once \ Bus!Due => heard'[p] = <<>>
  <2> TAKE p \in Bus!Pattern
  <2>1. CASE p \in Bus!Due
    <3> DEFINE x == frames[1].id
    <3>1. heard'[p] = Append(<<>>, x) /\ x \in 1..Len(kind) /\ x \in Nat
      BY <1>1, <1>3, <1>4, <1>11, <1>12, <2>1
    <3> HIDE DEF x
    <3>2. heard'[p] = <<x>>  BY <3>1
    <3> QED  BY <2>1, <3>1, <3>2 DEF Known
  <2>2. CASE p \notin Bus!Due  BY <1>1, <1>2, <2>2 DEF BusInv, BusHeard
  <2> QED  BY <2>1, <2>2
<1>14. heard' \in [Bus!Pattern -> Seq(Nat)]
  <2>1. heard' = [p \in Bus!Pattern |-> heard'[p]]  BY <1>1
  <2> QED  BY <1>13, <2>1
<1>15. BusTyped'  BY <1>1, <1>6, <1>14 DEF BusInv, BusTyped, BusCallers
<1>16. BusHeard'  BY <1>1, <1>13 DEF BusHeard
<1>17. (FramesOK(frames, kind, handlers, throttled, file, lost)
       /\ Written(file, aside, lost, kind, frames))'
  BY <1>1, <1>8, <1>9
<1>18. (HandlersOK(handlers, stream, wants)
        /\ BufferOK(buffer, dropped, Len(kind)) /\ KindsOK(kind))'
  BY <1>1 DEF BusInv
<1> QED  BY <1>10, <1>15, <1>16, <1>17, <1>18 DEF BusInv

\* The transports have been called: the event is in the file, and emit returns.
LEMMA BusDelivers ==
  ASSUME BusInv, Bus!Deliver
  PROVE  BusInv'
<1> DEFINE E == BusFrame(BusCallers)
<1>1. /\ frames # <<>> /\ Bus!top.at = "transports"
      /\ \/ Len(file) >= MaxLines /\ aside' = file /\ Bus!Write(<<>>, FALSE)
         \/ Len(file) >= MaxLines /\ aside' \in {aside, <<>>} /\ Bus!Write(file, torn)
         \/ aside' = aside /\ Bus!Write(file, torn)
      /\ frames' = Tail(frames)
      /\ UNCHANGED <<attached, handlers, once, kind, buffer, dropped, throttled, stream,
                     wants, queue, polled, since, hint, heard>>
  BY DEF Bus!Deliver
<1>2. /\ frames \in Seq(E) /\ kind \in Seq(Bus!Type)
      /\ FramesOK(frames, kind, handlers, throttled, file, lost)
      /\ Written(file, aside, lost, kind, frames)
  BY DEF BusInv, BusTyped, BusCallers
<1>3. Bus!top = frames[1] /\ Len(frames) \in Nat /\ Len(frames) # 0 /\ 1 \in 1..Len(frames)
  <2> HIDE DEF E
  <2> QED  BY <1>1, <1>2 DEF Bus!top
<1>4. frames[1].left = <<>>  BY <1>1, <1>2, <1>3 DEF FramesOK
<1> DEFINE x == frames[1].id
<1>5. /\ x \in 1..Len(kind)
      /\ x = Len(kind) \/ (Overtakes(x, Len(kind), kind) /\ Saved(file, lost, Len(kind)))
  <2>1. Len(frames) <= 2  BY <1>2 DEF FramesOK
  <2>2. Len(frames) = 1 \/ Len(frames) = 2
    <3>1. \A n \in Nat : n <= 2 /\ n # 0 => n = 1 \/ n = 2  OBVIOUS
    <3> QED  BY <1>3, <2>1, <3>1
  <2> QED  BY <1>2, <1>3, <2>2 DEF FramesOK, AboutKnown
<1>6. Apart(frames)  BY <1>2, FramesApart
<1>7. Written(file', aside', lost', kind, Tail(frames)) /\ Saved(file', lost', x)
      /\ torn' \in BOOLEAN
  <2>1. x = frames[1].id /\ Bus!top.id = x  BY <1>3
  <2> HIDE DEF x
  <2>2. torn' \in BOOLEAN  BY <1>1 DEF Bus!Write
  <2>3. \/ Rotated(file, aside, file', aside', x) /\ lost' = lost
        \/ Dropped(file, aside, file', aside') /\ lost' = lost \cup {x}
    <3>1. CASE Len(file) >= MaxLines /\ aside' = file /\ Bus!Write(<<>>, FALSE)
      <4>1. Append(<<>>, x) = <<x>>  OBVIOUS
      <4> QED  BY <2>1, <3>1, <4>1 DEF Bus!Write, Rotated, Dropped
    <3>2. CASE Len(file) >= MaxLines /\ aside' \in {aside, <<>>} /\ Bus!Write(file, torn)
      BY <2>1, <3>2 DEF Bus!Write, Rotated, Dropped
    <3>3. CASE aside' = aside /\ Bus!Write(file, torn)
      BY <2>1, <3>3 DEF Bus!Write, Rotated, Dropped
    <3> QED  BY <1>1, <3>1, <3>2, <3>3
  <2>4. CASE Rotated(file, aside, file', aside', x) /\ lost' = lost
    BY <1>1, <1>2, <1>5, <1>6, <2>1, <2>2, <2>4, BusConstants, WrittenGrows
  <2>5. CASE Dropped(file, aside, file', aside') /\ lost' = lost \cup {x}
    BY <1>1, <1>2, <1>5, <1>6, <2>1, <2>2, <2>5, BusConstants, WrittenLoses
  <2> QED  BY <2>3, <2>4, <2>5
<1>8. FramesOK(Tail(frames), kind, handlers, throttled, file', lost') /\ Tail(frames) \in Seq(E)
  BY <1>1, <1>2, <1>7, FramesEnd
<1>9. BusGot'
  <2> SUFFICES ASSUME NEW s \in Stream
               PROVE  StreamOK(polled[s] \o queue[s], stream[s], since[s], wants[s],
                               kind, Tail(frames), s)
    BY <1>1 DEF BusGot
  <2>1. StreamOK(polled[s] \o queue[s], stream[s], since[s], wants[s], kind, frames, s)
    BY DEF BusInv, BusGot
  <2> QED  BY <1>1, <1>2, <1>4, <2>1, StreamEnds
<1>10. BusTyped'  BY <1>1, <1>7, <1>8 DEF BusInv, BusTyped, BusCallers
<1>11. (FramesOK(frames, kind, handlers, throttled, file, lost)
       /\ Written(file, aside, lost, kind, frames))'
  BY <1>1, <1>7, <1>8
<1>12. (HandlersOK(handlers, stream, wants) /\ BusHeard
        /\ BufferOK(buffer, dropped, Len(kind)) /\ KindsOK(kind))'
  BY <1>1 DEF BusInv, BusHeard
<1> QED  BY <1>9, <1>10, <1>11, <1>12 DEF BusInv

\* Every step of the bus keeps its invariant.
LEMMA BusKeeps ==
  ASSUME BusInv, Bus!Next \/ UNCHANGED busVars
  PROVE  BusInv'
<1>1. CASE UNCHANGED busVars  BY <1>1, BusStays
<1>2. CASE \E s \in Stream : Bus!Subscribe(s) \/ Bus!Unsubscribe(s) \/ Bus!Poll(s)
                               \/ Bus!CallStream(s)
  BY <1>2, BusSubscribes, BusUnsubscribes, BusPolls, BusCallsStream
<1>3. CASE \E pattern \in Onces : Bus!Once(pattern)  BY <1>3, BusOnces
<1>4. CASE Bus!Publish  BY <1>4, BusPublishes
<1>5. CASE Bus!Suggest  BY <1>5, BusSuggests
<1>6. CASE Bus!SuggestNothing  BY <1>6, BusSuggestsNothing
<1>7. CASE Bus!WriteHint  BY <1>7, BusHints
<1>8. CASE Bus!CallOnce  BY <1>8, BusCallsOnce
<1>9. CASE Bus!Deliver  BY <1>9, BusDelivers
<1>10. CASE Bus!Quiet  BY <1>10, BusQuiet
<1> QED
  BY <1>1, <1>2, <1>3, <1>4, <1>5, <1>6, <1>7, <1>8, <1>9, <1>10 DEF Bus!Next

\* The engine and the hooks are the only ones that are registered at first.
LEMMA BusFirst ==
  ASSUME Bus!Init
  PROVE  /\ handlers \in HandlerLists(BusCallers) /\ Alone(handlers)
         /\ \A w, p : Registered(handlers, w, p) =>
              (w = "engine" /\ p = "ide.file_changed") \/ w = "hooks"
<1> DEFINE a == Bus!Entry("ide.file_changed", <<"engine">>)
           b == Bus!Entry("skill.suggested", <<"hooks">>)
           E == [pattern : Bus!Pattern, who : Seq(BusCallers)]
<1>1. handlers = (IF "engine" \in attached THEN <<a>> ELSE <<>>)
                 \o (IF "hooks" \in attached THEN <<b>> ELSE <<>>)
  BY DEF Bus!Init
<1>2. /\ a.pattern = "ide.file_changed" /\ a.who = <<"engine">>
      /\ b.pattern = "skill.suggested" /\ b.who = <<"hooks">>
  BY DEF Bus!Entry
<1>3. "engine" \in attached => a \in E
  BY DEF Bus!Entry, Bus!Pattern, Bus!Type, BusCallers
<1>4. "hooks" \in attached => b \in E
  BY DEF Bus!Entry, Bus!Pattern, Bus!Type, BusCallers
<1>5. \A w : (Holds(a.who, w) => w = "engine") /\ (Holds(b.who, w) => w = "hooks")
  BY <1>2 DEF Holds
<1> HIDE DEF a, b, E
<1>6. /\ handlers \in Seq(E) /\ Len(handlers) \in Nat
      /\ \A i \in 1..Len(handlers) : handlers[i] \in {a, b}
      /\ \A i, j \in 1..Len(handlers) : handlers[i] = handlers[j] => i = j
  <2>1. a # b  BY <1>2
  <2>2. CASE "engine" \in attached /\ "hooks" \in attached
    <3> DEFINE V == {a, b}
    <3>2. <<a>> \in Seq(V) /\ <<b>> \in Seq(V)  OBVIOUS
    <3>3. handlers = <<a>> \o <<b>>  BY <1>1, <2>2
    <3>1. handlers = <<a, b>>
      <4> DEFINE c == <<a>> \o <<b>>
      <4> HIDE DEF V
      <4>1. /\ c \in Seq(V) /\ Len(c) = Len(<<a>>) + Len(<<b>>)
            /\ \A i \in 1..Len(<<a>>) : c[i] = <<a>>[i]
            /\ \A i \in 1..Len(<<b>>) : c[Len(<<a>>) + i] = <<b>>[i]
        BY <3>2, JoinKeeps
      <4>2. Len(<<a>>) = 1 /\ Len(<<b>>) = 1 /\ <<a>>[1] = a /\ <<b>>[1] = b  OBVIOUS
      <4> HIDE DEF c
      <4>3. c \in Seq(V) /\ Len(c) = 2 /\ c[1] = a /\ c[2] = b
        <5>1. 1 \in 1..1 /\ 1 + 1 = 2  OBVIOUS
        <5> QED  BY <4>1, <4>2, <5>1
      <4>4. c = <<a, b>>  BY <4>3
      <4> QED  BY <3>3, <4>4 DEF c
    <3> QED  BY <1>3, <1>4, <2>1, <2>2, <3>1
  <2>3. CASE "engine" \in attached /\ "hooks" \notin attached
    <3>1. handlers = <<a>>  BY <1>1, <2>3
    <3> QED  BY <1>3, <2>3, <3>1
  <2>4. CASE "engine" \notin attached /\ "hooks" \in attached
    <3>1. handlers = <<b>>  BY <1>1, <2>4
    <3> QED  BY <1>4, <2>4, <3>1
  <2>5. CASE "engine" \notin attached /\ "hooks" \notin attached
    <3>1. handlers = <<>>  BY <1>1, <2>5
    <3> QED  BY <3>1
  <2> QED  BY <2>2, <2>3, <2>4, <2>5
<1>7. handlers \in HandlerLists(BusCallers)  BY <1>6 DEF HandlerLists, E
<1>8. Alone(handlers)
  <2>1. \A x, y \in {a, b} : x.pattern = y.pattern => x = y  BY <1>2
  <2> QED  BY <1>6, <2>1 DEF Alone
<1>9. ASSUME NEW w, NEW p, Registered(handlers, w, p)
      PROVE  (w = "engine" /\ p = "ide.file_changed") \/ w = "hooks"
  <2>1. PICK i \in 1..Len(handlers) : Holds(handlers[i].who, w) /\ handlers[i].pattern = p
    BY <1>9 DEF Registered
  <2>2. handlers[i] = a \/ handlers[i] = b  BY <1>6
  <2> QED  BY <1>2, <1>5, <2>1, <2>2
<1> QED  BY <1>7, <1>8, <1>9

\* The invariant holds at first.
LEMMA BusStarts ==
  ASSUME Bus!Init
  PROVE  BusInv
<1> USE BusConstants
<1>1. /\ handlers \in HandlerLists(BusCallers) /\ Alone(handlers)
      /\ \A w, p : Registered(handlers, w, p) =>
           (w = "engine" /\ p = "ide.file_changed") \/ w = "hooks"
  BY BusFirst
<1>2. /\ attached \in SUBSET {"engine", "hooks"}
      /\ once = {} /\ heard = [p \in Bus!Pattern |-> <<>>]
      /\ kind = <<>> /\ buffer = <<>> /\ dropped = 0 /\ frames = <<>>
      /\ throttled = FALSE
      /\ stream = [s \in Stream |-> "new"] /\ wants = [s \in Stream |-> <<>>]
      /\ queue = [s \in Stream |-> <<>>] /\ polled = queue
      /\ since = [s \in Stream |-> 0]
      /\ hint = 0 /\ file = <<>> /\ aside = <<>> /\ torn = FALSE /\ lost = {}
  BY DEF Bus!Init
<1>3. /\ Len(<<>>) = 0 /\ \A U : <<>> \in Seq(U)
      /\ \A x : ~Holds(<<>>, x) /\ \A m : m \notin 1..0
  BY DEF Holds
<1>4. BusTyped  BY <1>1, <1>2, <1>3 DEF BusTyped, BusCallers
<1>5. FramesOK(frames, kind, handlers, throttled, file, lost)  BY <1>2, NoFrames
<1>6. HandlersOK(handlers, stream, wants)
  <2>1. \A s \in Stream : stream[s] = "new"  BY <1>2
  <2> QED  BY <1>1, <2>1 DEF HandlersOK
<1>7. \A fr : Kept(<<>>, {}, kind, fr) /\ InOrder(<<>>, kind) /\ Known(<<>>, Len(kind))
  BY <1>3 DEF Kept, Known, Distinct, Gapless, InOrder
<1>8. BusGot
  <2> SUFFICES ASSUME NEW s \in Stream
               PROVE  StreamOK(polled[s] \o queue[s], stream[s], since[s], wants[s],
                               kind, frames, s)
    BY DEF BusGot
  <2>1. polled[s] \o queue[s] = <<>> /\ stream[s] = "new"  BY <1>2
  <2> QED  BY <1>3, <1>7, <2>1 DEF StreamOK
<1>9. Written(file, aside, lost, kind, frames)
  <2>1. <<>> \o <<>> = <<>>  OBVIOUS
  <2>2. Failed({}, kind, frames) /\ Cardinality({}) = 0  BY FS_EmptySet DEF Failed
  <2> QED  BY <1>2, <1>3, <1>7, <2>1, <2>2 DEF Written
<1>10. BusHeard
  <2>1. \A p \in Bus!Pattern : heard[p] = <<>>  BY <1>2
  <2> QED  BY <1>3, <1>7, <2>1 DEF BusHeard
<1>11. BufferOK(buffer, dropped, Len(kind))  BY <1>2, <1>3 DEF BufferOK, Last
<1>12. KindsOK(kind)
  <2>1. Plain(kind) = {}  BY <1>2 DEF Plain
  <2>2. Cardinality(Plain(kind)) = 0  BY <2>1, FS_EmptySet
  <2> QED  BY <1>2, <1>3, <2>2 DEF KindsOK
<1> QED  BY <1>4, <1>5, <1>6, <1>8, <1>9, <1>10, <1>11, <1>12 DEF BusInv

\* The parts of a list of known events are of known events.
LEMMA JoinKnown ==
  ASSUME NEW a \in Seq(Nat), NEW b \in Seq(Nat), NEW n, Known(a \o b, n)
  PROVE  Known(a, n) /\ Known(b, n)
<1> DEFINE c == a \o b
<1>1. /\ Len(c) = Len(a) + Len(b)
      /\ \A i \in 1..Len(a) : c[i] = a[i]
      /\ \A i \in 1..Len(b) : c[Len(a) + i] = b[i]
  BY JoinKeeps
<1>2. Len(a) \in Nat /\ Len(b) \in Nat  OBVIOUS
<1>3. \A i \in 1..Len(c) : c[i] \in 1..n  BY DEF Known
<1> HIDE DEF c
<1>4. /\ \A i \in 1..Len(a) : i \in 1..Len(c)
      /\ \A i \in 1..Len(b) : Len(a) + i \in 1..Len(c)
  BY <1>1, <1>2
<1> QED  BY <1>1, <1>3, <1>4 DEF Known

\* The types: events are numbered up to twice those that are published.
LEMMA BusTypesRight ==
  ASSUME BusInv
  PROVE  Bus!TypeOK
<1> USE BusConstants
<1> DEFINE n == Len(kind)
           m == 2 * MaxEvents
<1>1. /\ BusTyped /\ BufferOK(buffer, dropped, n) /\ Written(file, aside, lost, kind, frames)
      /\ FramesOK(frames, kind, handlers, throttled, file, lost) /\ KindsOK(kind)
  BY DEF BusInv
<1>2. kind \in Seq(Bus!Type)  BY <1>1 DEF BusTyped
<1>3. n \in Nat /\ n <= m /\ m \in Nat  BY <1>1, <1>2, KindsBounded
<1>4. \A l \in Seq(Nat) : Known(l, n) => l \in Seq(1..m)
  <2> TAKE l \in Seq(Nat)
  <2> HAVE Known(l, n)
  <2> HIDE DEF n, m
  <2>1. \A x \in 1..n : x \in 1..m  BY <1>3
  <2>2. \A i \in 1..Len(l) : l[i] \in 1..m  BY <2>1 DEF Known
  <2> DEFINE V == 1..m
  <2>3. \A i \in 1..Len(l) : l[i] \in V  BY <2>2
  <2> HIDE DEF V
  <2>4. l \in Seq(V)  BY <2>3
  <2> QED  BY <2>4 DEF V
<1>5. Bus!Ids = Seq(1..m)  BY DEF Bus!Ids
<1> HIDE DEF n, m
<1>6. buffer \in Bus!Ids /\ Len(buffer) <= BufferSize /\ dropped \in Nat
  <2>1. buffer \in Seq(Nat) /\ Known(buffer, n)
    BY <1>1, <1>3, BufferKnown DEF BufferOK, Last
  <2> QED  BY <1>1, <1>4, <1>5, <2>1 DEF BufferOK, Last
<1>7. file \in Bus!Ids /\ aside \in Bus!Ids
  <2>1. file \in Seq(Nat) /\ Known(file, n) /\ aside \in Seq(Nat) /\ Known(aside \o file, n)
    BY <1>1 DEF Written, Kept, n
  <2>2. Known(aside, n)  BY <2>1, JoinKnown
  <2> QED  BY <1>4, <1>5, <2>1, <2>2
<1>8. \A s \in Stream : queue[s] \in Bus!Ids /\ polled[s] \in Bus!Ids
  <2> TAKE s \in Stream
  <2>1. queue[s] \in Seq(Nat) /\ polled[s] \in Seq(Nat)  BY <1>1 DEF BusTyped
  <2>2. Known(polled[s] \o queue[s], n)  BY DEF BusInv, BusGot, StreamOK, n
  <2>3. Known(polled[s], n) /\ Known(queue[s], n)  BY <2>1, <2>2, JoinKnown
  <2> QED  BY <1>4, <1>5, <2>1, <2>3
<1>9. \A p \in Bus!Pattern : heard[p] \in Bus!Ids
  <2> TAKE p \in Bus!Pattern
  <2>1. heard[p] \in Seq(Nat) /\ Known(heard[p], n)
    BY <1>1 DEF BusTyped, BusInv, BusHeard, n
  <2> QED  BY <1>4, <1>5, <2>1
<1>10. \A i \in DOMAIN handlers :
         handlers[i].pattern \in Bus!Pattern
           /\ Bus!Range(handlers[i].who) \subseteq Stream \cup attached
  <2> DEFINE E == [pattern : Bus!Pattern, who : Seq(BusCallers)]
  <2>1. handlers \in Seq(E)  BY <1>1 DEF BusTyped, HandlerLists, BusCallers
  <2>2. \A i \in DOMAIN handlers : handlers[i] \in E
    <3> HIDE DEF E
    <3> QED  BY <2>1
  <2>3. \A i \in DOMAIN handlers :
          handlers[i].pattern \in Bus!Pattern /\ handlers[i].who \in Seq(BusCallers)
    BY <2>2
  <2>4. \A who \in Seq(BusCallers) : Bus!Range(who) \subseteq BusCallers  BY DEF Bus!Range
  <2> QED  BY <2>3, <2>4 DEF BusCallers
<1>11. Len(frames) <= 2  BY <1>1 DEF FramesOK
<1>12. lost \subseteq 1..m
  <2>1. lost \in SUBSET (1..n)  BY <1>1 DEF Written, Failed, n
  <2>2. \A x \in 1..n : x \in 1..m  BY <1>3
  <2> QED  BY <2>1, <2>2
<1>13. queue \in [Stream -> Bus!Ids] /\ polled \in [Stream -> Bus!Ids]
       /\ heard \in [Bus!Pattern -> Bus!Ids]
  BY <1>1, <1>8, <1>9 DEF BusTyped
<1> QED
  BY <1>1, <1>6, <1>7, <1>10, <1>11, <1>12, <1>13 DEF Bus!TypeOK, BusTyped, m

\* Nothing is lost.
LEMMA BusWhole ==
  ASSUME BusInv
  PROVE  Bus!EventsWhole
<1> USE BusConstants
<1> DEFINE n == Len(kind)
           lines == aside \o file
<1>1. /\ BusTyped /\ BufferOK(buffer, dropped, n) /\ Written(file, aside, lost, kind, frames)
      /\ BusGot /\ BusHeard
  BY DEF BusInv
<1>2. /\ file \in Seq(Nat) /\ lines \in Seq(Nat) /\ InOrder(file, kind) /\ Distinct(lines)
      /\ DOMAIN lines = 1..Len(lines)
  <2>1. Kept(file, lost, kind, frames) /\ Kept(lines, lost, kind, frames) /\ InOrder(file, kind)
    BY <1>1 DEF Written
  <2> HIDE DEF lines
  <2>2. file \in Seq(Nat) /\ lines \in Seq(Nat) /\ Distinct(lines)  BY <2>1 DEF Kept
  <2> QED  BY <2>1, <2>2
<1>3. \A ids \in Seq(Nat) : InOrder(ids, kind) => Bus!Ordered(ids)
  BY DEF InOrder, Overtakes, Bus!Ordered
<1>4. \A p \in Bus!Pattern : Len(heard[p]) <= 1  BY <1>1 DEF BusHeard
<1>5. \A s \in Stream :
        /\ polled[s] \o queue[s] \in Seq(Nat) /\ InOrder(polled[s] \o queue[s], kind)
        /\ stream[s] = "gone" => \A i \in 1..Len(polled[s] \o queue[s]) :
                                   (polled[s] \o queue[s])[i] <= since[s]
        /\ stream[s] = "open" =>
             Complete(polled[s] \o queue[s], wants[s], since[s], kind, frames, s)
  BY <1>1 DEF BusGot, StreamOK
<1>6. Bus!Ordered(file) /\ \A s \in Stream : Bus!Ordered(polled[s] \o queue[s])
  <2>1. \A s \in Stream : polled[s] \o queue[s] \in Seq(Nat)
                          /\ InOrder(polled[s] \o queue[s], kind)
    BY <1>5
  <2>2. Bus!Ordered(file)  BY <1>2, <1>3
  <2>3. ASSUME NEW s \in Stream PROVE Bus!Ordered(polled[s] \o queue[s])
    <3> DEFINE l == polled[s] \o queue[s]
    <3>1. l \in Seq(Nat) /\ InOrder(l, kind)  BY <2>1
    <3> HIDE DEF l
    <3>2. Bus!Ordered(l)  BY <1>3, <3>1
    <3> QED  BY <3>2 DEF l
  <2> QED  BY <2>2, <2>3
<1>7. /\ Len(buffer) + dropped = Len(kind)
      /\ \A i \in DOMAIN buffer : buffer[i] = dropped + i
  <2>1. buffer \in Seq(Nat)  BY <1>1 DEF BufferOK, Last
  <2>2. DOMAIN buffer = 1..Len(buffer)  BY <2>1
  <2> QED  BY <1>1, <2>2 DEF BufferOK, Last, n
<1>8. \A s \in Stream : stream[s] = "gone" =>
        \A id \in Bus!Range(polled[s] \o queue[s]) : id <= since[s]
  <2> TAKE s \in Stream
  <2> HAVE stream[s] = "gone"
  <2> DEFINE l == polled[s] \o queue[s]
  <2>1. l \in Seq(Nat) /\ \A i \in 1..Len(l) : l[i] <= since[s]  BY <1>5
  <2> HIDE DEF l
  <2>2. DOMAIN l = 1..Len(l)  BY <2>1
  <2>3. \A id \in Bus!Range(l) : id <= since[s]  BY <2>1, <2>2 DEF Bus!Range
  <2> QED  BY <2>3 DEF l
<1>9. Bus!IsInjective(lines)
  <2> HIDE DEF lines
  <2> QED  BY <1>2 DEF Distinct, Bus!IsInjective
<1>10. /\ \A id : id \in Bus!Held <=> Holds(lines, id)
       /\ Bus!Held \cap lost = {}
  <2>1. \A id : id \in Bus!Held <=> Holds(lines, id)  BY DEF Bus!Held, Bus!Range, Holds
  <2>2. \A id : Holds(lines, id) => id \notin lost  BY <1>1 DEF Written, Kept
  <2> QED  BY <2>1, <2>2
<1>11. ASSUME frames = <<>>
       PROVE  /\ \/ Len(lines) >= MaxLines
                 \/ Len(lines) + Bus!Cardinality(lost) >= Len(kind)
              /\ kind # <<>> => Len(kind) \in Bus!Held \cup lost
              /\ \A older \in Bus!Held : \A id \in older + 1 .. Len(kind) :
                   id \in Bus!Held \cup lost \/ (id = older + 1 /\ kind[id] = "skill.suggested")
  <2>1. \A id : ~Pending(frames, id)  BY <1>11 DEF Pending
  <2>2. /\ Kept(lines, lost, kind, frames) /\ Cardinality(lost) \in Nat
        /\ n # 0 => Pending(frames, n) \/ Holds(lines, n) \/ n \in lost
        /\ Len(lines) >= MaxLines \/ Len(lines) + Cardinality(lost) + Len(frames) >= n
    BY <1>1 DEF Written, Failed
  <2> HIDE DEF lines
  <2>3. n \in Nat /\ (kind # <<>> => n # 0)
    <3>1. kind \in Seq(Bus!Type)  BY <1>1 DEF BusTyped
    <3> DEFINE T == Bus!Type
    <3>2. kind \in Seq(T)  BY <3>1
    <3> HIDE DEF T
    <3> QED  BY <3>2
  <2>4. Len(frames) = 0 /\ Len(lines) \in Nat  BY <1>2, <1>11
  <2>5. Len(lines) >= MaxLines \/ Len(lines) + Bus!Cardinality(lost) >= n
    <3>1. Bus!Cardinality(lost) = Cardinality(lost)  BY DEF Bus!Cardinality, Cardinality
    <3> QED  BY <2>2, <2>3, <2>4, <3>1
  <2>6. ASSUME NEW older \in Bus!Held, NEW id \in older + 1 .. n
        PROVE  id \in Bus!Held \cup lost \/ (id = older + 1 /\ kind[id] = "skill.suggested")
    <3>1. Holds(lines, older)  BY <1>10
    <3>2. older \in Nat  BY <1>2, <3>1 DEF Holds
    <3>3. id \in 1..n /\ id > older  BY <2>3, <3>2
    <3>4. Pending(frames, id) \/ Holds(lines, id) \/ id \in lost \/ Overtakes(older, id, kind)
      BY <2>2, <3>1, <3>3 DEF Kept, Gapless, n
    <3> QED  BY <1>10, <2>1, <3>4 DEF Overtakes
  <2> QED  BY <1>10, <2>1, <2>2, <2>3, <2>5, <2>6 DEF n
<1>12. ASSUME frames = <<>>, NEW s \in Stream, stream[s] = "open",
              NEW id \in since[s] + 1 .. Len(kind)
       PROVE  Bus!Cardinality({i \in DOMAIN (polled[s] \o queue[s]) :
                                 (polled[s] \o queue[s])[i] = id})
                = Bus!Cardinality({i \in DOMAIN wants[s] : kind[id] \in Bus!Covers(wants[s][i])})
  <2>1. Count(polled[s] \o queue[s], id) = Covering(wants[s], kind[id])
    <3>1. Complete(polled[s] \o queue[s], wants[s], since[s], kind, frames, s)  BY <1>5, <1>12
    <3>2. ~Pending(frames, id)  BY <1>12 DEF Pending
    <3>3. since[s] \in Nat /\ kind \in Seq(Bus!Type)  BY <1>1 DEF BusTyped
    <3>4. Len(kind) \in Nat  BY <3>3
    <3>5. id \in 1..Len(kind) /\ id > since[s]  BY <3>3, <3>4
    <3> QED  BY <3>1, <3>2, <3>5 DEF Complete
  <2>2. \A S : Bus!Cardinality(S) = Cardinality(S)  BY DEF Bus!Cardinality, Cardinality
  <2> QED  BY <2>1, <2>2 DEF Count, Covering
<1> QED
  BY <1>4, <1>6, <1>7, <1>8, <1>9, <1>10, <1>11, <1>12 DEF Bus!EventsWhole

-----------------------------------------------------------------------------
(* The services together *)

\* A step is one of the part that is followed, and stutters in the others.
LEMMA PartSteps ==
  ASSUME [AnyNext]_all
  PROVE  /\ [Gate!Next]_gateVars /\ [Chain!Next]_chainVars
         /\ [Rest!Next]_restVars /\ [Sockets!Next]_socketVars
         /\ [Reviewers!Next]_rosterVars /\ [Bus!Next]_busVars /\ [Files!Next]_fileVars
BY DEF AnyNext, all

\* Verdicts are backed, and so is what chains and commands run and record.
THEOREM VerdictBackedAlways == AnySpec => []VerdictBacked
<1>1. AnyInit => GateInv /\ RunInv  BY GateStarts, ChainStarts DEF AnyInit
<1>2. GateInv /\ RunInv /\ [AnyNext]_all => (GateInv /\ RunInv)'
  BY PartSteps, GateKeeps, ChainKeeps
<1>3. GateInv /\ RunInv => VerdictBacked  BY GateBacked, ChainBacked DEF VerdictBacked
<1> QED  BY <1>1, <1>2, <1>3, PTL DEF AnySpec

\* No tool is called beyond the limit unless pipelines cross, none is refused below
\* it, and no web socket is opened beyond theirs.
THEOREM LimitsKeptAlways == AnySpec => []LimitsKept
<1>1. AnyInit => RestInv /\ SocketInv  BY RestStarts, SocketsStart DEF AnyInit
<1>2. RestInv /\ SocketInv /\ [AnyNext]_all => (RestInv /\ SocketInv)'
  BY PartSteps, RestKeeps, SocketsKeep
<1>3. RestInv /\ SocketInv => LimitsKept  BY RestLimited, SocketsServed DEF LimitsKept
<1> QED  BY <1>1, <1>2, <1>3, PTL DEF AnySpec

\* Reviewers can be reached; unless they are asked for by name, they are others than
\* the caller, and nobody of another lab than the caller's is passed over.
THEOREM PickSoundAlways == AnySpec => []PickSound
<1>1. AnyInit => PickInv  BY RosterStarts DEF AnyInit
<1>2. PickInv /\ [AnyNext]_all => PickInv'  BY PartSteps, RosterKeeps
<1>3. PickInv => PickSound  BY DEF PickInv, PickSound
<1> QED  BY <1>1, <1>2, <1>3, PTL DEF AnySpec

\* No stream lacks an event and no file one whose write did not fail; a review has
\* its share of the files, and is handed at most three times its budget.
THEOREM NothingLostAlways == AnySpec => []NothingLost
<1>1. AnyInit => BusInv /\ FilesInv  BY BusStarts, FilesStart DEF AnyInit
<1>2. BusInv /\ FilesInv /\ [AnyNext]_all => (BusInv /\ FilesInv)'
  BY PartSteps, BusKeeps, FilesKeep
<1>3. BusInv /\ FilesInv => NothingLost  BY BusWhole, FilesGivenRight DEF NothingLost
<1> QED  BY <1>1, <1>2, <1>3, PTL DEF AnySpec

\* What all seven invariants say together.
AllInv ==
  /\ GateInv /\ PickInv /\ RestInv /\ BusInv
  /\ SocketInv /\ Sockets!TypeOK /\ RunInv /\ FilesInv

\* All seven parts keep their types.
THEOREM TypesOKAlways == AnySpec => []TypesOK
<1>1. AnyInit => AllInv
  BY GateStarts, RosterStarts, RestStarts, BusStarts, SocketsStart, SocketsStartTyped,
     ChainStarts, FilesStart
     DEF AnyInit, AllInv
<1>2. AllInv /\ [AnyNext]_all => AllInv'
  <2> SUFFICES ASSUME AllInv, [AnyNext]_all PROVE AllInv'  OBVIOUS
  <2>1. GateInv'  BY PartSteps, GateKeeps DEF AllInv
  <2>2. PickInv'  BY PartSteps, RosterKeeps DEF AllInv
  <2>3. RestInv'  BY PartSteps, RestKeeps DEF AllInv
  <2>4. BusInv'  BY PartSteps, BusKeeps DEF AllInv
  <2>5. SocketInv' /\ Sockets!TypeOK'  BY PartSteps, SocketsKeep, SocketsKeepTypes DEF AllInv
  <2>6. RunInv'  BY PartSteps, ChainKeeps DEF AllInv
  <2>7. FilesInv'  BY PartSteps, FilesKeep DEF AllInv
  <2> QED  BY <2>1, <2>2, <2>3, <2>4, <2>5, <2>6, <2>7 DEF AllInv
<1>3. AllInv => TypesOK
  <2>1. ASSUME AllInv PROVE Gate!TypeOK  BY <2>1, GateTypes DEF AllInv
  <2>2. ASSUME AllInv PROVE Rest!TypeOK  BY <2>2 DEF AllInv, RestInv, RestTyped, Rest!TypeOK
  <2>3. ASSUME AllInv PROVE Bus!TypeOK  BY <2>3, BusTypesRight DEF AllInv
  <2>4. ASSUME AllInv PROVE Chain!TypeOK  BY <2>4, RunTypes DEF AllInv
  <2> QED  BY <2>1, <2>2, <2>3, <2>4 DEF AllInv, PickInv, FilesInv, TypesOK
<1> QED  BY <1>1, <1>2, <1>3, PTL DEF AnySpec
=============================================================================
