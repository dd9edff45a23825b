------------------------- MODULE ExtentCacheProofs -------------------------
(***************************************************************************)
(* Lemmas about the extent cache: every step of the protocol keeps its     *)
(* invariant CacheInv, when clients call as the locks of the file system   *)
(* make them (nobody else is busy with the file), and changes the contents *)
(* of no file, but for the put, which takes effect at one step, and the    *)
(* removal.  The second half says what YfsInv, the invariant of the file   *)
(* system, means for a client, its call and its directory, and which steps *)
(* lock, read, make and remove; YfsProofs puts it all together.            *)
(***************************************************************************)
EXTENDS Yfs, FiniteSetTheorems, WellFoundedInduction, TLAPS

-----------------------------------------------------------------------------
(* Sequences                                                               *)

\* A set of numbers that is not empty has a smallest one.
LEMMA Smallest ==
  ASSUME NEW S \in SUBSET Nat, S # {}
  PROVE  \E m \in S : \A y \in S : m <= y
  <1>1. PICK n \in S : TRUE
    OBVIOUS
  <1> DEFINE F == {0..x : x \in {y \in S : y <= n}}
  <1>2. F # {} /\ F \subseteq FiniteSubsetsOf(0..n)
    <2>1. \A x \in Nat : IsFiniteSet(0..x)
      BY FS_Interval
    <2>2. \A x \in S : x <= n => 0..x \in SUBSET (0..n)
      OBVIOUS
    <2> QED BY <1>1, <2>1, <2>2 DEF FiniteSubsetsOf
  <1>3. PICK U \in F : \A V \in F : <<V, U>> \notin StrictSubsetOrdering(0..n)
    <2> HIDE DEF F
    <2> QED BY <1>2, FS_StrictSubsetOrderingWellFounded, WFMin
  <1>4. PICK m \in S : m <= n /\ U = 0..m
    BY <1>3
  <1>5. ASSUME NEW y \in S, y < m PROVE FALSE
    <2>1. 0..y \in F /\ 0..y \subseteq U /\ U \subseteq 0..n
      BY <1>4, <1>5
    <2>2. m \in U /\ m \notin 0..y
      BY <1>4, <1>5
    <2> QED BY <1>3, <2>1, <2>2 DEF StrictSubsetOrdering
  <1>6. \A y \in S : m <= y
    BY <1>5
  <1> QED BY <1>4, <1>6

\* r follows the loop of Without over s up to its n-th member.
Loop(r, s, T, n) ==
  r = [k \in 0..n |->
         IF k = 0 THEN <<>>
         ELSE IF s[k] \in T THEN r[k - 1] ELSE Append(r[k - 1], s[k])]

\* The recursion of Without has a value.
LEMMA LoopExists ==
  ASSUME NEW S, NEW s \in Seq(S), NEW T
  PROVE  \E r : Loop(r, s, T, Len(s))
  <1> DEFINE Bad == {n \in 0..Len(s) : ~ \E r : Loop(r, s, T, n)}
  <1>0. Len(s) \in 0..Len(s) /\ Bad \in SUBSET Nat
    OBVIOUS
  <1>1. CASE Bad = {}
    BY <1>0, <1>1
  <1>2. CASE Bad # {}
    <2>1. PICK m \in Bad : \A y \in Bad : m <= y
      <3> HIDE DEF Bad
      <3> QED BY <1>0, <1>2, Smallest
    <2>2. CASE m = 0
      <3>1. Loop([k \in 0..0 |-> <<>>], s, T, 0)
        BY DEF Loop
      <3> QED BY <2>1, <2>2, <3>1
    <2>3. CASE m # 0
      <3>1. m - 1 \in 0..Len(s) /\ m - 1 \notin Bad
        BY <2>1, <2>3
      <3>2. PICK r : Loop(r, s, T, m - 1)
        BY <3>1
      <3> DEFINE last == IF s[m] \in T THEN r[m - 1] ELSE Append(r[m - 1], s[m])
                 q == [k \in 0..m |-> IF k = m THEN last ELSE r[k]]
      <3>3. ASSUME NEW k \in 0..m
            PROVE  q[k] = IF k = 0 THEN <<>>
                          ELSE IF s[k] \in T THEN q[k - 1] ELSE Append(q[k - 1], s[k])
        <4>1. CASE k = m
          BY <2>3, <4>1
        <4>2. CASE k # m /\ k # 0
          <5>1. k \in 0..(m - 1) /\ k - 1 \in 0..m /\ k - 1 # m
            BY <4>2
          <5>2. q[k] = r[k] /\ q[k - 1] = r[k - 1]
            BY <4>2, <5>1
          <5>3. r[k] = IF s[k] \in T THEN r[k - 1] ELSE Append(r[k - 1], s[k])
            BY <3>2, <4>2, <5>1 DEF Loop
          <5> QED BY <4>2, <5>2, <5>3
        <4>3. CASE k # m /\ k = 0
          BY <3>2, <4>3 DEF Loop
        <4> QED BY <4>1, <4>2, <4>3
      <3>4. Loop(q, s, T, m)
        <4> HIDE DEF last
        <4> QED BY <3>3 DEF Loop
      <3> HIDE DEF q
      <3> QED BY <2>1, <3>4
    <2> QED BY <2>2, <2>3
  <1> QED BY <1>1, <1>2

\* Without is where the loop ends.
LEMMA WithoutLoop ==
  ASSUME NEW S, NEW s \in Seq(S), NEW T
  PROVE  \E r : Loop(r, s, T, Len(s)) /\ Without(s, T) = r[Len(s)]
  <1> DEFINE r == CHOOSE f : f = [n \in 0..Len(s) |->
                IF n = 0 THEN <<>>
                ELSE IF s[n] \in T THEN f[n - 1] ELSE Append(f[n - 1], s[n])]
  <1>1. \E f : f = [n \in 0..Len(s) |->
                IF n = 0 THEN <<>>
                ELSE IF s[n] \in T THEN f[n - 1] ELSE Append(f[n - 1], s[n])]
    <2>1. PICK f : Loop(f, s, T, Len(s))
      BY LoopExists
    <2> QED BY <2>1, Zenon DEF Loop
  <1>2. Loop(r, s, T, Len(s))
    BY <1>1 DEF Loop
  <1>3. Without(s, T) = r[Len(s)]
    BY Zenon DEF Without
  <1> HIDE DEF r
  <1> QED BY <1>2, <1>3

\* Append adds one member.
LEMMA AppendRange ==
  ASSUME NEW S, NEW s \in Seq(S), NEW x \in S
  PROVE  /\ Append(s, x) \in Seq(S)
         /\ Range(Append(s, x)) = Range(s) \cup {x}
         /\ IsInjective(s) /\ x \notin Range(s) => IsInjective(Append(s, x))
         /\ Len(Append(s, x)) = Len(s) + 1
  <1>1. /\ Append(s, x) \in Seq(S) /\ Len(s) \in Nat /\ DOMAIN s = 1..Len(s)
        /\ DOMAIN Append(s, x) = 1..(Len(s) + 1) /\ Append(s, x)[Len(s) + 1] = x
        /\ \A k \in 1..Len(s) : Append(s, x)[k] = s[k]
        /\ Len(Append(s, x)) = Len(s) + 1
    OBVIOUS
  <1>2. Range(Append(s, x)) = Range(s) \cup {x}
    <2>1. ASSUME NEW y \in Range(Append(s, x)) PROVE y \in Range(s) \cup {x}
      <3>1. PICK k \in 1..(Len(s) + 1) : Append(s, x)[k] = y
        BY <1>1 DEF Range
      <3>2. CASE k \in 1..Len(s)
        BY <1>1, <3>1, <3>2 DEF Range
      <3>3. CASE k = Len(s) + 1
        BY <1>1, <3>1, <3>3
      <3> QED BY <1>1, <3>2, <3>3
    <2>2. ASSUME NEW y \in Range(s) PROVE y \in Range(Append(s, x))
      <3>1. PICK k \in 1..Len(s) : s[k] = y
        BY <1>1 DEF Range
      <3>2. k \in DOMAIN Append(s, x) /\ Append(s, x)[k] = y
        BY <1>1, <3>1
      <3> QED BY <3>2 DEF Range
    <2>3. x \in Range(Append(s, x))
      <3>1. Len(s) + 1 \in DOMAIN Append(s, x)
        BY <1>1
      <3> QED BY <1>1, <3>1 DEF Range
    <2> QED BY <2>1, <2>2, <2>3
  <1>3. ASSUME IsInjective(s), x \notin Range(s) PROVE IsInjective(Append(s, x))
    <2>1. \A k \in 1..Len(s) : s[k] # x
      BY <1>1, <1>3 DEF Range
    <2>2. \A j, k \in 1..Len(s) : s[j] = s[k] => j = k
      BY <1>1, <1>3 DEF IsInjective
    <2>3. ASSUME NEW j \in 1..(Len(s) + 1), NEW k \in 1..(Len(s) + 1),
                 Append(s, x)[j] = Append(s, x)[k]
          PROVE  j = k
      <3>1. CASE j \in 1..Len(s) /\ k \in 1..Len(s)
        BY <1>1, <2>2, <2>3, <3>1
      <3>2. CASE j \notin 1..Len(s) \/ k \notin 1..Len(s)
        BY <1>1, <2>1, <2>3, <3>2
      <3> QED BY <3>1, <3>2
    <2> QED BY <1>1, <2>3 DEF IsInjective
  <1> QED BY <1>1, <1>2, <1>3

\* What the loop has kept of the first n members.
LEMMA LoopKeeps ==
  ASSUME NEW S, NEW s \in Seq(S), NEW T, NEW r, Loop(r, s, T, Len(s))
  PROVE  \A n \in 0..Len(s) :
           /\ r[n] \in Seq(S)
           /\ Range(r[n]) = {s[k] : k \in 1..n} \ T
           /\ IsInjective(s) => IsInjective(r[n])
  <1> DEFINE Good(n) == /\ r[n] \in Seq(S)
                        /\ Range(r[n]) = {s[k] : k \in 1..n} \ T
                        /\ IsInjective(s) => IsInjective(r[n])
             Bad == {n \in 0..Len(s) : ~ Good(n)}
  <1>1. Good(0)
    <2>1. r[0] = <<>>
      BY DEF Loop
    <2>2. Range(<<>>) = {} /\ IsInjective(<<>>) /\ <<>> \in Seq(S)
      BY DEF Range, IsInjective
    <2> QED BY <2>1, <2>2
  <1>2. ASSUME NEW n \in 1..Len(s), Good(n - 1) PROVE Good(n)
    <2>1. r[n] = IF s[n] \in T THEN r[n - 1] ELSE Append(r[n - 1], s[n])
      <3>1. n \in 0..Len(s) /\ n # 0
        OBVIOUS
      <3> QED BY <3>1 DEF Loop
    <2>2. s[n] \in S /\ 1..n = 1..(n - 1) \cup {n}
      OBVIOUS
    <2>3. {s[k] : k \in 1..n} = {s[k] : k \in 1..(n - 1)} \cup {s[n]}
      BY <2>2
    <2>4. CASE s[n] \in T
      BY <1>2, <2>1, <2>3, <2>4
    <2>5. CASE s[n] \notin T
      <3>1. r[n] = Append(r[n - 1], s[n])
        BY <2>1, <2>5
      <3>2. /\ r[n] \in Seq(S) /\ Range(r[n]) = Range(r[n - 1]) \cup {s[n]}
            /\ IsInjective(r[n - 1]) /\ s[n] \notin Range(r[n - 1]) => IsInjective(r[n])
        BY <1>2, <2>2, <3>1, AppendRange
      <3>3. IsInjective(s) => s[n] \notin Range(r[n - 1])
        BY <1>2 DEF IsInjective
      <3> QED BY <1>2, <2>3, <2>5, <3>2, <3>3
    <2> QED BY <2>4, <2>5
  <1>3. Bad = {}
    <2>1. SUFFICES ASSUME Bad # {} PROVE FALSE
      OBVIOUS
    <2>2. Bad \in SUBSET Nat
      OBVIOUS
    <2>3. PICK m \in Bad : \A y \in Bad : m <= y
      <3> HIDE DEF Bad
      <3> QED BY <2>1, <2>2, Smallest
    <2>4. m \in 1..Len(s) /\ m - 1 \in 0..Len(s) /\ ~ Good(m)
      <3> HIDE DEF Good
      <3> QED BY <1>1, <2>3
    <2>5. Good(m - 1)
      <3> HIDE DEF Good
      <3> QED BY <2>3, <2>4
    <2> HIDE DEF Good
    <2> QED BY <1>2, <2>4, <2>5
  <1> HIDE DEF Good
  <1>4. \A n \in 0..Len(s) : Good(n)
    BY <1>3
  <1> QED BY <1>4 DEF Good

\* Without takes just the members of T out, and keeps them apart.
LEMMA WithoutRange ==
  ASSUME NEW S, NEW s \in Seq(S), NEW T
  PROVE  /\ Without(s, T) \in Seq(S)
         /\ Range(Without(s, T)) = Range(s) \ T
         /\ IsInjective(s) => IsInjective(Without(s, T))
  <1>1. PICK r : Loop(r, s, T, Len(s)) /\ Without(s, T) = r[Len(s)]
    BY WithoutLoop
  <1>2. Len(s) \in 0..Len(s) /\ Range(s) = {s[k] : k \in 1..Len(s)}
    BY DEF Range
  <1>3. /\ r[Len(s)] \in Seq(S)
        /\ Range(r[Len(s)]) = {s[k] : k \in 1..Len(s)} \ T
        /\ IsInjective(s) => IsInjective(r[Len(s)])
    <2>1. Loop(r, s, T, Len(s))
      BY <1>1
    <2> HIDE <1>1
    <2> QED BY <1>2, <2>1, LoopKeeps
  <1> QED BY <1>1, <1>2, <1>3

\* The members of a concatenation.
LEMMA CatIs ==
  ASSUME NEW S, NEW a \in Seq(S), NEW b \in Seq(S)
  PROVE  /\ a \o b \in Seq(S) /\ Len(a \o b) = Len(a) + Len(b)
         /\ \A k \in 1..(Len(a) + Len(b)) :
              (a \o b)[k] = IF k <= Len(a) THEN a[k] ELSE b[k - Len(a)]
  OBVIOUS

\* The members of a list without its member p.
LEMMA SubSeqIn ==
  ASSUME NEW S, NEW s \in Seq(S), NEW p \in 1..Len(s)
  PROVE  /\ RemoveAt(s, p) \in Seq(S) /\ Len(RemoveAt(s, p)) = Len(s) - 1
         /\ \A k \in 1..(Len(s) - 1) :
              RemoveAt(s, p)[k] = IF k < p THEN s[k] ELSE s[k + 1]
  <1> DEFINE a == SubSeq(s, 1, p - 1)
             b == SubSeq(s, p + 1, Len(s))
  <1>1. Len(s) \in Nat /\ p \in Nat /\ p - 1 \in Nat /\ p <= Len(s)
    OBVIOUS
  <1>2. a \in Seq(S) /\ Len(a) = p - 1 /\ \A k \in 1..(p - 1) : a[k] = s[k]
    BY <1>1
  <1>3. b \in Seq(S) /\ Len(b) = Len(s) - p /\ \A k \in 1..(Len(s) - p) : b[k] = s[k + p]
    BY <1>1
  <1> HIDE DEF a, b
  <1>4. RemoveAt(s, p) = a \o b
    BY DEF RemoveAt, a, b
  <1>5. /\ a \o b \in Seq(S) /\ Len(a \o b) = Len(s) - 1
        /\ \A k \in 1..(Len(s) - 1) :
             (a \o b)[k] = IF k <= Len(a) THEN a[k] ELSE b[k - Len(a)]
    <2>1. Len(a) + Len(b) = Len(s) - 1
      BY <1>1, <1>2, <1>3
    <2>2. a \in Seq(S) /\ b \in Seq(S)
      BY <1>2, <1>3
    <2>3. /\ a \o b \in Seq(S) /\ Len(a \o b) = Len(a) + Len(b)
          /\ \A k \in 1..(Len(a) + Len(b)) :
               (a \o b)[k] = IF k <= Len(a) THEN a[k] ELSE b[k - Len(a)]
      BY <2>2, CatIs
    <2> QED BY <2>1, <2>3
  <1>6. ASSUME NEW k \in 1..(Len(s) - 1)
        PROVE  (a \o b)[k] = IF k < p THEN s[k] ELSE s[k + 1]
    <2>1. CASE k < p
      BY <1>1, <1>2, <1>5, <2>1
    <2>2. CASE ~(k < p)
      <3>1. k - Len(a) \in 1..(Len(s) - p) /\ (k - Len(a)) + p = k + 1 /\ ~(k <= Len(a))
        BY <1>1, <1>2, <2>2
      <3>2. b[k - Len(a)] = s[(k - Len(a)) + p]
        BY <1>3, <3>1
      <3> QED BY <1>5, <2>2, <3>1, <3>2
    <2> QED BY <2>1, <2>2
  <1> QED BY <1>4, <1>5, <1>6

\* Sequences of the same members are the same.
LEMMA SameSeq ==
  ASSUME NEW S, NEW s \in Seq(S), NEW t \in Seq(S), Len(s) = Len(t),
         \A k \in 1..Len(s) : s[k] = t[k]
  PROVE  s = t
  OBVIOUS

\* Without a set none of its members is in, a sequence stays what it is.
LEMMA WithoutNone ==
  ASSUME NEW S, NEW s \in Seq(S), NEW T, \A k \in 1..Len(s) : s[k] \notin T
  PROVE  Without(s, T) = s
  <1>1. PICK r : Loop(r, s, T, Len(s)) /\ Without(s, T) = r[Len(s)]
    BY WithoutLoop
  <1>2. \A n \in 0..Len(s) : r[n] \in Seq(S)
    BY <1>1, LoopKeeps
  <1>3. ASSUME NEW n \in 1..Len(s)
        PROVE  r[n] = IF s[n] \in T THEN r[n - 1] ELSE Append(r[n - 1], s[n])
    <2>1. n \in 0..Len(s) /\ n # 0
      OBVIOUS
    <2>2. r[n] = IF n = 0 THEN <<>>
                 ELSE IF s[n] \in T THEN r[n - 1] ELSE Append(r[n - 1], s[n])
      BY <1>1, <2>1 DEF Loop
    <2> QED BY <2>1, <2>2
  <1> DEFINE Good(n) == Len(r[n]) = n /\ \A k \in 1..n : r[n][k] = s[k]
             Bad == {n \in 0..Len(s) : ~Good(n)}
  <1>4. CASE Bad = {}
    <2>1. Len(s) \in 0..Len(s) /\ Len(s) \notin Bad
      <3>1. Len(s) \in 0..Len(s)
        OBVIOUS
      <3> HIDE DEF Bad, Good
      <3> QED BY <1>4, <3>1
    <2>2. r[Len(s)] \in Seq(S) /\ Good(Len(s))
      BY <1>2, <2>1
    <2> QED BY <1>1, <2>2
  <1>5. CASE Bad # {}
    <2>1. PICK m \in Bad : \A y \in Bad : m <= y
      <3>1. Bad \in SUBSET Nat
        OBVIOUS
      <3> HIDE DEF Bad
      <3> QED BY <1>5, <3>1, Smallest
    <2>2. m # 0
      <3>1. r[0] = <<>>
        BY <1>1 DEF Loop
      <3> QED BY <2>1, <3>1
    <2>3. m - 1 \in 0..Len(s) /\ m - 1 \notin Bad /\ m \in 1..Len(s)
      <3>1. m \in 0..Len(s) /\ m - 1 < m
        BY <2>1
      <3>2. m \in 1..Len(s) /\ m - 1 \in 0..Len(s)
        BY <2>2, <3>1
      <3>3. m - 1 \notin Bad
        <4>1. Bad \subseteq Nat
          OBVIOUS
        <4> HIDE DEF Bad
        <4> QED BY <2>1, <3>1, <4>1
      <3> QED BY <3>2, <3>3
    <2>4. Good(m - 1) /\ r[m - 1] \in Seq(S)
      BY <1>2, <2>3
    <2>5. r[m] = Append(r[m - 1], s[m])
      BY <1>3, <2>3
    <2>6. Good(m)
      <3>1. s[m] \in S
        BY <2>3
      <3>2. Len(r[m]) = m
        BY <2>3, <2>4, <2>5, <3>1
      <3>3. \A k \in 1..m : r[m][k] = s[k]
        BY <2>3, <2>4, <2>5, <3>1
      <3> QED BY <3>2, <3>3
    <2> QED BY <2>1, <2>6
  <1> QED BY <1>4, <1>5

\* Without a set just one of its members is in, a sequence loses that one.
LEMMA WithoutOne ==
  ASSUME NEW S, NEW s \in Seq(S), NEW T, NEW p \in 1..Len(s), s[p] \in T,
         \A k \in 1..Len(s) : k # p => s[k] \notin T
  PROVE  Without(s, T) = RemoveAt(s, p)
  <1>1. PICK r : Loop(r, s, T, Len(s)) /\ Without(s, T) = r[Len(s)]
    BY WithoutLoop
  <1>2. \A n \in 0..Len(s) : r[n] \in Seq(S)
    BY <1>1, LoopKeeps
  <1>3. ASSUME NEW n \in 1..Len(s)
        PROVE  r[n] = IF s[n] \in T THEN r[n - 1] ELSE Append(r[n - 1], s[n])
    <2>1. n \in 0..Len(s) /\ n # 0
      OBVIOUS
    <2>2. r[n] = IF n = 0 THEN <<>>
                 ELSE IF s[n] \in T THEN r[n - 1] ELSE Append(r[n - 1], s[n])
      BY <1>1, <2>1 DEF Loop
    <2> QED BY <2>1, <2>2
  <1> DEFINE Good(n) == /\ Len(r[n]) = IF n < p THEN n ELSE n - 1
                        /\ \A k \in 1..Len(r[n]) : r[n][k] = IF k < p THEN s[k] ELSE s[k + 1]
             Bad == {n \in 0..Len(s) : ~Good(n)}
  <1>4. CASE Bad = {}
    <2>1. Len(s) \in 0..Len(s) /\ Len(s) \notin Bad
      <3>1. Len(s) \in 0..Len(s)
        OBVIOUS
      <3> HIDE DEF Bad, Good
      <3> QED BY <1>4, <3>1
    <2>2. r[Len(s)] \in Seq(S) /\ Good(Len(s))
      BY <1>2, <2>1
    <2>3. Len(r[Len(s)]) = Len(s) - 1
      BY <2>2
    <2>4. /\ RemoveAt(s, p) \in Seq(S) /\ Len(RemoveAt(s, p)) = Len(s) - 1
          /\ \A k \in 1..(Len(s) - 1) :
               RemoveAt(s, p)[k] = IF k < p THEN s[k] ELSE s[k + 1]
      BY SubSeqIn
    <2>5. \A k \in 1..(Len(s) - 1) : r[Len(s)][k] = RemoveAt(s, p)[k]
      BY <2>2, <2>3, <2>4
    <2>6. r[Len(s)] \in Seq(S)
      BY <2>2
    <2>7. r[Len(s)] = RemoveAt(s, p)
      <3> HIDE DEF Bad, Good
      <3> QED BY <2>3, <2>4, <2>5, <2>6, SameSeq
    <2> QED BY <1>1, <2>7
  <1>5. CASE Bad # {}
    <2>1. PICK m \in Bad : \A y \in Bad : m <= y
      <3>1. Bad \in SUBSET Nat
        OBVIOUS
      <3> HIDE DEF Bad
      <3> QED BY <1>5, <3>1, Smallest
    <2>2. m # 0
      <3>1. r[0] = <<>>
        BY <1>1 DEF Loop
      <3> QED BY <2>1, <3>1
    <2>3. m - 1 \in 0..Len(s) /\ m - 1 \notin Bad /\ m \in 1..Len(s)
      <3>1. m \in 0..Len(s) /\ m - 1 < m
        BY <2>1
      <3>2. m \in 1..Len(s) /\ m - 1 \in 0..Len(s)
        BY <2>2, <3>1
      <3>3. m - 1 \notin Bad
        <4>1. Bad \subseteq Nat
          OBVIOUS
        <4> HIDE DEF Bad
        <4> QED BY <2>1, <3>1, <4>1
      <3> QED BY <3>2, <3>3
    <2>4. Good(m - 1) /\ r[m - 1] \in Seq(S)
      BY <1>2, <2>3
    <2>5. CASE m = p
      <3>1. r[m] = r[m - 1]
        BY <1>3, <2>3, <2>5
      <3>2. Good(m)
        BY <2>3, <2>4, <2>5, <3>1
      <3> QED BY <2>1, <3>2
    <2>6. CASE m # p
      <3>1. r[m] = Append(r[m - 1], s[m]) /\ s[m] \in S
        <4>1. s[m] \notin T
          BY <2>3, <2>6
        <4>2. r[m] = Append(r[m - 1], s[m])
          BY <1>3, <2>3, <4>1
        <4>3. s[m] \in S
          BY <2>3
        <4> QED BY <4>2, <4>3
      <3>2. /\ Len(r[m]) = Len(r[m - 1]) + 1 /\ r[m][Len(r[m - 1]) + 1] = s[m]
            /\ \A k \in 1..Len(r[m - 1]) : r[m][k] = r[m - 1][k]
        BY <2>4, <3>1
      <3>3. Len(r[m]) = IF m < p THEN m ELSE m - 1
        BY <2>3, <2>4, <2>6, <3>2
      <3>4. ASSUME NEW k \in 1..Len(r[m])
            PROVE  r[m][k] = IF k < p THEN s[k] ELSE s[k + 1]
        <4>1. CASE k \in 1..Len(r[m - 1])
          BY <2>4, <3>2, <4>1
        <4>2. CASE k = Len(r[m - 1]) + 1
          BY <2>3, <2>4, <2>6, <3>2, <4>2
        <4> QED BY <2>4, <3>2, <4>1, <4>2
      <3> QED BY <2>1, <3>3, <3>4
    <2> QED BY <2>5, <2>6
  <1> QED BY <1>4, <1>5

\* Taking out what was appended.
LEMMA WithoutLast ==
  ASSUME NEW S, NEW s \in Seq(S), NEW x \in S, NEW T, x \in T,
         \A k \in 1..Len(s) : s[k] \notin T
  PROVE  Without(Append(s, x), T) = s
  <1> DEFINE n == Len(s) + 1
             q == Append(s, x)
  <1>1. /\ q \in Seq(S) /\ Len(q) = n /\ n \in 1..n /\ Len(s) \in Nat /\ q[n] = x
        /\ \A k \in 1..Len(s) : q[k] = s[k]
    OBVIOUS
  <1>2. \A k \in 1..n : k # n => k \in 1..Len(s)
    BY <1>1
  <1>3. Without(q, T) = RemoveAt(q, n)
    <2> HIDE DEF q, n
    <2> QED BY <1>1, <1>2, WithoutOne
  <1>4. /\ RemoveAt(q, n) \in Seq(S) /\ Len(RemoveAt(q, n)) = n - 1
        /\ \A k \in 1..(n - 1) : RemoveAt(q, n)[k] = IF k < n THEN q[k] ELSE q[k + 1]
    <2> HIDE DEF q, n
    <2> QED BY <1>1, SubSeqIn
  <1>5. RemoveAt(q, n) = s
    <2> HIDE DEF q
    <2> QED BY <1>1, <1>4
  <1> QED BY <1>3, <1>5

-----------------------------------------------------------------------------
(* The protocol: what a step leaves alone                                  *)

\* A new entry in one place of one client's map.
LEMMA SetEntryIs ==
  ASSUME TypeOK, NEW c \in Clients, NEW e \in Inums, NEW x, SetEntry(c, e, x)
  PROVE  /\ extent_map'[c][e] = x
         /\ \A f \in Inums \ {e} : extent_map'[c][f] = extent_map[c][f]
         /\ \A d \in Clients \ {c} : extent_map'[d] = extent_map[d]
  BY DEF SetEntry, TypeOK

\* What is typed at one client and inode.
LEMMA Typed ==
  ASSUME TypeOK
  PROVE  \A c \in Clients, e \in Inums :
           /\ Cached(c, e) => extent_map[c][e] \in Copies
           /\ owner_map[e] \in Seq(Clients)
           /\ disk[e] = [type |-> disk[e].type, data |-> disk[e].data]
           /\ disk[e].type \in Types /\ disk[e].data \in Data
           /\ rpc[c].eid \in Inums /\ rpc[c].todo \in Seq(Clients)
           /\ rpc[c].op \in {"none", "get", "put", "remove", "create"}
           /\ rpc[c].at \in {"none", "request", "callback", "reply"}
           /\ rpc[c].is_share \in BOOLEAN /\ rpc[c].update \in BOOLEAN
           /\ rpc[c].data \in Data /\ rpc[c].type \in Types
  BY DEF TypeOK, Cached

\* A call that is not under way has nothing in it.
LEMMA NoCallIs ==
  /\ NoCall.op = "none" /\ NoCall.at = "none" /\ NoCall.eid = Root /\ NoCall.data = <<>>
  /\ NoCall.type = NoType /\ NoCall.todo = <<>> /\ NoCall.is_share = FALSE
  /\ NoCall.update = FALSE
  BY DEF NoCall

\* A step of one call about one inode keeps what the invariant says of the others.
LEMMA CacheFrame ==
  ASSUME CacheInv, NEW c \in Clients, NEW e \in Inums,
         \A f \in Inums \ {e} :
           /\ owner_map'[f] = owner_map[f] /\ disk'[f] = disk[f]
           /\ \A d \in Clients : extent_map'[d][f] = extent_map[d][f],
         \A d \in Clients \ {c} : rpc'[d] = rpc[d] /\ (Cached(d, e)' => Cached(d, e)),
         \A d \in Clients \ {c} : ~Busy(d, e) /\ rpc[d].eid \in Inums,
         \A f \in Inums \ {e} : ~Busy(c, f) /\ ~Busy(c, f)',
         \A d \in Clients : rpc[d].op \in {"none", "get", "put", "remove", "create"},
         CallInv(c)',
         Busy(c, e)' \/ Settled(e)'
  PROVE  CacheInv'
  <1>1. \A f \in Inums \ {e} :
          /\ \A d \in Clients : Cached(d, f)' <=> Cached(d, f)
          /\ Holders(f)' = Holders(f)
    BY DEF Cached, Holders
  <1>2. \A f \in Inums \ {e} : Settled(f)' <=> Settled(f)
    BY <1>1 DEF Settled, Holders
  <1>3. \A d \in Clients \ {c}, f \in Inums : Busy(d, f)' <=> Busy(d, f)
    BY DEF Busy
  <1>4. ASSUME NEW d \in Clients \ {c} PROVE CallInv(d)'
    <2>p. PICK f \in Inums : f = rpc[d].eid
      OBVIOUS
    <2>0. CallInv(d) /\ f = rpc[d].eid /\ f = rpc'[d].eid /\ rpc'[d] = rpc[d]
      BY <2>p DEF CacheInv
    <2>1. CASE f # e
      <3>1. \A data : AllShare(f, data)' <=> AllShare(f, data)
        BY <1>1, <2>0, <2>1 DEF AllShare, Holders
      <3>2. AllShare(f, IF rpc[d].update THEN rpc[d].data ELSE disk[f].data)'
              <=> AllShare(f, IF rpc[d].update THEN rpc[d].data ELSE disk[f].data)
        BY <1>1, <2>0, <2>1 DEF AllShare, Holders
      <3>3. AllShare(f, disk[f].data)' <=> AllShare(f, disk[f].data)
        BY <1>1, <2>0, <2>1 DEF AllShare, Holders
      <3>4. /\ owner_map'[f] = owner_map[f] /\ disk'[f] = disk[f]
            /\ extent_map'[d][f] = extent_map[d][f]
            /\ Settled(f)' <=> Settled(f)
            /\ Cached(d, f)' <=> Cached(d, f)
            /\ Holders(f)' = Holders(f)
        BY <1>1, <1>2, <2>0, <2>1
      <3>5. GetInv(d, f)' <=> GetInv(d, f)
        BY <2>0, <3>2, <3>3, <3>4 DEF GetInv
      <3>6. /\ PutInv(d, f)' <=> PutInv(d, f)
            /\ RemoveInv(d, f)' <=> RemoveInv(d, f)
            /\ CreateInv(d, f)' <=> CreateInv(d, f)
        BY <2>0, <3>4 DEF PutInv, RemoveInv, CreateInv
      <3> QED BY <2>0, <3>5, <3>6 DEF CallInv
    <2>2. CASE f = e
      <3>1. ~Busy(d, e)
        OBVIOUS
      <3>2. /\ rpc[d].op \notin {"get", "put"}
            /\ rpc[d].op = "remove" => rpc[d].at = "reply"
            /\ rpc[d].op = "create" => rpc[d].at # "reply"
        BY <2>0, <2>2, <3>1 DEF Busy
      <3>3. rpc[d].op = "remove" => RemoveInv(d, e)'
        <4> SUFFICES ASSUME rpc[d].op = "remove" PROVE RemoveInv(d, e)'
          OBVIOUS
        <4>1. rpc[d].at = "reply" /\ ~Cached(d, e)
          BY <2>0, <2>2, <3>2 DEF CallInv, RemoveInv
        <4>2. ~Cached(d, e)'
          BY <4>1
        <4> QED BY <2>0, <4>1, <4>2 DEF RemoveInv
      <3>4. rpc[d].op = "create" => CreateInv(d, e)'
        BY <2>0, <3>2 DEF CreateInv
      <3> QED BY <2>0, <2>2, <3>2, <3>3, <3>4 DEF CallInv
    <2> QED BY <2>1, <2>2
  <1>5. ASSUME NEW f \in Inums, NEW d \in Clients, NEW g \in Clients,
               Busy(d, f)', Busy(g, f)'
        PROVE  d = g
    <2>1. CASE f = e
      BY <1>3, <1>5, <2>1
    <2>2. CASE f # e
      <3>1. Busy(d, f) /\ Busy(g, f)
        BY <1>3, <1>5, <2>2
      <3> QED BY <3>1 DEF CacheInv
    <2> QED BY <2>1, <2>2
  <1>6. ASSUME NEW f \in Inums, \A d \in Clients : ~Busy(d, f)' PROVE Settled(f)'
    <2>1. CASE f = e
      BY <1>6, <2>1
    <2>2. CASE f # e
      <3>1. \A d \in Clients : ~Busy(d, f)
        BY <1>3, <1>6, <2>2
      <3> QED BY <1>2, <2>2, <3>1 DEF CacheInv
    <2> QED BY <2>1, <2>2
  <1> QED BY <1>4, <1>5, <1>6 DEF CacheInv

-----------------------------------------------------------------------------
(* The contents of a file                                                  *)

\* Who carries data to the disk is busy, so that there is one such client.
LEMMA CarryingBusy ==
  ASSUME TypeOK, CacheInv, NEW e \in Inums
  PROVE  /\ Carrying(e) \in SUBSET Clients
         /\ \A c \in Carrying(e) : Busy(c, e)
         /\ \A c, d \in Carrying(e) : c = d
  <1>1. \A c \in Carrying(e) : Busy(c, e)
    BY DEF Carrying, CacheInv, CallInv, Busy
  <1> QED BY <1>1 DEF Carrying, CacheInv

\* Data on its way to the disk is what the file has.
LEMMA ContentsCarried ==
  ASSUME TypeOK, CacheInv, NEW e \in Inums, NEW c \in Carrying(e)
  PROVE  Contents(e) = rpc[c].data
  <1>1. Carrying(e) # {} /\ (CHOOSE d \in Carrying(e) : TRUE) = c
    BY CarryingBusy
  <1> QED BY <1>1 DEF Contents

\* Without such data and modified copies the disk has the contents.
LEMMA ContentsOnDisk ==
  ASSUME NEW e \in Inums, Carrying(e) = {}, Modified(e) = {}
  PROVE  Contents(e) = disk[e].data
  BY DEF Contents

\* One client that holds a modified copy.
LEMMA ContentsModified ==
  ASSUME NEW e \in Inums, NEW c \in Clients, Carrying(e) = {}, Modified(e) = {c}
  PROVE  Contents(e) = extent_map[c][e].data
  <1>1. (CHOOSE d \in Modified(e) : TRUE) = c
    OBVIOUS
  <1> QED BY <1>1 DEF Contents

\* Sequences with one member have one member.
LEMMA OneMember ==
  ASSUME NEW S, NEW s \in Seq(S), IsInjective(s)
  PROVE  /\ Len(s) = 1 => Range(s) = {s[1]}
         /\ \A x : Range(s) = {x} => Len(s) = 1 /\ s[1] = x
         /\ s = <<>> <=> Range(s) = {}
  <1>1. DOMAIN s = 1..Len(s) /\ Len(s) \in Nat
    OBVIOUS
  <1>2. Len(s) = 1 => Range(s) = {s[1]}
    BY <1>1 DEF Range
  <1>3. ASSUME NEW x, Range(s) = {x} PROVE Len(s) = 1 /\ s[1] = x
    <2>1. \A k \in 1..Len(s) : s[k] = x
      BY <1>1, <1>3 DEF Range
    <2>2. Len(s) # 0
      BY <1>1, <1>3 DEF Range
    <2>3. ~ (Len(s) >= 2)
      <3>1. SUFFICES ASSUME Len(s) >= 2 PROVE FALSE
        OBVIOUS
      <3>2. 1 \in 1..Len(s) /\ 2 \in 1..Len(s) /\ s[1] = s[2]
        BY <1>1, <2>1, <3>1
      <3> QED BY <1>1, <3>2 DEF IsInjective
    <2> QED BY <1>1, <2>1, <2>2, <2>3
  <1>4. s = <<>> <=> Range(s) = {}
    <2>1. s = <<>> <=> Len(s) = 0
      OBVIOUS
    <2>2. Len(s) # 0 => s[1] \in Range(s)
      BY <1>1 DEF Range
    <2>3. Len(s) = 0 => Range(s) = {}
      BY <1>1 DEF Range
    <2> QED BY <2>1, <2>2, <2>3
  <1> QED BY <1>2, <1>3, <1>4

\* A settled file that is cached: every copy has its contents.
LEMMA ContentsSettled ==
  ASSUME TypeOK, CacheInv, NEW e \in Inums, \A d \in Clients : ~Busy(d, e)
  PROVE  /\ Settled(e) /\ Carrying(e) = {}
         /\ \A c \in Clients : Cached(c, e) =>
              /\ Contents(e) = extent_map[c][e].data
              /\ extent_map[c][e].type = disk[e].type /\ disk[e].type # NoType
              /\ extent_map[c][e].status # "SHARED" =>
                   owner_map[e] = <<c>> /\ Holders(e) = {c}
  <1>1. Settled(e)
    BY DEF CacheInv
  <1>2. Carrying(e) = {}
    BY CarryingBusy
  <1>3. ASSUME NEW c \in Clients, Cached(c, e), extent_map[c][e].status # "SHARED"
        PROVE  owner_map[e] = <<c>> /\ Holders(e) = {c}
    <2>0. c \in Holders(e)
      BY <1>3 DEF Holders
    <2>1. Len(owner_map[e]) = 1
      BY <1>1, <1>3, <2>0 DEF Settled
    <2>2. owner_map[e] \in Seq(Clients) /\ IsInjective(owner_map[e])
            /\ Range(owner_map[e]) = Holders(e)
      BY <1>1, Typed DEF Settled
    <2>3. Holders(e) = {owner_map[e][1]}
      BY <2>1, <2>2, OneMember
    <2>4. owner_map[e][1] = c
      BY <2>0, <2>3
    <2>5. owner_map[e] = <<c>>
      BY <2>1, <2>2, <2>4
    <2> QED BY <2>3, <2>4, <2>5
  <1>4. ASSUME NEW c \in Clients, Cached(c, e)
        PROVE  /\ Contents(e) = extent_map[c][e].data
               /\ extent_map[c][e].type = disk[e].type /\ disk[e].type # NoType
    <2>0. c \in Holders(e)
      BY <1>4 DEF Holders
    <2>1. extent_map[c][e].type = disk[e].type
      BY <1>1, <2>0 DEF Settled
    <2>2. disk[e].type # NoType
      <3>1. owner_map[e] # <<>>
        <4>1. owner_map[e] \in Seq(Clients) /\ IsInjective(owner_map[e])
                /\ Range(owner_map[e]) # {}
          BY <1>1, <2>0, Typed DEF Settled
        <4> QED BY <4>1, OneMember
      <3> QED BY <1>1, <3>1 DEF Settled
    <2>3. CASE Modified(e) = {}
      <3>1. Contents(e) = disk[e].data
        BY <1>2, <2>3, ContentsOnDisk
      <3>2. extent_map[c][e].status # "MODIFIED"
        BY <1>4, <2>3 DEF Modified
      <3>3. extent_map[c][e].data = disk[e].data
        BY <1>1, <2>0, <3>2 DEF Settled
      <3> QED BY <2>1, <2>2, <3>1, <3>3
    <2>4. CASE Modified(e) # {}
      <3>1. PICK d \in Clients : Cached(d, e) /\ extent_map[d][e].status = "MODIFIED"
        BY <2>4 DEF Modified
      <3>2. Holders(e) = {d}
        BY <1>3, <3>1
      <3>3. d = c
        BY <2>0, <3>2
      <3>4. Modified(e) = {c}
        BY <3>1, <3>2, <3>3 DEF Modified, Holders
      <3> QED BY <1>2, <2>1, <2>2, <3>4, ContentsModified
    <2> QED BY <2>3, <2>4
  <1> QED BY <1>1, <1>2, <1>3, <1>4

\* Contents stay with what they are read from.
LEMMA ContentsSame ==
  ASSUME NEW e \in Inums, Carrying(e)' = Carrying(e), Modified(e)' = Modified(e),
         disk'[e].data = disk[e].data,
         \A d \in Carrying(e) : rpc'[d].data = rpc[d].data,
         \A d \in Modified(e) : extent_map'[d][e].data = extent_map[d][e].data
  PROVE  Contents(e)' = Contents(e)
  <1>1. CASE Carrying(e) # {}
    <2>1. (CHOOSE d \in Carrying(e) : TRUE) \in Carrying(e)
      BY <1>1
    <2> QED BY <1>1, <2>1 DEF Contents
  <1>2. CASE Carrying(e) = {} /\ Modified(e) # {}
    <2>1. (CHOOSE d \in Modified(e) : TRUE) \in Modified(e)
      BY <1>2
    <2> QED BY <1>2, <2>1 DEF Contents
  <1>3. CASE Carrying(e) = {} /\ Modified(e) = {}
    BY <1>3 DEF Contents
  <1> QED BY <1>1, <1>2, <1>3

\* A step about one inode leaves the contents of the others.
LEMMA ContentsOthers ==
  ASSUME NEW c \in Clients, NEW e \in Inums, NEW f \in Inums \ {e},
         disk'[f] = disk[f], \A d \in Clients : extent_map'[d][f] = extent_map[d][f],
         \A d \in Clients \ {c} : rpc'[d] = rpc[d],
         c \notin Carrying(f), c \notin Carrying(f)'
  PROVE  Contents(f)' = Contents(f)
  <1>1. Carrying(f)' = Carrying(f)
    <2>1. \A d \in Clients \ {c} : d \in Carrying(f)' <=> d \in Carrying(f)
      BY DEF Carrying
    <2> QED BY <2>1 DEF Carrying
  <1>2. Modified(f)' = Modified(f)
    BY DEF Modified, Cached
  <1>3. \A d \in Carrying(f) : rpc'[d].data = rpc[d].data
    BY DEF Carrying
  <1>4. \A d \in Modified(f) : extent_map'[d][f].data = extent_map[d][f].data
    BY DEF Modified
  <1> QED BY <1>1, <1>2, <1>3, <1>4, ContentsSame

-----------------------------------------------------------------------------
(* Calls                                                                   *)

\* A call to the server.
LEMMA CallIs ==
  ASSUME TypeOK, NEW c \in Clients, NEW op, NEW e \in Inums, NEW data, NEW type,
         Call(c, op, e, data, type)
  PROVE  /\ rpc[c] = NoCall /\ owner_map' = owner_map /\ disk' = disk
         /\ \A d \in Clients \ {c} : rpc'[d] = rpc[d]
         /\ rpc'[c].op = op /\ rpc'[c].at = "request" /\ rpc'[c].eid = e
         /\ rpc'[c].data = data /\ rpc'[c].type = type /\ rpc'[c].todo = <<>>
         /\ rpc'[c].is_share = FALSE /\ rpc'[c].update = FALSE
         /\ rpc'[c] # NoCall
  BY NoCallIs DEF Call, TypeOK, NoCall

\* A client without a call is busy with no file.
LEMMA NoCallNotBusy ==
  ASSUME NEW c \in Clients, rpc[c] = NoCall
  PROVE  \A f : ~Busy(c, f) /\ c \notin Carrying(f)
  BY NoCallIs DEF Busy, Carrying

\* A client asks for a file it has no copy of.
LEMMA PullStep ==
  ASSUME TypeOK, CacheInv, NEW c \in Clients, NEW e \in Inums, Pull(c, e),
         \A d \in Clients : ~Busy(d, e), disk[e].type # NoType
  PROVE  /\ CacheInv'
         /\ \A f \in Inums : Contents(f)' = Contents(f)
  <1>1. Call(c, "get", e, <<>>, NoType) /\ extent_map' = extent_map /\ ~Cached(c, e)
    BY DEF Pull
  <1>2. /\ rpc[c] = NoCall /\ owner_map' = owner_map /\ disk' = disk
        /\ \A d \in Clients \ {c} : rpc'[d] = rpc[d]
        /\ rpc'[c].op = "get" /\ rpc'[c].at = "request" /\ rpc'[c].eid = e
        /\ rpc'[c].todo = <<>> /\ rpc'[c].update = FALSE /\ rpc'[c] # NoCall
    BY <1>1, CallIs
  <1>3. Settled(e)' /\ ~Cached(c, e)'
    <2>1. Settled(e)
      BY DEF CacheInv
    <2> QED BY <1>1, <1>2, <2>1 DEF Settled, Holders, Cached
  <1>4. GetInv(c, e)'
    BY <1>2, <1>3 DEF GetInv
  <1>5. CallInv(c)'
    BY <1>2, <1>4 DEF CallInv
  <1>6. \A f \in Inums \ {e} : ~Busy(c, f) /\ ~Busy(c, f)'
    BY <1>2, NoCallNotBusy DEF Busy
  <1>7. Busy(c, e)'
    BY <1>2 DEF Busy
  <1>8. \A d \in Clients \ {c} : Cached(d, e)' => Cached(d, e)
    BY <1>1 DEF Cached
  <1>9. CacheInv'
    BY <1>1, <1>2, <1>5, <1>6, <1>7, <1>8, Typed, CacheFrame
  <1>10. ASSUME NEW f \in Inums PROVE Contents(f)' = Contents(f)
    <2>1. Carrying(f)' = Carrying(f)
      <3>1. c \notin Carrying(f) /\ c \notin Carrying(f)'
        BY <1>2, NoCallNotBusy DEF Carrying
      <3> QED BY <1>2, <3>1 DEF Carrying
    <2>2. Modified(f)' = Modified(f)
      BY <1>1 DEF Modified, Cached
    <2>3. \A d \in Carrying(f) : rpc'[d].data = rpc[d].data
      BY <1>2, NoCallNotBusy DEF Carrying
    <2> QED BY <1>1, <1>2, <2>1, <2>2, <2>3, ContentsSame
  <1> QED BY <1>9, <1>10

\* Nor does a step that starts or ends a call that is not busy with a file.
LEMMA CacheIdle ==
  ASSUME TypeOK, CacheInv, NEW c \in Clients,
         extent_map' = extent_map, owner_map' = owner_map, disk' = disk,
         \A d \in Clients \ {c} : rpc'[d] = rpc[d],
         \A f \in Inums : ~Busy(c, f) /\ ~Busy(c, f)', CallInv(c)'
  PROVE  CacheInv'
  <1>0. Root \in Inums
    BY InumsAssumption
  <1>1. \A f \in Inums : Settled(f)' <=> Settled(f)
    BY DEF Settled, Holders, Cached
  <1>2. ASSUME NEW d \in Clients \ {c} PROVE CallInv(d)'
    <2>1. PICK f \in Inums : f = rpc[d].eid
      BY <1>0, Typed
    <2>2. rpc'[d] = rpc[d] /\ CallInv(d) /\ f = rpc[d].eid /\ f = rpc'[d].eid
      BY <2>1 DEF CacheInv
    <2>3. /\ AllShare(f, IF rpc[d].update THEN rpc[d].data ELSE disk[f].data)'
              <=> AllShare(f, IF rpc[d].update THEN rpc[d].data ELSE disk[f].data)
          /\ AllShare(f, disk[f].data)' <=> AllShare(f, disk[f].data)
      BY <2>2 DEF AllShare, Holders, Cached
    <2>4. /\ Settled(f)' <=> Settled(f)
          /\ Cached(d, f)' <=> Cached(d, f)
          /\ Holders(f)' = Holders(f)
      BY <1>1 DEF Holders, Cached
    <2>5. GetInv(d, f)' <=> GetInv(d, f)
      BY <2>2, <2>3, <2>4 DEF GetInv
    <2>6. /\ PutInv(d, f)' <=> PutInv(d, f)
          /\ RemoveInv(d, f)' <=> RemoveInv(d, f)
          /\ CreateInv(d, f)' <=> CreateInv(d, f)
      BY <2>2, <2>4 DEF PutInv, RemoveInv, CreateInv
    <2> QED BY <2>2, <2>5, <2>6 DEF CallInv
  <1>3. \A d \in Clients, f \in Inums : Busy(d, f)' <=> Busy(d, f)
    BY DEF Busy
  <1> QED BY <1>1, <1>2, <1>3 DEF CacheInv

\* A client asks for a new inode.
LEMMA CallCreateStep ==
  ASSUME TypeOK, CacheInv, NEW c \in Clients, NEW type, CallCreate(c, type)
  PROVE  /\ CacheInv'
         /\ \A f \in Inums : Contents(f)' = Contents(f)
  <1>0. Root \in Inums
    BY InumsAssumption
  <1>1. Call(c, "create", Root, <<>>, type) /\ extent_map' = extent_map
    BY DEF CallCreate
  <1>2. /\ rpc[c] = NoCall /\ owner_map' = owner_map /\ disk' = disk
        /\ \A d \in Clients \ {c} : rpc'[d] = rpc[d]
        /\ rpc'[c].op = "create" /\ rpc'[c].at = "request" /\ rpc'[c].eid = Root
        /\ rpc'[c].todo = <<>> /\ rpc'[c].update = FALSE /\ rpc'[c] # NoCall
    BY <1>0, <1>1, CallIs
  <1>3. CallInv(c)'
    BY <1>2 DEF CallInv, CreateInv
  <1>4. \A f : ~Busy(c, f) /\ ~Busy(c, f)'
    BY <1>2, NoCallNotBusy DEF Busy
  <1>8. CacheInv'
    BY <1>1, <1>2, <1>3, <1>4, CacheIdle
  <1>9. ASSUME NEW f \in Inums PROVE Contents(f)' = Contents(f)
    <2>1. Carrying(f)' = Carrying(f)
      <3>1. c \notin Carrying(f) /\ c \notin Carrying(f)'
        BY <1>2, NoCallNotBusy DEF Carrying
      <3> QED BY <1>2, <3>1 DEF Carrying
    <2>2. Modified(f)' = Modified(f)
      BY <1>1 DEF Modified, Cached
    <2>3. \A d \in Carrying(f) : rpc'[d].data = rpc[d].data
      BY <1>2, NoCallNotBusy DEF Carrying
    <2> QED BY <1>1, <1>2, <2>1, <2>2, <2>3, ContentsSame
  <1> QED BY <1>8, <1>9

\* A client changes the only copy there is.
LEMMA PutLocalStep ==
  ASSUME TypeOK, CacheInv, NEW c \in Clients, NEW e \in Inums, NEW data \in Data,
         PutLocal(c, e, data), \A d \in Clients : ~Busy(d, e)
  PROVE  /\ CacheInv'
         /\ Contents(e)' = data
         /\ \A f \in Inums \ {e} : Contents(f)' = Contents(f)
  <1>1. /\ rpc[c] = NoCall /\ Cached(c, e) /\ extent_map[c][e].status # "SHARED"
        /\ owner_map' = owner_map /\ disk' = disk /\ rpc' = rpc
        /\ SetEntry(c, e, Entry(data, extent_map[c][e].type, "MODIFIED"))
    BY DEF PutLocal
  <1>2. /\ extent_map'[c][e] = Entry(data, extent_map[c][e].type, "MODIFIED")
        /\ \A f \in Inums \ {e} : extent_map'[c][f] = extent_map[c][f]
        /\ \A d \in Clients \ {c} : extent_map'[d] = extent_map[d]
    BY <1>1, SetEntryIs
  <1>3. /\ Settled(e) /\ Carrying(e) = {} /\ owner_map[e] = <<c>> /\ Holders(e) = {c}
        /\ extent_map[c][e].type = disk[e].type /\ disk[e].type # NoType
    BY <1>1, ContentsSettled
  <1>4. Cached(c, e)' /\ Holders(e)' = {c}
    <2>1. extent_map'[c][e] # NoEntry
      <3>1. extent_map'[c][e] \in Copies
        <4>1. extent_map[c][e].type \in Types
          BY <1>1, Typed DEF Copies
        <4> QED BY <1>2, <4>1 DEF Entry, Copies
      <3> QED BY <3>1, NoEntryAssumption
    <2> QED BY <1>2, <1>3, <2>1 DEF Holders, Cached
  <1>5. Settled(e)'
    <2>1. extent_map'[c][e].status = "MODIFIED" /\ extent_map'[c][e].type = disk'[e].type
      BY <1>1, <1>2, <1>3 DEF Entry
    <2>2. Len(owner_map'[e]) = 1 /\ IsInjective(owner_map'[e]) /\ Range(owner_map'[e]) = {c}
      BY <1>1, <1>3 DEF Settled
    <2>3. disk'[e].type # NoType
      BY <1>1, <1>3
    <2> QED BY <1>4, <2>1, <2>2, <2>3 DEF Settled
  <1>6. CallInv(c)'
    BY <1>1, NoCallIs DEF CallInv
  <1>7. \A f : ~Busy(c, f) /\ ~Busy(c, f)'
    BY <1>1, NoCallNotBusy DEF Busy
  <1>8. \A d \in Clients \ {c} : Cached(d, e)' => Cached(d, e)
    BY <1>2 DEF Cached
  <1>9. CacheInv'
    BY <1>1, <1>2, <1>5, <1>6, <1>7, <1>8, Typed, CacheFrame
  <1>10. Contents(e)' = data
    <2>1. Carrying(e)' = {}
      BY <1>1, <1>3 DEF Carrying
    <2>2. Modified(e)' = {c}
      BY <1>2, <1>4 DEF Modified, Holders, Entry
    <2>3. (CHOOSE d \in Modified(e)' : TRUE) = c
      BY <2>2
    <2>4. extent_map'[c][e].data = data
      BY <1>2 DEF Entry
    <2> QED BY <2>1, <2>2, <2>3, <2>4 DEF Contents
  <1>11. ASSUME NEW f \in Inums \ {e} PROVE Contents(f)' = Contents(f)
    <2>1. c \notin Carrying(f) /\ c \notin Carrying(f)'
      BY <1>1, NoCallNotBusy DEF Carrying
    <2>2. disk'[f] = disk[f] /\ (\A d \in Clients : extent_map'[d][f] = extent_map[d][f])
            /\ \A d \in Clients \ {c} : rpc'[d] = rpc[d]
      BY <1>1, <1>2
    <2> QED BY <2>1, <2>2, ContentsOthers
  <1> QED BY <1>9, <1>10, <1>11

\* A client sends new contents to the server.
LEMMA PutThroughStep ==
  ASSUME TypeOK, CacheInv, NEW c \in Clients, NEW e \in Inums, NEW data \in Data,
         PutThrough(c, e, data), \A d \in Clients : ~Busy(d, e), disk[e].type # NoType
  PROVE  /\ CacheInv'
         /\ \A f \in Inums : Contents(f)' = Contents(f)
         /\ Cached(c, e) => extent_map' = extent_map
         /\ ~Cached(c, e) => extent_map'[c][e] = Entry(<<>>, NoType, "EXCLUSIVE")
         /\ \A d \in Clients, f \in Inums :
              d # c \/ f # e => extent_map'[d][f] = extent_map[d][f]
         /\ Cached(c, e)'
  <1>1. /\ Call(c, "put", e, data, NoType)
        /\ Cached(c, e) => extent_map[c][e].status = "SHARED"
        /\ Cached(c, e) => extent_map' = extent_map
        /\ ~Cached(c, e) => SetEntry(c, e, Entry(<<>>, NoType, "EXCLUSIVE"))
    BY DEF PutThrough
  <1>2. /\ rpc[c] = NoCall /\ owner_map' = owner_map /\ disk' = disk
        /\ \A d \in Clients \ {c} : rpc'[d] = rpc[d]
        /\ rpc'[c].op = "put" /\ rpc'[c].at = "request" /\ rpc'[c].eid = e
        /\ rpc'[c].todo = <<>> /\ rpc'[c].update = FALSE /\ rpc'[c] # NoCall
    BY <1>1, CallIs
  <1>3. /\ ~Cached(c, e) => extent_map'[c][e] = Entry(<<>>, NoType, "EXCLUSIVE")
        /\ \A d \in Clients, f \in Inums :
             d # c \/ f # e => extent_map'[d][f] = extent_map[d][f]
    <2>1. CASE Cached(c, e)
      BY <1>1, <2>1
    <2>2. CASE ~Cached(c, e)
      <3> DEFINE new == Entry(<<>>, NoType, "EXCLUSIVE")
      <3>1. SetEntry(c, e, new)
        BY <1>1, <2>2
      <3> HIDE DEF new
      <3>2. extent_map'[c][e] = new
            /\ (\A f \in Inums \ {e} : extent_map'[c][f] = extent_map[c][f])
            /\ \A d \in Clients \ {c} : extent_map'[d] = extent_map[d]
        BY <3>1, SetEntryIs
      <3> QED BY <3>2 DEF new
    <2> QED BY <2>1, <2>2
  <1>4. Settled(e)
    BY DEF CacheInv
  <1>5. /\ Cached(c, e)' /\ Holders(e)' = Holders(e) \cup {c}
        /\ ~Cached(c, e) => Holders(e) = Holders(e)' \ {c}
    <2>1. Entry(<<>>, NoType, "EXCLUSIVE") \in Copies
      BY DEF Entry, Copies, Types, Data
    <2>2. Cached(c, e)'
      BY <1>1, <1>3, <2>1, NoEntryAssumption DEF Cached
    <2>3. \A d \in Clients \ {c} : Cached(d, e)' <=> Cached(d, e)
      BY <1>3 DEF Cached
    <2> QED BY <2>2, <2>3 DEF Holders
  <1>6. PutInv(c, e)'
    <2>1. CASE Cached(c, e)
      <3>1. extent_map' = extent_map /\ extent_map[c][e].status = "SHARED"
        BY <1>1, <2>1
      <3>2. Settled(e)'
        BY <1>2, <1>4, <3>1 DEF Settled, Holders, Cached
      <3> QED BY <1>2, <1>5, <3>1, <3>2 DEF PutInv
    <2>2. CASE ~Cached(c, e)
      <3>1. extent_map'[c][e].status = "EXCLUSIVE"
        BY <1>3, <2>2 DEF Entry
      <3>2. IsInjective(owner_map'[e]) /\ Range(owner_map'[e]) = Holders(e)' \ {c}
        BY <1>2, <1>4, <1>5, <2>2 DEF Settled
      <3> QED BY <1>2, <1>5, <3>1, <3>2 DEF PutInv
    <2> QED BY <2>1, <2>2
  <1>7. CallInv(c)'
    BY <1>2, <1>6 DEF CallInv
  <1>8. \A f \in Inums \ {e} : ~Busy(c, f) /\ ~Busy(c, f)'
    BY <1>2, NoCallNotBusy DEF Busy
  <1>9. Busy(c, e)' /\ \A d \in Clients \ {c} : Cached(d, e)' => Cached(d, e)
    BY <1>2, <1>3 DEF Busy, Cached
  <1>10. CacheInv'
    <2>1. \A f \in Inums \ {e} :
            /\ owner_map'[f] = owner_map[f] /\ disk'[f] = disk[f]
            /\ \A d \in Clients : extent_map'[d][f] = extent_map[d][f]
      BY <1>2, <1>3
    <2>2. \A d \in Clients \ {c} :
            /\ rpc'[d] = rpc[d] /\ (Cached(d, e)' => Cached(d, e))
            /\ ~Busy(d, e) /\ rpc[d].eid \in Inums
      BY <1>2, <1>9, Typed
    <2>3. \A d \in Clients : rpc[d].op \in {"none", "get", "put", "remove", "create"}
      BY Typed
    <2> QED BY <1>7, <1>8, <1>9, <2>1, <2>2, <2>3, CacheFrame
  <1>11. ASSUME NEW f \in Inums PROVE Contents(f)' = Contents(f)
    <2>1. Carrying(f)' = Carrying(f)
      <3>1. c \notin Carrying(f) /\ c \notin Carrying(f)'
        BY <1>2, NoCallNotBusy DEF Carrying
      <3> QED BY <1>2, <3>1 DEF Carrying
    <2>2. Modified(f)' = Modified(f)
      <3>1. \A d \in Clients : d # c \/ f # e => (d \in Modified(f)' <=> d \in Modified(f))
        BY <1>3 DEF Modified, Cached
      <3>2. c \in Modified(e)' <=> c \in Modified(e)
        <4>1. CASE Cached(c, e)
          BY <1>1, <4>1 DEF Modified, Cached
        <4>2. CASE ~Cached(c, e)
          BY <1>3, <4>2 DEF Modified, Entry
        <4> QED BY <4>1, <4>2
      <3> QED BY <3>1, <3>2 DEF Modified
    <2>3. \A d \in Carrying(f) : rpc'[d].data = rpc[d].data
      BY <1>2, NoCallNotBusy DEF Carrying
    <2>4. \A d \in Modified(f) : extent_map'[d][f].data = extent_map[d][f].data
      BY <1>1, <1>3 DEF Modified
    <2> QED BY <1>2, <2>1, <2>2, <2>3, <2>4, ContentsSame
  <1> QED BY <1>1, <1>3, <1>5, <1>10, <1>11

\* A client drops its copy and asks the server to remove the file.
LEMMA CallRemoveStep ==
  ASSUME TypeOK, CacheInv, NEW c \in Clients, NEW e \in Inums, CallRemove(c, e),
         \A d \in Clients : ~Busy(d, e), disk[e].type # NoType
  PROVE  /\ CacheInv'
         /\ \A f \in Inums \ {e} : Contents(f)' = Contents(f)
  <1>1. Call(c, "remove", e, <<>>, NoType) /\ SetEntry(c, e, NoEntry)
    BY DEF CallRemove
  <1>2. /\ rpc[c] = NoCall /\ owner_map' = owner_map /\ disk' = disk
        /\ \A d \in Clients \ {c} : rpc'[d] = rpc[d]
        /\ rpc'[c].op = "remove" /\ rpc'[c].at = "request" /\ rpc'[c].eid = e
        /\ rpc'[c].todo = <<>> /\ rpc'[c].update = FALSE /\ rpc'[c] # NoCall
    BY <1>1, CallIs
  <1>3. /\ extent_map'[c][e] = NoEntry
        /\ \A f \in Inums \ {e} : extent_map'[c][f] = extent_map[c][f]
        /\ \A d \in Clients \ {c} : extent_map'[d] = extent_map[d]
    BY <1>1, SetEntryIs
  <1>4. ~Cached(c, e)' /\ Holders(e)' = Holders(e) \ {c}
    BY <1>3 DEF Holders, Cached
  <1>5. Settled(e)
    BY DEF CacheInv
  <1>6. RemoveInv(c, e)'
    <2>1. IsInjective(owner_map'[e]) /\ Range(owner_map'[e]) \ {c} = Holders(e)'
      BY <1>2, <1>4, <1>5 DEF Settled
    <2> QED BY <1>2, <1>4, <2>1 DEF RemoveInv
  <1>7. CallInv(c)'
    BY <1>2, <1>6 DEF CallInv
  <1>8. \A f \in Inums \ {e} : ~Busy(c, f) /\ ~Busy(c, f)'
    BY <1>2, NoCallNotBusy DEF Busy
  <1>9. Busy(c, e)' /\ \A d \in Clients \ {c} : Cached(d, e)' => Cached(d, e)
    BY <1>2, <1>3 DEF Busy, Cached
  <1>10. CacheInv'
    <2>1. \A f \in Inums \ {e} :
            /\ owner_map'[f] = owner_map[f] /\ disk'[f] = disk[f]
            /\ \A d \in Clients : extent_map'[d][f] = extent_map[d][f]
      BY <1>2, <1>3
    <2>2. \A d \in Clients \ {c} :
            /\ rpc'[d] = rpc[d] /\ (Cached(d, e)' => Cached(d, e))
            /\ ~Busy(d, e) /\ rpc[d].eid \in Inums
      BY <1>2, <1>9, Typed
    <2>3. \A d \in Clients : rpc[d].op \in {"none", "get", "put", "remove", "create"}
      BY Typed
    <2> QED BY <1>7, <1>8, <1>9, <2>1, <2>2, <2>3, CacheFrame
  <1>11. ASSUME NEW f \in Inums \ {e} PROVE Contents(f)' = Contents(f)
    <2>1. c \notin Carrying(f) /\ c \notin Carrying(f)'
      BY <1>2, NoCallNotBusy DEF Carrying
    <2>2. disk'[f] = disk[f] /\ (\A d \in Clients : extent_map'[d][f] = extent_map[d][f])
            /\ \A d \in Clients \ {c} : rpc'[d] = rpc[d]
      BY <1>2, <1>3
    <2> QED BY <2>1, <2>2, ContentsOthers
  <1> QED BY <1>10, <1>11

-----------------------------------------------------------------------------
(* The server                                                              *)

\* Nobody else is busy with the file of a call that is.
LEMMA OthersNotBusy ==
  ASSUME TypeOK, CacheInv, NEW c \in Clients, NEW e \in Inums, Busy(c, e)
  PROVE  /\ \A d \in Clients \ {c} : ~Busy(d, e) /\ d \notin Carrying(e)
         /\ \A f \in Inums \ {e} : ~Busy(c, f) /\ c \notin Carrying(f)
  <1>1. \A f \in Inums \ {e} : ~Busy(c, f)
    BY DEF Busy
  <1>2. \A d \in Clients \ {c} : ~Busy(d, e)
    BY DEF CacheInv
  <1> QED BY <1>1, <1>2, CarryingBusy

\* CacheFrame for a call that is busy with e.
LEMMA CacheBusy ==
  ASSUME TypeOK, CacheInv, NEW c \in Clients, NEW e \in Inums, Busy(c, e),
         \A f \in Inums \ {e} :
           /\ owner_map'[f] = owner_map[f] /\ disk'[f] = disk[f]
           /\ \A d \in Clients : extent_map'[d][f] = extent_map[d][f],
         \A d \in Clients \ {c} : rpc'[d] = rpc[d] /\ (Cached(d, e)' => Cached(d, e)),
         rpc'[c] = NoCall \/ rpc'[c].eid = e,
         CallInv(c)', Busy(c, e)' \/ Settled(e)'
  PROVE  /\ CacheInv'
         /\ \A f \in Inums \ {e} : Contents(f)' = Contents(f)
  <1>1. \A f \in Inums \ {e} : ~Busy(c, f) /\ ~Busy(c, f)'
    <2>1. \A f \in Inums \ {e} : ~Busy(c, f)'
      BY NoCallIs DEF Busy
    <2> QED BY <2>1, OthersNotBusy
  <1>2. \A d \in Clients \ {c} : ~Busy(d, e) /\ rpc[d].eid \in Inums
    BY OthersNotBusy, Typed
  <1>3. \A d \in Clients : rpc[d].op \in {"none", "get", "put", "remove", "create"}
    BY Typed
  <1>4. CacheInv'
    BY <1>1, <1>2, <1>3, CacheFrame
  <1>5. ASSUME NEW f \in Inums \ {e} PROVE Contents(f)' = Contents(f)
    <2>1. c \notin Carrying(f) /\ c \notin Carrying(f)'
      <3>1. c \notin Carrying(f)
        BY OthersNotBusy
      <3>2. c \notin Carrying(f)'
        BY NoCallIs DEF Carrying
      <3> QED BY <3>1, <3>2
    <2> QED BY <2>1, ContentsOthers
  <1> QED BY <1>4, <1>5

\* The server starts on a call: a put's data becomes the contents.
LEMMA LookupStep ==
  ASSUME TypeOK, CacheInv, NEW c \in Clients, NEW e \in Inums, e = rpc[c].eid,
         ServerLookup(c)
  PROVE  /\ CacheInv'
         /\ \A f \in Inums : f # e \/ rpc[c].op # "put" => Contents(f)' = Contents(f)
         /\ rpc[c].op = "put" => Contents(e)' = rpc[c].data
  <1> DEFINE owners == owner_map[e]
             todo == CallBacks(c, rpc[c].op, owners)
  <1>1. /\ rpc[c].at = "request" /\ rpc[c].op \in {"get", "put", "remove"}
        /\ extent_map' = extent_map /\ owner_map' = owner_map /\ disk' = disk
    BY DEF ServerLookup
  <1>2. /\ \A d \in Clients \ {c} : rpc'[d] = rpc[d]
        /\ rpc'[c] = [rpc[c] EXCEPT !.at = "callback", !.todo = todo,
                                    !.is_share = rpc[c].op = "get" /\ owners # <<>>]
    BY DEF ServerLookup, TypeOK
  <1>3. /\ rpc'[c].at = "callback" /\ rpc'[c].todo = todo /\ rpc'[c].eid = e
        /\ rpc'[c].is_share = (rpc[c].op = "get" /\ owners # <<>>)
        /\ rpc'[c].op = rpc[c].op /\ rpc'[c].update = rpc[c].update
        /\ rpc'[c].data = rpc[c].data
    <2> HIDE DEF todo, owners
    <2> QED BY <1>2 DEF TypeOK
  <1>4. Busy(c, e) /\ Busy(c, e)' /\ CallInv(c) /\ rpc[c].update = FALSE
    BY <1>1, <1>3, Typed DEF Busy, CacheInv, CallInv
  <1>5. owners \in Seq(Clients)
    BY Typed
  <1>6. /\ Holders(e)' = Holders(e) /\ (Cached(c, e)' <=> Cached(c, e))
        /\ Settled(e)' <=> Settled(e)
    BY <1>1 DEF Holders, Cached, Settled
  <1>7. ASSUME rpc[c].op = "get" PROVE GetInv(c, e)'
    <2>1. GetInv(c, e) /\ todo = IF Len(owners) = 1 THEN owners ELSE <<>>
      BY <1>4, <1>7 DEF CallInv, CallBacks
    <2>2. Settled(e)
      BY <1>1, <2>1 DEF GetInv
    <2>3. Len(owners) # 1 => AllShare(e, disk[e].data)'
      <3> SUFFICES ASSUME Len(owners) # 1, NEW d \in Holders(e)
                   PROVE  extent_map[d][e] = Entry(disk[e].data, disk[e].type, "SHARED")
        BY <1>1, <1>6 DEF AllShare
      <3>1. d \in Clients /\ extent_map[d][e] \in Copies
        BY Typed DEF Holders
      <3>2. /\ extent_map[d][e].status = "SHARED" /\ extent_map[d][e].data = disk[e].data
            /\ extent_map[d][e].type = disk[e].type
        BY <2>2 DEF Settled
      <3> QED BY <3>1, <3>2 DEF Copies, Entry
    <2>4. todo # <<>> => todo = owners /\ Len(owners) = 1
      BY <2>1
    <2>5. todo = <<>> => Len(owners) # 1
      BY <1>5, <2>1
    <2>6. QED
      <3>1. /\ ~Cached(c, e)' /\ disk'[e].type # NoType
            /\ IsInjective(owner_map'[e]) /\ Range(owner_map'[e]) = Holders(e)'
            /\ rpc'[c].is_share <=> owner_map'[e] # <<>>
        BY <1>1, <1>3, <1>6, <1>7, <2>1, <2>2 DEF GetInv, Settled
      <3>2. rpc'[c].todo # <<>> => Settled(e)' /\ ~rpc'[c].update
              /\ rpc'[c].todo = owner_map'[e] /\ Len(owner_map'[e]) = 1
        BY <1>1, <1>3, <1>4, <1>6, <2>2, <2>4
      <3>3. rpc'[c].todo = <<>> =>
              AllShare(e, IF rpc[c].update THEN rpc[c].data ELSE disk[e].data)'
        <4>1. ASSUME todo = <<>>
              PROVE AllShare(e, IF rpc[c].update THEN rpc[c].data ELSE disk[e].data)'
          <5>1. AllShare(e, disk[e].data)' /\ rpc'[c].update = FALSE
            BY <1>3, <1>4, <2>3, <2>5, <4>1
          <5> QED BY <5>1
        <4> QED BY <1>3, <4>1
      <3> QED BY <1>3, <1>4, <3>1, <3>2, <3>3 DEF GetInv
  <1>8. ASSUME rpc[c].op = "put" PROVE PutInv(c, e)'
    <2>1. PutInv(c, e) /\ todo = Without(owners, {c})
      BY <1>4, <1>8 DEF CallInv, CallBacks, OthersThan
    <2>2. IsInjective(owners) /\ Range(owners) \ {c} = Holders(e) \ {c}
      BY <1>1, <2>1 DEF PutInv, Settled
    <2>3. IsInjective(todo) /\ Range(todo) = Holders(e) \ {c}
      BY <1>5, <2>1, <2>2, WithoutRange
    <2>4. extent_map[c][e].status # "MODIFIED"
      BY <1>1, <2>1 DEF PutInv
    <2> QED BY <1>1, <1>3, <1>6, <2>1, <2>3, <2>4 DEF PutInv
  <1>9. ASSUME rpc[c].op = "remove" PROVE RemoveInv(c, e)'
    <2>1. RemoveInv(c, e) /\ todo = Without(owners, {c})
      BY <1>4, <1>9 DEF CallInv, CallBacks, OthersThan
    <2>2. IsInjective(owners) /\ Range(owners) \ {c} = Holders(e)
      BY <1>1, <2>1 DEF RemoveInv
    <2>3. IsInjective(todo) /\ Range(todo) = Holders(e)
      <3> HIDE DEF todo, owners
      <3>1. Range(Without(owners, {c})) = Range(owners) \ {c}
              /\ (IsInjective(owners) => IsInjective(Without(owners, {c})))
        BY <1>5, WithoutRange
      <3> QED BY <2>1, <2>2, <3>1
    <2> QED BY <1>1, <1>3, <1>6, <2>1, <2>3 DEF RemoveInv
  <1>10. CallInv(c)'
    <2>1. rpc'[c] # NoCall
      BY <1>3, NoCallIs
    <2> HIDE DEF todo, owners
    <2> QED BY <1>1, <1>3, <1>4, <1>7, <1>8, <1>9, <2>1 DEF CallInv
  <1>11. CacheInv' /\ \A f \in Inums \ {e} : Contents(f)' = Contents(f)
    <2> HIDE DEF todo, owners
    <2>1. \A d \in Clients \ {c} : rpc'[d] = rpc[d] /\ (Cached(d, e)' => Cached(d, e))
      BY <1>1, <1>2 DEF Cached
    <2>2. \A f \in Inums \ {e} :
            /\ owner_map'[f] = owner_map[f] /\ disk'[f] = disk[f]
            /\ \A d \in Clients : extent_map'[d][f] = extent_map[d][f]
      BY <1>1
    <2> QED BY <1>3, <1>4, <1>10, <2>1, <2>2, CacheBusy
  <1>12. ASSUME rpc[c].op # "put" PROVE Contents(e)' = Contents(e)
    <2> HIDE DEF todo, owners
    <2>1. Carrying(e)' = Carrying(e)
      <3>1. c \notin Carrying(e) /\ c \notin Carrying(e)'
        BY <1>1, <1>3, <1>4, <1>12 DEF Carrying
      <3> QED BY <1>2, <3>1 DEF Carrying
    <2>2. Modified(e)' = Modified(e)
      BY <1>1 DEF Modified, Cached
    <2>3. \A d \in Carrying(e) : rpc'[d].data = rpc[d].data
      BY <1>2, <1>3 DEF Carrying
    <2> QED BY <1>1, <2>1, <2>2, <2>3, ContentsSame
  <1>13. ASSUME rpc[c].op = "put" PROVE Contents(e)' = rpc[c].data
    <2> HIDE DEF todo, owners
    <2>1. Carrying(e)' = {c}
      <3>1. c \in Carrying(e)'
        BY <1>3, <1>13 DEF Carrying
      <3>2. \A d \in Clients \ {c} : d \notin Carrying(e)'
        BY <1>2, <1>4, OthersNotBusy DEF Carrying
      <3> QED BY <3>1, <3>2 DEF Carrying
    <2>2. (CHOOSE d \in Carrying(e)' : TRUE) = c
      BY <2>1
    <2> QED BY <1>3, <2>1, <2>2 DEF Contents
  <1> QED BY <1>11, <1>12, <1>13

\* The tail of a sequence without repetitions lacks just its head.
LEMMA TailRange ==
  ASSUME NEW S, NEW s \in Seq(S), s # <<>>
  PROVE  /\ Head(s) \in Range(s) /\ Tail(s) \in Seq(S)
         /\ IsInjective(s) => /\ IsInjective(Tail(s))
                              /\ Range(Tail(s)) = Range(s) \ {Head(s)}
         /\ Len(s) = 1 => Tail(s) = <<>>
  <1>1. /\ Len(s) \in Nat /\ Len(s) # 0 /\ DOMAIN s = 1..Len(s)
        /\ DOMAIN Tail(s) = 1..(Len(s) - 1) /\ Head(s) = s[1] /\ Tail(s) \in Seq(S)
        /\ \A k \in 1..(Len(s) - 1) : Tail(s)[k] = s[k + 1]
        /\ Len(Tail(s)) = Len(s) - 1
    OBVIOUS
  <1>2. Head(s) \in Range(s)
    BY <1>1 DEF Range
  <1>3. Len(s) = 1 => Tail(s) = <<>>
    BY <1>1
  <1>4. ASSUME IsInjective(s) PROVE IsInjective(Tail(s))
    BY <1>1, <1>4 DEF IsInjective
  <1>5. ASSUME IsInjective(s), NEW x PROVE x \in Range(Tail(s)) <=> x \in Range(s) \ {Head(s)}
    <2>1. ASSUME x \in Range(Tail(s)) PROVE x \in Range(s) \ {Head(s)}
      <3>1. PICK k \in 1..(Len(s) - 1) : Tail(s)[k] = x
        BY <1>1, <2>1 DEF Range
      <3>2. k + 1 \in 1..Len(s) /\ 1 \in 1..Len(s) /\ s[k + 1] = x /\ k + 1 # 1
        BY <1>1, <3>1
      <3> QED BY <1>1, <1>5, <3>2 DEF IsInjective, Range
    <2>2. ASSUME x \in Range(s) \ {Head(s)} PROVE x \in Range(Tail(s))
      <3>1. PICK k \in 1..Len(s) : s[k] = x
        BY <1>1, <2>2 DEF Range
      <3>2. k - 1 \in 1..(Len(s) - 1) /\ Tail(s)[k - 1] = s[k]
        <4>1. k # 1
          BY <1>1, <2>2, <3>1
        <4> QED BY <1>1, <4>1
      <3> QED BY <1>1, <3>1, <3>2 DEF Range
    <2> QED BY <2>1, <2>2
  <1> QED BY <1>1, <1>2, <1>3, <1>4, <1>5

\* A shared copy is a copy.
LEMMA SharedCopy ==
  ASSUME NEW copy \in Copies
  PROVE  /\ [copy EXCEPT !.status = "SHARED"] = Entry(copy.data, copy.type, "SHARED")
         /\ Entry(copy.data, copy.type, "SHARED") \in Copies
  BY DEF Copies, Entry

\* The owner shares its copy.
LEMMA ShareStep ==
  ASSUME TypeOK, CacheInv, NEW c \in Clients, NEW e \in Inums, e = rpc[c].eid,
         ShareHandler(c)
  PROVE  /\ CacheInv'
         /\ \A f \in Inums : Contents(f)' = Contents(f)
         /\ \A d \in Clients, f \in Inums : Cached(d, f) =>
              Cached(d, f)' /\ extent_map'[d][f].data = extent_map[d][f].data
  <1>p. PICK d \in Clients : d = Callee(c) /\ Cached(d, e)
    <2>1. rpc[c].todo \in Seq(Clients) /\ rpc[c].todo # <<>> /\ Cached(Callee(c), e)
      BY Typed DEF ShareHandler, CalleeHasEntry
    <2>2. Head(rpc[c].todo) \in Clients
      BY <2>1
    <2> QED BY <2>1, <2>2 DEF Callee
  <1> DEFINE copy == extent_map[d][e]
             update == copy.status = "MODIFIED"
             new == [copy EXCEPT !.status = "SHARED"]
  <1>1. /\ rpc[c].at = "callback" /\ rpc[c].todo # <<>> /\ rpc[c].op = "get"
        /\ Cached(d, e) /\ owner_map' = owner_map /\ disk' = disk
        /\ SetEntry(d, e, new)
        /\ rpc' = [rpc EXCEPT ![c].todo = Tail(@), ![c].update = update,
                              ![c].data = IF update THEN copy.data ELSE <<>>]
    BY <1>p DEF ShareHandler, CalleeHasEntry
  <1>2. GetInv(c, e) /\ rpc[c].update = FALSE /\ Busy(c, e)
    BY <1>1, Typed DEF CacheInv, CallInv, GetInv, Busy
  <1>3. /\ Settled(e) /\ rpc[c].todo = owner_map[e] /\ Len(owner_map[e]) = 1
        /\ ~Cached(c, e) /\ disk[e].type # NoType
    BY <1>1, <1>2 DEF GetInv
  <1>4. Holders(e) = {d} /\ d \in Clients /\ d # c /\ Tail(rpc[c].todo) = <<>>
    <2>1. owner_map[e] \in Seq(Clients) /\ IsInjective(owner_map[e])
            /\ Range(owner_map[e]) = Holders(e) /\ owner_map[e] # <<>>
      BY <1>1, <1>3, Typed DEF Settled
    <2>2. Holders(e) = {owner_map[e][1]} /\ owner_map[e][1] = Head(owner_map[e])
      BY <1>3, <2>1, OneMember
    <2>3. Tail(owner_map[e]) = <<>>
      BY <1>3, <2>1, TailRange
    <2> QED BY <1>1, <1>p, <1>3, <2>2, <2>3 DEF Callee, Holders
  <1>5. copy \in Copies /\ new = Entry(copy.data, copy.type, "SHARED") /\ new \in Copies
    <2>1. copy \in Copies
      BY <1>1, <1>4, Typed
    <2> HIDE DEF copy
    <2> QED BY <2>1, SharedCopy
  <1>6. /\ extent_map'[d][e] = new
        /\ \A f \in Inums \ {e} : extent_map'[d][f] = extent_map[d][f]
        /\ \A g \in Clients \ {d} : extent_map'[g] = extent_map[g]
    <2> HIDE DEF new
    <2> QED BY <1>1, <1>4, SetEntryIs
  <1>7. /\ \A g \in Clients \ {c} : rpc'[g] = rpc[g]
        /\ rpc'[c] = [rpc[c] EXCEPT !.todo = <<>>, !.update = update,
                                    !.data = IF update THEN copy.data ELSE <<>>]
    BY <1>1, <1>4 DEF TypeOK
  <1>8. /\ rpc'[c].at = "callback" /\ rpc'[c].todo = <<>> /\ rpc'[c].eid = e
        /\ rpc'[c].is_share = rpc[c].is_share /\ rpc'[c].op = "get"
        /\ rpc'[c].update = update /\ (update => rpc'[c].data = copy.data)
    <2>1. rpc[c] \in
            [op : {"none", "get", "put", "remove", "create"}, eid : Inums,
             at : {"none", "request", "callback", "reply"}, data : Data, type : Types,
             todo : Seq(Clients), is_share : BOOLEAN, update : BOOLEAN]
      BY DEF TypeOK
    <2>2. \A r : r = [rpc[c] EXCEPT !.todo = <<>>, !.update = update,
                          !.data = IF update THEN copy.data ELSE <<>>] =>
            /\ r.at = rpc[c].at /\ r.todo = <<>> /\ r.eid = rpc[c].eid
            /\ r.is_share = rpc[c].is_share /\ r.op = rpc[c].op
            /\ r.update = update /\ r.data = IF update THEN copy.data ELSE <<>>
      <3> HIDE DEF copy, update
      <3> QED BY <2>1
    <2>3. /\ rpc'[c].at = rpc[c].at /\ rpc'[c].todo = <<>> /\ rpc'[c].eid = rpc[c].eid
          /\ rpc'[c].is_share = rpc[c].is_share /\ rpc'[c].op = rpc[c].op
          /\ rpc'[c].update = update /\ rpc'[c].data = IF update THEN copy.data ELSE <<>>
      <3> HIDE DEF copy, update
      <3> QED BY <1>7, <2>2, Zenon
    <2> HIDE DEF copy, update
    <2> QED BY <1>1, <2>3
  <1>9. \A g \in Clients, f \in Inums : Cached(g, f)' <=> Cached(g, f)
    <2>1. Cached(d, e)'
      <3> HIDE DEF copy, new
      <3> QED BY <1>5, <1>6, NoEntryAssumption DEF Cached
    <2>2. \A g \in Clients, f \in Inums : g # d \/ f # e => (Cached(g, f)' <=> Cached(g, f))
      BY <1>4, <1>6 DEF Cached
    <2> QED BY <1>1, <2>1, <2>2
  <1>10. Holders(e)' = {d}
    BY <1>4, <1>9 DEF Holders
  <1>11. /\ ~update => copy.data = disk[e].data
         /\ copy.type = disk[e].type
    BY <1>3, <1>4 DEF Settled
  <1>12. GetInv(c, e)'
    <2>1. AllShare(e, IF rpc[c].update THEN rpc[c].data ELSE disk[e].data)'
      <3>1. extent_map'[d][e] = Entry(copy.data, copy.type, "SHARED")
        BY <1>5, <1>6
      <3>2. copy.data = IF rpc'[c].update THEN rpc'[c].data ELSE disk'[e].data
        BY <1>1, <1>8, <1>11
      <3> HIDE DEF copy, update, new
      <3> QED BY <1>1, <1>10, <1>11, <3>1, <3>2 DEF AllShare
    <2>2. /\ ~Cached(c, e)' /\ disk'[e].type # NoType
          /\ IsInjective(owner_map'[e]) /\ Range(owner_map'[e]) = Holders(e)'
          /\ rpc'[c].is_share <=> owner_map'[e] # <<>>
          /\ owner_map'[e] # <<>>
      BY <1>1, <1>2, <1>3, <1>4, <1>8, <1>9, <1>10 DEF GetInv, Settled
    <2> HIDE DEF copy, update, new
    <2> QED BY <1>8, <2>1, <2>2 DEF GetInv
  <1>13. CallInv(c)'
    <2>1. rpc'[c] # NoCall
      BY <1>8, NoCallIs
    <2> HIDE DEF copy, update, new
    <2> QED BY <1>8, <1>12, <2>1 DEF CallInv
  <1>14. CacheInv' /\ \A f \in Inums \ {e} : Contents(f)' = Contents(f)
    <2> HIDE DEF copy, update, new
    <2>1. \A g \in Clients \ {c} : rpc'[g] = rpc[g] /\ (Cached(g, e)' => Cached(g, e))
      BY <1>7, <1>9
    <2>2. \A f \in Inums \ {e} :
            /\ owner_map'[f] = owner_map[f] /\ disk'[f] = disk[f]
            /\ \A g \in Clients : extent_map'[g][f] = extent_map[g][f]
      BY <1>1, <1>4, <1>6
    <2>3. Busy(c, e)'
      BY <1>8 DEF Busy
    <2> QED BY <1>2, <1>8, <1>13, <2>1, <2>2, <2>3, CacheBusy
  <1>15. Contents(e)' = Contents(e)
    <2>0. Carrying(e) = {}
      <3>1. c \notin Carrying(e)
        BY <1>1, <1>2 DEF Carrying
      <3> QED BY <1>2, <3>1, OthersNotBusy DEF Carrying
    <2>1. CASE update
      <3>1. Carrying(e)' = {c}
        <4>1. c \in Carrying(e)'
          BY <1>8, <2>1 DEF Carrying
        <4>2. \A g \in Clients \ {c} : g \notin Carrying(e)'
          BY <1>2, <1>7, OthersNotBusy DEF Carrying
        <4> QED BY <4>1, <4>2 DEF Carrying
      <3>2. Contents(e)' = rpc'[c].data
        <4>1. (CHOOSE g \in Carrying(e)' : TRUE) = c
          BY <3>1
        <4> QED BY <3>1, <4>1 DEF Contents
      <3>3. Modified(e) = {d}
        BY <1>1, <1>4, <2>1 DEF Modified, Holders
      <3>4. Contents(e) = copy.data
        BY <1>4, <2>0, <3>3, ContentsModified
      <3> QED BY <1>8, <2>1, <3>2, <3>4
    <2>2. CASE ~update
      <3>1. Carrying(e)' = {}
        <4>1. c \notin Carrying(e)'
          BY <1>8, <2>2 DEF Carrying
        <4>2. \A g \in Clients \ {c} : g \notin Carrying(e)'
          BY <1>2, <1>7, OthersNotBusy DEF Carrying
        <4> QED BY <4>1, <4>2 DEF Carrying
      <3>2. Modified(e) = {}
        BY <1>4, <2>2 DEF Modified, Holders
      <3>3. Modified(e)' = {}
        <4>1. extent_map'[d][e].status # "MODIFIED"
          BY <1>5, <1>6 DEF Entry
        <4> HIDE DEF copy, update, new
        <4> QED BY <1>10, <4>1 DEF Modified, Holders
      <3> QED BY <1>1, <2>0, <3>1, <3>2, <3>3 DEF Contents
    <2> QED BY <2>1, <2>2
  <1>16. \A g \in Clients, f \in Inums : Cached(g, f) =>
           Cached(g, f)' /\ extent_map'[g][f].data = extent_map[g][f].data
    <2>1. new.data = copy.data
      BY <1>5 DEF Entry
    <2> QED BY <1>4, <1>6, <1>9, <2>1
  <1> QED BY <1>14, <1>15, <1>16

\* A client drops its copy.
LEMMA InvalidateStep ==
  ASSUME TypeOK, CacheInv, NEW c \in Clients, NEW e \in Inums, e = rpc[c].eid,
         InvalidateHandler(c)
  PROVE  /\ CacheInv'
         /\ \A f \in Inums : f # e \/ rpc[c].op = "put" => Contents(f)' = Contents(f)
         /\ \A f \in Inums \ {e}, g \in Clients : extent_map'[g][f] = extent_map[g][f]
         /\ extent_map'[c] = extent_map[c]
         /\ \A g \in Clients, f \in Inums : Cached(g, f)' =>
              Cached(g, f) /\ extent_map'[g][f] = extent_map[g][f]
  <1>p. PICK d \in Clients : d = Callee(c) /\ Cached(d, e)
    <2>1. rpc[c].todo \in Seq(Clients) /\ rpc[c].todo # <<>> /\ Cached(Callee(c), e)
      BY Typed DEF InvalidateHandler, CalleeHasEntry
    <2>2. Head(rpc[c].todo) \in Clients
      BY <2>1
    <2> QED BY <2>1, <2>2 DEF Callee
  <1>1. /\ rpc[c].at = "callback" /\ rpc[c].todo # <<>> /\ rpc[c].op \in {"put", "remove"}
        /\ owner_map' = owner_map /\ disk' = disk
        /\ SetEntry(d, e, NoEntry)
        /\ rpc' = [rpc EXCEPT ![c].todo = Tail(@)]
    BY <1>p DEF InvalidateHandler
  <1>2. /\ extent_map'[d][e] = NoEntry
        /\ \A f \in Inums \ {e} : extent_map'[d][f] = extent_map[d][f]
        /\ \A g \in Clients \ {d} : extent_map'[g] = extent_map[g]
    BY <1>1, SetEntryIs
  <1>3. /\ \A g \in Clients \ {c} : rpc'[g] = rpc[g]
        /\ rpc'[c] = [rpc[c] EXCEPT !.todo = Tail(rpc[c].todo)]
    BY <1>1 DEF TypeOK
  <1>4. /\ rpc'[c].at = "callback" /\ rpc'[c].todo = Tail(rpc[c].todo) /\ rpc'[c].eid = e
        /\ rpc'[c].op = rpc[c].op /\ rpc'[c].update = rpc[c].update
        /\ rpc'[c].data = rpc[c].data
    BY <1>1, <1>3 DEF TypeOK
  <1>5. /\ Busy(c, e) /\ Busy(c, e)' /\ CallInv(c) /\ rpc[c].update = FALSE
    BY <1>1, <1>4, Typed DEF Busy, CacheInv, CallInv
  <1>6. Holders(e)' = Holders(e) \ {d}
    BY <1>2 DEF Holders, Cached
  <1>7. /\ d \in Range(rpc[c].todo)
        /\ IsInjective(rpc[c].todo) =>
             /\ IsInjective(Tail(rpc[c].todo))
             /\ Range(Tail(rpc[c].todo)) = Range(rpc[c].todo) \ {d}
    <2>1. rpc[c].todo \in Seq(Clients) /\ rpc[c].todo # <<>>
      BY <1>1, Typed
    <2> QED BY <1>p, <2>1, TailRange DEF Callee
  <1>8. ASSUME rpc[c].op = "put" PROVE PutInv(c, e)' /\ d # c
    <2>1. PutInv(c, e)
      BY <1>5, <1>8 DEF CallInv
    <2>2. /\ IsInjective(rpc[c].todo) /\ Range(rpc[c].todo) = Holders(e) \ {c}
          /\ extent_map[c][e].status # "MODIFIED" /\ Cached(c, e) /\ disk[e].type # NoType
      BY <1>1, <2>1 DEF PutInv
    <2>3. d # c
      BY <1>7, <2>2
    <2>4. Range(rpc'[c].todo) = Holders(e)' \ {c} /\ IsInjective(rpc'[c].todo)
      BY <1>4, <1>6, <1>7, <2>2
    <2>5. extent_map'[c] = extent_map[c] /\ Cached(c, e)'
      BY <1>2, <2>2, <2>3 DEF Cached
    <2> QED BY <1>1, <1>4, <2>2, <2>3, <2>4, <2>5 DEF PutInv
  <1>9. ASSUME rpc[c].op = "remove" PROVE RemoveInv(c, e)' /\ d # c
    <2>1. RemoveInv(c, e)
      BY <1>5, <1>9 DEF CallInv
    <2>2. /\ IsInjective(rpc[c].todo) /\ Range(rpc[c].todo) = Holders(e)
          /\ ~Cached(c, e) /\ disk[e].type # NoType
      BY <1>1, <2>1 DEF RemoveInv
    <2>3. d # c
      BY <1>p, <2>2
    <2>4. Range(rpc'[c].todo) = Holders(e)' /\ IsInjective(rpc'[c].todo)
      BY <1>4, <1>6, <1>7, <2>2
    <2>5. ~Cached(c, e)'
      BY <1>2, <2>2, <2>3 DEF Cached
    <2> QED BY <1>1, <1>4, <2>2, <2>3, <2>4, <2>5 DEF RemoveInv
  <1>10. d # c /\ extent_map'[c] = extent_map[c]
    BY <1>1, <1>2, <1>8, <1>9
  <1>11. CallInv(c)'
    <2>1. rpc'[c] # NoCall
      BY <1>4, NoCallIs
    <2> QED BY <1>1, <1>4, <1>5, <1>8, <1>9, <2>1 DEF CallInv
  <1>12. CacheInv' /\ \A f \in Inums \ {e} : Contents(f)' = Contents(f)
    <2>1. \A g \in Clients \ {c} : rpc'[g] = rpc[g] /\ (Cached(g, e)' => Cached(g, e))
      BY <1>2, <1>3 DEF Cached
    <2>2. \A f \in Inums \ {e} :
            /\ owner_map'[f] = owner_map[f] /\ disk'[f] = disk[f]
            /\ \A g \in Clients : extent_map'[g][f] = extent_map[g][f]
      BY <1>1, <1>2
    <2> QED BY <1>4, <1>5, <1>11, <2>1, <2>2, CacheBusy
  <1>13. ASSUME rpc[c].op = "put" PROVE Contents(e)' = Contents(e)
    <2>1. c \in Carrying(e)
      BY <1>1, <1>13 DEF Carrying
    <2>2. c \in Carrying(e)'
      BY <1>4, <1>13 DEF Carrying
    <2>3. \A g \in Clients \ {c} : g \notin Carrying(e)'
      BY <1>3, <1>5, OthersNotBusy DEF Carrying
    <2>4. Carrying(e)' = {c}
      BY <2>2, <2>3 DEF Carrying
    <2>5. (CHOOSE g \in Carrying(e)' : TRUE) = c
      BY <2>4
    <2>6. Contents(e)' = rpc'[c].data
      BY <2>4, <2>5 DEF Contents
    <2> QED BY <1>4, <2>1, <2>6, ContentsCarried
  <1> QED BY <1>2, <1>10, <1>12, <1>13 DEF Cached

\* What the server answers.
LEMMA ReplyIs ==
  ASSUME TypeOK, NEW c \in Clients, NEW data, NEW type, Reply(c, data, type)
  PROVE  /\ \A d \in Clients \ {c} : rpc'[d] = rpc[d]
         /\ rpc'[c].at = "reply" /\ rpc'[c].data = data /\ rpc'[c].type = type
         /\ rpc'[c].op = rpc[c].op /\ rpc'[c].eid = rpc[c].eid
         /\ rpc'[c].todo = rpc[c].todo /\ rpc'[c].is_share = rpc[c].is_share
         /\ rpc'[c].update = rpc[c].update /\ rpc'[c] # NoCall
  <1>1. /\ \A d \in Clients \ {c} : rpc'[d] = rpc[d]
        /\ rpc'[c] = [rpc[c] EXCEPT !.at = "reply", !.data = data, !.type = type]
    BY DEF Reply, TypeOK
  <1>2. /\ rpc'[c].at = "reply" /\ rpc'[c].data = data /\ rpc'[c].type = type
        /\ rpc'[c].op = rpc[c].op /\ rpc'[c].eid = rpc[c].eid
        /\ rpc'[c].todo = rpc[c].todo /\ rpc'[c].is_share = rpc[c].is_share
        /\ rpc'[c].update = rpc[c].update
    BY <1>1 DEF TypeOK
  <1> QED BY <1>1, <1>2, NoCallIs

\* The answer to a call takes what it carried to the disk.
LEMMA ContentsReplied ==
  ASSUME TypeOK, CacheInv, NEW c \in Clients, NEW e \in Inums, Busy(c, e),
         \A d \in Clients \ {c} : rpc'[d] = rpc[d], rpc'[c].at = "reply",
         extent_map' = extent_map, Modified(e) = {} \/ Carrying(e) = {},
         c \in Carrying(e) => Modified(e) = {} /\ disk'[e].data = rpc[c].data,
         c \notin Carrying(e) => disk'[e].data = disk[e].data
  PROVE  Contents(e)' = Contents(e)
  <1>1. Carrying(e)' = {}
    <2>1. \A g \in Clients \ {c} : g \notin Carrying(e)'
      BY OthersNotBusy DEF Carrying
    <2> QED BY <2>1 DEF Carrying
  <1>2. Modified(e)' = Modified(e)
    BY DEF Modified, Cached
  <1>3. CASE c \in Carrying(e)
    <2>1. Contents(e) = rpc[c].data
      BY <1>3, ContentsCarried
    <2>2. Contents(e)' = disk'[e].data
      BY <1>1, <1>2, <1>3 DEF Contents
    <2> QED BY <1>3, <2>1, <2>2
  <1>4. CASE c \notin Carrying(e)
    <2>1. Carrying(e) = {}
      BY <1>4, OthersNotBusy DEF Carrying
    <2> QED BY <1>1, <1>2, <1>4, <2>1 DEF Contents
  <1> QED BY <1>3, <1>4

\* All copies shared: none is modified.
LEMMA SharedUnmodified ==
  ASSUME NEW e \in Inums, NEW data, AllShare(e, data)
  PROVE  Modified(e) = {}
  BY DEF AllShare, Modified, Holders, Entry

\* The server answers a get.
LEMMA GetStep ==
  ASSUME TypeOK, CacheInv, NEW c \in Clients, NEW e \in Inums, e = rpc[c].eid,
         ServerGet(c)
  PROVE  /\ CacheInv'
         /\ \A f \in Inums : Contents(f)' = Contents(f)
  <1> DEFINE data == IF rpc[c].update THEN rpc[c].data ELSE disk[e].data
  <1>1. /\ rpc[c].at = "callback" /\ rpc[c].todo = <<>> /\ rpc[c].op = "get"
        /\ disk' = [disk EXCEPT ![e].data = data]
        /\ owner_map' = [owner_map EXCEPT ![e] = Append(@, c)]
        /\ Reply(c, data, disk[e].type) /\ extent_map' = extent_map
    BY DEF ServerGet, CalledBack
  <1>2. GetInv(c, e) /\ Busy(c, e)
    BY <1>1 DEF CacheInv, CallInv, Busy
  <1>3. /\ ~Cached(c, e) /\ disk[e].type # NoType
        /\ IsInjective(owner_map[e]) /\ Range(owner_map[e]) = Holders(e)
        /\ rpc[c].is_share <=> owner_map[e] # <<>>
        /\ AllShare(e, data)
    BY <1>1, <1>2 DEF GetInv
  <1> HIDE DEF data
  <1>4. /\ \A d \in Clients \ {c} : rpc'[d] = rpc[d]
        /\ rpc'[c].at = "reply" /\ rpc'[c].data = data /\ rpc'[c].type = disk[e].type
        /\ rpc'[c].op = "get" /\ rpc'[c].eid = e /\ rpc'[c].todo = <<>>
        /\ rpc'[c].is_share = rpc[c].is_share
        /\ rpc'[c].update = rpc[c].update /\ rpc'[c] # NoCall
    BY <1>1, ReplyIs
  <1>5. /\ \A f \in Inums \ {e} : disk'[f] = disk[f] /\ owner_map'[f] = owner_map[f]
        /\ disk'[e].data = data /\ disk'[e].type = disk[e].type
        /\ owner_map'[e] = Append(owner_map[e], c)
    BY <1>1 DEF TypeOK
  <1>6. /\ IsInjective(owner_map'[e]) /\ Range(owner_map'[e]) = Holders(e) \cup {c}
        /\ rpc[c].is_share <=> Len(owner_map'[e]) # 1
    <2>1. owner_map[e] \in Seq(Clients) /\ c \notin Range(owner_map[e])
      BY <1>3, Typed DEF Holders
    <2>2. /\ Range(Append(owner_map[e], c)) = Range(owner_map[e]) \cup {c}
          /\ IsInjective(Append(owner_map[e], c))
          /\ Len(Append(owner_map[e], c)) = Len(owner_map[e]) + 1
      BY <1>3, <2>1, AppendRange
    <2>3. owner_map[e] = <<>> <=> Len(owner_map[e]) = 0
      BY <2>1
    <2> QED BY <1>3, <1>5, <2>1, <2>2, <2>3
  <1>7. Holders(e)' = Holders(e) /\ ~Cached(c, e)'
    BY <1>1, <1>3 DEF Holders, Cached
  <1>8. GetInv(c, e)'
    <2>1. AllShare(e, disk[e].data)'
      BY <1>1, <1>3, <1>5, <1>7 DEF AllShare
    <2> QED BY <1>3, <1>4, <1>5, <1>6, <1>7, <2>1 DEF GetInv
  <1>9. CallInv(c)'
    BY <1>4, <1>8 DEF CallInv
  <1>10. CacheInv' /\ \A f \in Inums \ {e} : Contents(f)' = Contents(f)
    <2>1. \A g \in Clients \ {c} : rpc'[g] = rpc[g] /\ (Cached(g, e)' => Cached(g, e))
      BY <1>1, <1>4 DEF Cached
    <2>2. \A f \in Inums \ {e} :
            /\ owner_map'[f] = owner_map[f] /\ disk'[f] = disk[f]
            /\ \A g \in Clients : extent_map'[g][f] = extent_map[g][f]
      BY <1>1, <1>5
    <2>3. Busy(c, e)'
      BY <1>4 DEF Busy
    <2> QED BY <1>2, <1>4, <1>9, <2>1, <2>2, <2>3, CacheBusy
  <1>11. Contents(e)' = Contents(e)
    <2>1. Modified(e) = {}
      BY <1>3, SharedUnmodified
    <2>2. c \in Carrying(e) => disk'[e].data = rpc[c].data
      BY <1>1, <1>5 DEF Carrying, data
    <2>3. c \notin Carrying(e) => disk'[e].data = disk[e].data
      BY <1>1, <1>5 DEF Carrying, data
    <2> QED BY <1>1, <1>2, <1>4, <2>1, <2>2, <2>3, ContentsReplied
  <1> QED BY <1>10, <1>11

\* The server carries out a put.
LEMMA ServerPutStep ==
  ASSUME TypeOK, CacheInv, NEW c \in Clients, NEW e \in Inums, e = rpc[c].eid,
         ServerPut(c)
  PROVE  /\ CacheInv'
         /\ \A f \in Inums : Contents(f)' = Contents(f)
  <1>1. /\ rpc[c].at = "callback" /\ rpc[c].todo = <<>> /\ rpc[c].op = "put"
        /\ disk' = [disk EXCEPT ![e].data = rpc[c].data]
        /\ owner_map' = [owner_map EXCEPT ![e] = <<c>>]
        /\ Reply(c, rpc[c].data, disk[e].type) /\ extent_map' = extent_map
    BY DEF ServerPut, CalledBack
  <1>2. PutInv(c, e) /\ Busy(c, e) /\ rpc[c].update = FALSE
    BY <1>1, Typed DEF CacheInv, CallInv, Busy
  <1>3. /\ Cached(c, e) /\ disk[e].type # NoType
        /\ extent_map[c][e].status # "MODIFIED" /\ Holders(e) = {c}
    <2>1. Range(<<>>) = {}
      BY DEF Range
    <2> QED BY <1>1, <1>2, <2>1 DEF PutInv, Holders
  <1>4. /\ \A d \in Clients \ {c} : rpc'[d] = rpc[d]
        /\ rpc'[c].at = "reply" /\ rpc'[c].data = rpc[c].data /\ rpc'[c].type = disk[e].type
        /\ rpc'[c].op = "put" /\ rpc'[c].eid = e /\ rpc'[c].todo = <<>>
        /\ rpc'[c].update = rpc[c].update /\ rpc'[c] # NoCall
    BY <1>1, ReplyIs
  <1>5. /\ \A f \in Inums \ {e} : disk'[f] = disk[f] /\ owner_map'[f] = owner_map[f]
        /\ disk'[e].data = rpc[c].data /\ disk'[e].type = disk[e].type
        /\ owner_map'[e] = <<c>>
    BY <1>1 DEF TypeOK
  <1>6. Holders(e)' = Holders(e) /\ Cached(c, e)'
    BY <1>1, <1>3 DEF Holders, Cached
  <1>7. PutInv(c, e)'
    BY <1>1, <1>3, <1>4, <1>5, <1>6 DEF PutInv
  <1>8. CallInv(c)'
    BY <1>2, <1>4, <1>7 DEF CallInv
  <1>9. CacheInv' /\ \A f \in Inums \ {e} : Contents(f)' = Contents(f)
    <2>1. \A g \in Clients \ {c} : rpc'[g] = rpc[g] /\ (Cached(g, e)' => Cached(g, e))
      BY <1>1, <1>4 DEF Cached
    <2>2. \A f \in Inums \ {e} :
            /\ owner_map'[f] = owner_map[f] /\ disk'[f] = disk[f]
            /\ \A g \in Clients : extent_map'[g][f] = extent_map[g][f]
      BY <1>1, <1>5
    <2>3. Busy(c, e)'
      BY <1>4 DEF Busy
    <2> QED BY <1>2, <1>4, <1>8, <2>1, <2>2, <2>3, CacheBusy
  <1>10. Contents(e)' = Contents(e)
    <2>1. Modified(e) = {}
      BY <1>3 DEF Modified, Holders
    <2>2. c \in Carrying(e)
      BY <1>1 DEF Carrying
    <2> QED BY <1>1, <1>2, <1>4, <1>5, <2>1, <2>2, ContentsReplied
  <1> QED BY <1>9, <1>10

\* The server removes a file.
LEMMA ServerRemoveStep ==
  ASSUME TypeOK, CacheInv, NEW c \in Clients, NEW e \in Inums, e = rpc[c].eid,
         ServerRemove(c)
  PROVE  /\ CacheInv'
         /\ \A f \in Inums : Contents(f)' = Contents(f)
  <1>1. /\ rpc[c].at = "callback" /\ rpc[c].todo = <<>> /\ rpc[c].op = "remove"
        /\ disk' = [disk EXCEPT ![e].type = NoType]
        /\ owner_map' = [owner_map EXCEPT ![e] = <<>>]
        /\ Reply(c, <<>>, NoType) /\ extent_map' = extent_map
    BY DEF ServerRemove, CalledBack
  <1>2. RemoveInv(c, e) /\ Busy(c, e) /\ rpc[c].update = FALSE
    BY <1>1, Typed DEF CacheInv, CallInv, Busy
  <1>3. Range(<<>>) = {} /\ IsInjective(<<>>)
    BY DEF Range, IsInjective
  <1>4. ~Cached(c, e) /\ disk[e].type # NoType /\ Holders(e) = {}
    BY <1>1, <1>2, <1>3 DEF RemoveInv
  <1>5. /\ \A d \in Clients \ {c} : rpc'[d] = rpc[d]
        /\ rpc'[c].at = "reply" /\ rpc'[c].op = "remove" /\ rpc'[c].eid = e
        /\ rpc'[c].todo = <<>> /\ rpc'[c].update = rpc[c].update /\ rpc'[c] # NoCall
    BY <1>1, ReplyIs
  <1>6. /\ \A f \in Inums \ {e} : disk'[f] = disk[f] /\ owner_map'[f] = owner_map[f]
        /\ disk'[e].data = disk[e].data /\ disk'[e].type = NoType
        /\ owner_map'[e] = <<>>
    BY <1>1 DEF TypeOK
  <1>7. Holders(e)' = {} /\ ~Cached(c, e)'
    BY <1>1, <1>4 DEF Holders, Cached
  <1>8. CallInv(c)'
    BY <1>2, <1>5, <1>7 DEF CallInv, RemoveInv
  <1>9. Settled(e)'
    BY <1>3, <1>6, <1>7 DEF Settled
  <1>10. CacheInv' /\ \A f \in Inums \ {e} : Contents(f)' = Contents(f)
    <2>1. \A g \in Clients \ {c} : rpc'[g] = rpc[g] /\ (Cached(g, e)' => Cached(g, e))
      BY <1>1, <1>5 DEF Cached
    <2>2. \A f \in Inums \ {e} :
            /\ owner_map'[f] = owner_map[f] /\ disk'[f] = disk[f]
            /\ \A g \in Clients : extent_map'[g][f] = extent_map[g][f]
      BY <1>1, <1>6
    <2> QED BY <1>2, <1>5, <1>8, <1>9, <2>1, <2>2, CacheBusy
  <1>11. Contents(e)' = Contents(e)
    <2>1. Modified(e) = {}
      BY <1>4 DEF Modified, Holders
    <2>2. c \notin Carrying(e)
      BY <1>1, <1>2 DEF Carrying
    <2> QED BY <1>1, <1>2, <1>5, <1>6, <2>1, <2>2, ContentsReplied
  <1> QED BY <1>10, <1>11

-----------------------------------------------------------------------------
(* The server creates, and calls return                                    *)

\* What a busy call is about is in use.
LEMMA BusyInUse ==
  ASSUME TypeOK, CacheInv, NEW c \in Clients, NEW e \in Inums, Busy(c, e)
  PROVE  disk[e].type # NoType
  <1>1. CallInv(c) /\ rpc[c].eid = e
    BY DEF CacheInv, Busy
  <1>2. CASE rpc[c].op = "get"
    BY <1>1, <1>2 DEF CallInv, GetInv
  <1>3. CASE rpc[c].op = "put"
    BY <1>1, <1>3 DEF CallInv, PutInv
  <1>4. CASE rpc[c].op = "remove"
    BY <1>1, <1>4 DEF CallInv, RemoveInv, Busy
  <1>5. CASE rpc[c].op = "create"
    <2>1. rpc[c].at = "reply" /\ CreateInv(c, e)
      BY <1>1, <1>5 DEF CallInv, Busy
    <2> QED BY <2>1 DEF CreateInv
  <1> QED BY <1>2, <1>3, <1>4, <1>5 DEF Busy

\* The server makes an inode under a number that nobody is busy with.
LEMMA CreateStep ==
  ASSUME TypeOK, CacheInv, NEW c \in Clients, ServerCreate(c), rpc[c].type # NoType
  PROVE  \E e \in Inums :
           /\ disk[e].type = NoType /\ \A d \in Clients : ~Busy(d, e) /\ ~Cached(d, e)
           /\ disk'[e] = [type |-> rpc[c].type, data |-> <<>>]
           /\ \A f \in Inums \ {e} : disk'[f] = disk[f]
           /\ owner_map' = [owner_map EXCEPT ![e] = <<c>>]
           /\ rpc' = [rpc EXCEPT ![c].at = "reply", ![c].eid = e]
           /\ rpc[c].at = "request" /\ rpc[c].op = "create" /\ extent_map' = extent_map
           /\ CacheInv'
           /\ Contents(e)' = <<>>
           /\ \A f \in Inums \ {e} : Contents(f)' = Contents(f)
  <1>1. PICK e \in Inums :
          /\ disk[e].type = NoType
          /\ disk' = [disk EXCEPT ![e] = [type |-> rpc[c].type, data |-> <<>>]]
          /\ owner_map' = [owner_map EXCEPT ![e] = IF @ = <<>> THEN <<c>> ELSE @]
          /\ rpc' = [rpc EXCEPT ![c].at = "reply", ![c].eid = e]
    BY DEF ServerCreate
  <1>2. rpc[c].at = "request" /\ rpc[c].op = "create" /\ extent_map' = extent_map
    BY DEF ServerCreate
  <1>3. \A d \in Clients : ~Busy(d, e)
    BY <1>1, BusyInUse
  <1>4. Settled(e) /\ owner_map[e] = <<>> /\ Holders(e) = {}
    <2>1. Range(<<>>) = {}
      BY DEF Range
    <2> QED BY <1>1, <1>3, <2>1 DEF CacheInv, Settled
  <1>5. /\ \A d \in Clients \ {c} : rpc'[d] = rpc[d]
        /\ rpc'[c] = [rpc[c] EXCEPT !.at = "reply", !.eid = e]
    BY <1>1 DEF TypeOK
  <1>6. /\ rpc'[c].at = "reply" /\ rpc'[c].eid = e /\ rpc'[c].op = "create"
        /\ rpc'[c].todo = rpc[c].todo /\ rpc'[c].update = rpc[c].update
        /\ rpc'[c].type = rpc[c].type
    BY <1>2, <1>5 DEF TypeOK
  <1>7. /\ disk'[e] = [type |-> rpc[c].type, data |-> <<>>]
        /\ \A f \in Inums \ {e} : disk'[f] = disk[f] /\ owner_map'[f] = owner_map[f]
        /\ owner_map' = [owner_map EXCEPT ![e] = <<c>>] /\ owner_map'[e] = <<c>>
    BY <1>1, <1>4 DEF TypeOK
  <1>8. Holders(e)' = {}
    BY <1>2, <1>4 DEF Holders, Cached
  <1>9. CallInv(c)'
    <2>1. CallInv(c)
      BY DEF CacheInv
    <2>2. rpc[c].todo = <<>> /\ ~rpc[c].update /\ rpc'[c] # NoCall
      BY <1>2, <1>6, <2>1, NoCallIs DEF CallInv
    <2>3. CreateInv(c, e)'
      BY <1>6, <1>7, <1>8 DEF CreateInv
    <2> QED BY <1>6, <2>2, <2>3, Typed DEF CallInv
  <1>10. \A f \in Inums \ {e} : ~Busy(c, f) /\ ~Busy(c, f)' /\ c \notin Carrying(f) /\ c \notin Carrying(f)'
    BY <1>2, <1>6 DEF Busy, Carrying
  <1>11. CacheInv'
    <2>1. Busy(c, e)'
      BY <1>6 DEF Busy
    <2>2. \A d \in Clients \ {c} :
            /\ rpc'[d] = rpc[d] /\ (Cached(d, e)' => Cached(d, e))
            /\ ~Busy(d, e) /\ rpc[d].eid \in Inums
      BY <1>2, <1>3, <1>5, Typed DEF Cached
    <2>3. \A d \in Clients : rpc[d].op \in {"none", "get", "put", "remove", "create"}
      BY <1>1, Typed
    <2> QED BY <1>2, <1>7, <1>9, <1>10, <2>1, <2>2, <2>3, CacheFrame
  <1>12. Contents(e)' = <<>>
    <2>1. Carrying(e)' = {}
      <3>1. \A d \in Clients \ {c} : d \notin Carrying(e)'
        BY <1>3, <1>5, CarryingBusy DEF Carrying
      <3> QED BY <1>6, <3>1 DEF Carrying
    <2>2. Modified(e)' = {}
      BY <1>8 DEF Modified, Holders
    <2> QED BY <1>7, <2>1, <2>2 DEF Contents
  <1>13. \A f \in Inums \ {e} : Contents(f)' = Contents(f)
    BY <1>2, <1>5, <1>7, <1>10, ContentsOthers
  <1>14. \A d \in Clients : ~Cached(d, e)
    BY <1>4 DEF Holders
  <1> QED BY <1>1, <1>2, <1>3, <1>7, <1>11, <1>12, <1>13, <1>14

\* A call returns: the copy of a get is what the file has.
LEMMA ReturnStep ==
  ASSUME TypeOK, CacheInv, NEW c \in Clients, NEW e \in Inums, e = rpc[c].eid,
         Return(c)
  PROVE  /\ CacheInv'
         /\ \A f \in Inums : Contents(f)' = Contents(f)
         /\ owner_map' = owner_map /\ disk' = disk
         /\ \A d \in Clients \ {c} : rpc'[d] = rpc[d]
         /\ rpc'[c] = NoCall /\ rpc[c].at = "reply"
         /\ extent_map'[c][e] = ReturnedEntry(c)
         /\ \A f \in Inums \ {e} : extent_map'[c][f] = extent_map[c][f]
         /\ \A d \in Clients \ {c} : extent_map'[d] = extent_map[d]
         /\ rpc[c].op = "get" => rpc[c].data = Contents(e) /\ ReturnedEntry(c).data = rpc[c].data
  <1>1. /\ rpc[c].at = "reply" /\ owner_map' = owner_map /\ disk' = disk
        /\ rpc' = [rpc EXCEPT ![c] = NoCall]
        /\ SetEntry(c, e, ReturnedEntry(c))
    BY DEF Return
  <1> DEFINE new == ReturnedEntry(c)
  <1>2. /\ extent_map'[c][e] = new
        /\ \A f \in Inums \ {e} : extent_map'[c][f] = extent_map[c][f]
        /\ \A d \in Clients \ {c} : extent_map'[d] = extent_map[d]
    <2> HIDE DEF new
    <2> QED BY <1>1, SetEntryIs DEF new
  <1>3. rpc'[c] = NoCall /\ \A d \in Clients \ {c} : rpc'[d] = rpc[d]
    BY <1>1 DEF TypeOK
  <1>4. CallInv(c)'
    BY <1>3, NoCallIs DEF CallInv
  <1>5. CallInv(c) /\ rpc[c].op \in {"get", "put", "remove", "create"}
    BY <1>1, Typed, NoCallIs DEF CacheInv, CallInv
  <1>6. NoEntry \notin Copies
    BY NoEntryAssumption
  <1>7. ASSUME rpc[c].op = "get"
        PROVE  /\ Settled(e)' /\ new.data = rpc[c].data /\ rpc[c].data = disk[e].data
               /\ Modified(e) = {} /\ Modified(e)' = {}
    <2>1. /\ ~Cached(c, e) /\ disk[e].type # NoType
          /\ IsInjective(owner_map[e]) /\ Range(owner_map[e]) = Holders(e) \cup {c}
          /\ rpc[c].is_share <=> Len(owner_map[e]) # 1
          /\ rpc[c].data = disk[e].data /\ rpc[c].type = disk[e].type
          /\ AllShare(e, disk[e].data)
      BY <1>1, <1>5, <1>7 DEF CallInv, GetInv
    <2>2. new = Entry(rpc[c].data, rpc[c].type, IF rpc[c].is_share THEN "SHARED" ELSE "EXCLUSIVE")
      BY <1>7 DEF ReturnedEntry
    <2> HIDE DEF new
    <2>3. /\ new.data = disk[e].data /\ new.type = disk[e].type
          /\ new.status = IF rpc[c].is_share THEN "SHARED" ELSE "EXCLUSIVE"
      BY <2>1, <2>2 DEF Entry
    <2>4. new # NoEntry
      <3>1. Entry(rpc[c].data, rpc[c].type, IF rpc[c].is_share THEN "SHARED" ELSE "EXCLUSIVE")
              \in Copies
        BY Typed DEF Entry, Copies
      <3> QED BY <1>6, <2>2, <3>1
    <2>5. Holders(e)' = Holders(e) \cup {c}
      BY <1>2, <2>4 DEF Holders, Cached
    <2>6. owner_map'[e] # <<>>
      BY <1>1, <2>1, Typed, OneMember
    <2>7. ASSUME NEW d \in Holders(e)'
          PROVE  /\ extent_map'[d][e].status # "SHARED" <=> Len(owner_map'[e]) = 1
                 /\ extent_map'[d][e].data = disk'[e].data
                 /\ extent_map'[d][e].type = disk'[e].type
                 /\ extent_map'[d][e].status # "MODIFIED"
      <3>1. CASE d = c
        BY <1>1, <1>2, <2>1, <2>3, <3>1
      <3>2. CASE d # c
        <4>1. d \in Holders(e) /\ d \in Clients /\ extent_map'[d][e] = extent_map[d][e]
          BY <1>2, <2>5, <3>2 DEF Holders
        <4>2. extent_map[d][e] = Entry(disk[e].data, disk[e].type, "SHARED")
          BY <2>1, <4>1 DEF AllShare
        <4>3. Len(owner_map[e]) # 1
          <5>1. owner_map[e] \in Seq(Clients) /\ c \in Range(owner_map[e])
                  /\ d \in Range(owner_map[e])
            BY <2>1, <4>1, Typed
          <5>2. Len(owner_map[e]) = 1 => Range(owner_map[e]) = {owner_map[e][1]}
            BY <2>1, <5>1, OneMember
          <5> QED BY <3>2, <5>1, <5>2
        <4> QED BY <1>1, <4>1, <4>2, <4>3 DEF Entry
      <3> QED BY <3>1, <3>2
    <2>8. Settled(e)'
      BY <1>1, <2>1, <2>5, <2>7 DEF Settled
    <2>9. Modified(e)' = {}
      BY <2>7 DEF Modified, Holders
    <2> QED BY <2>1, <2>3, <2>8, <2>9, SharedUnmodified
  <1>8. ASSUME rpc[c].op = "put" \/ rpc[c].op = "create"
        PROVE  Settled(e)' /\ Modified(e) = {} /\ Modified(e)' = {}
    <2>1. /\ owner_map[e] = <<c>> /\ disk[e].type # NoType
          /\ new = Entry(disk[e].data, disk[e].type, "EXCLUSIVE") /\ Holders(e) \subseteq {c}
          /\ Modified(e) = {}
      <3>1. CASE rpc[c].op = "put"
        BY <1>1, <1>5, <3>1 DEF CallInv, PutInv, ReturnedEntry, Modified, Holders
      <3>2. CASE rpc[c].op = "create"
        BY <1>1, <1>5, <3>2 DEF CallInv, CreateInv, ReturnedEntry, Modified, Holders
      <3> QED BY <1>8, <3>1, <3>2
    <2> HIDE DEF new
    <2>2. new.data = disk[e].data /\ new.type = disk[e].type /\ new.status = "EXCLUSIVE"
      BY <2>1 DEF Entry
    <2>3. new # NoEntry
      <3>1. Entry(disk[e].data, disk[e].type, "EXCLUSIVE") \in Copies
        BY Typed DEF Entry, Copies
      <3> QED BY <1>6, <2>1, <3>1
    <2>4. Holders(e)' = {c}
      BY <1>2, <2>1, <2>3 DEF Holders, Cached
    <2>5. IsInjective(<<c>>) /\ Range(<<c>>) = {c} /\ Len(<<c>>) = 1 /\ <<c>> # <<>>
      BY DEF IsInjective, Range
    <2>6. Settled(e)'
      BY <1>1, <1>2, <2>1, <2>2, <2>4, <2>5 DEF Settled
    <2>7. Modified(e)' = {}
      BY <1>2, <2>2, <2>4 DEF Modified, Holders
    <2> QED BY <2>1, <2>6, <2>7
  <1>9. ASSUME rpc[c].op = "remove" PROVE extent_map' = extent_map
    <2>1. ~Cached(c, e) /\ new = NoEntry
      BY <1>1, <1>5, <1>9 DEF CallInv, RemoveInv, ReturnedEntry
    <2> QED BY <1>1, <2>1 DEF SetEntry, Cached, TypeOK
  <1>10. \A f \in Inums : c \notin Carrying(f) /\ c \notin Carrying(f)'
    BY <1>1, <1>3, NoCallIs DEF Carrying
  <1>11. CacheInv' /\ \A f \in Inums : Contents(f)' = Contents(f)
    <2>1. CASE rpc[c].op \in {"get", "put", "create"}
      <3>1. Busy(c, e)
        BY <1>1, <2>1 DEF Busy
      <3>2. CacheInv' /\ \A f \in Inums \ {e} : Contents(f)' = Contents(f)
        <4>1. \A g \in Clients \ {c} : rpc'[g] = rpc[g] /\ (Cached(g, e)' => Cached(g, e))
          BY <1>2, <1>3 DEF Cached
        <4>2. \A f \in Inums \ {e} :
                /\ owner_map'[f] = owner_map[f] /\ disk'[f] = disk[f]
                /\ \A g \in Clients : extent_map'[g][f] = extent_map[g][f]
          BY <1>1, <1>2
        <4>3. Settled(e)'
          BY <1>7, <1>8, <2>1
        <4> QED BY <1>3, <1>4, <3>1, <4>1, <4>2, <4>3, CacheBusy
      <3>3. Contents(e)' = Contents(e)
        <4>1. Modified(e) = {} /\ Modified(e)' = {}
          BY <1>7, <1>8, <2>1
        <4>2. Carrying(e) = {} /\ Carrying(e)' = {}
          <5>1. \A d \in Clients \ {c} : d \notin Carrying(e) /\ d \notin Carrying(e)'
            BY <1>3, <3>1, OthersNotBusy DEF Carrying
          <5> QED BY <1>10, <5>1 DEF Carrying
        <4> QED BY <1>1, <4>1, <4>2 DEF Contents
      <3> QED BY <3>2, <3>3
    <2>2. CASE rpc[c].op = "remove"
      <3>1. \A f \in Inums : ~Busy(c, f) /\ ~Busy(c, f)'
        BY <1>1, <1>3, <2>2, NoCallIs DEF Busy
      <3>2. CacheInv'
        BY <1>1, <1>3, <1>4, <1>9, <2>2, <3>1, CacheIdle
      <3>3. ASSUME NEW f \in Inums PROVE Contents(f)' = Contents(f)
        <4>1. Carrying(f)' = Carrying(f)
          BY <1>3, <1>10 DEF Carrying
        <4>2. Modified(f)' = Modified(f)
          BY <1>9, <2>2 DEF Modified, Cached
        <4>3. \A d \in Carrying(f) : rpc'[d].data = rpc[d].data
          BY <1>3, <1>10 DEF Carrying
        <4> QED BY <1>1, <1>9, <2>2, <4>1, <4>2, <4>3, ContentsSame
      <3> QED BY <3>2, <3>3
    <2> QED BY <1>5, <2>1, <2>2
  <1>12. ASSUME rpc[c].op = "get" PROVE rpc[c].data = Contents(e)
    <2>1. Carrying(e) = {}
      <3>1. Busy(c, e)
        BY <1>12 DEF Busy
      <3> QED BY <1>10, <3>1, OthersNotBusy DEF Carrying
    <2> QED BY <1>7, <1>12, <2>1, ContentsOnDisk
  <1> QED BY <1>1, <1>2, <1>3, <1>7, <1>11, <1>12

-----------------------------------------------------------------------------
(* What the invariant says of a state                                      *)

\* What is typed in a call.
LEMMA CallTyped ==
  ASSUME TypeOK
  PROVE  \A c \in Clients :
           /\ call[c] \in [op : FileOps \cup {"none", "join"}, at : DOMAIN OpsAt, x : Inums,
                           ino : Inums, buf : Data, req : Request \cup {<<>>}, looks : Nat]
           /\ Op(c) \in FileOps \cup {"none", "join"} /\ call[c].at \in DOMAIN OpsAt
           /\ X(c) \in Inums /\ call[c].ino \in Inums /\ call[c].buf \in Data
           /\ call[c].looks \in Nat /\ held[c] \in SUBSET Inums
  BY DEF TypeOK, Op, X

\* The parts of a request.
LEMMA ReqTyped ==
  ASSUME TypeOK, PhaseInv, NEW c \in Clients, Op(c) \in FileOps \ {"look"}
  PROVE  /\ Req(c) \in Requests[c] /\ Req(c) \in Request /\ Req(c).op = Op(c)
         /\ Op(c) \in {"lookup", "unlink", "create", "symlink"} =>
              Req(c).name \in Names /\ "name" \in DOMAIN Req(c)
         /\ Op(c) = "create" => Req(c).type \in {FileType, DirType}
         /\ Op(c) = "symlink" => Req(c).type = LinkType /\ Req(c).text \in Texts
         /\ Op(c) = "write" => Req(c).off \in 0..(MaxFile - 1) /\ Req(c).val \in Values
         /\ Op(c) = "setattr" => Req(c).size \in 0..MaxFile
  <1>1. Req(c) \in Requests[c] /\ Req(c) \in Request /\ Req(c).op = Op(c)
    BY RequestsAssumption DEF PhaseInv, Phase
  <1>2. \A r \in Request :
          /\ r.op \in {"lookup", "unlink", "create", "symlink"} =>
               r.name \in Names /\ "name" \in DOMAIN r
          /\ r.op = "create" => r.type \in {FileType, DirType}
          /\ r.op = "symlink" => r.type = LinkType /\ r.text \in Texts
          /\ r.op = "write" => r.off \in 0..(MaxFile - 1) /\ r.val \in Values
          /\ r.op = "setattr" => r.size \in 0..MaxFile
    BY DEF Request
  <1> QED BY <1>1, <1>2

\* What a client does at each point.
LEMMA OpIs ==
  ASSUME TypeOK, PhaseInv, NEW c \in Clients
  PROVE  /\ call[c].at \in {"out", "user"} => Op(c) = "none"
         /\ call[c].at \in {"lock", "read", "got"} => Op(c) \in FileOps
         /\ call[c].at = "make" => Op(c) \in Makers
         /\ call[c].at \in {"remove", "removing", "removed"} => Op(c) = "unlink"
         /\ call[c].at = "put" => Op(c) \in (FileOps \ {"look", "lookup"}) \cup {"join"}
         /\ call[c].at \in {"link", "fill", "filled"} => Op(c) = "symlink"
         /\ call[c].at = "unlock" => Op(c) \in FileOps \ {"look", "lookup"}
         /\ Op(c) = "none" => call[c].at \in {"out", "user"}
         /\ Op(c) = "join" => call[c].at = "put"
         /\ call[c].at \in {"out", "user", "lock", "read", "got", "make", "remove", "removing",
                            "removed", "put", "link", "fill", "filled", "unlock"}
  <1>1. call[c].at \in DOMAIN OpsAt
    BY CallTyped
  <1>2. DOMAIN OpsAt = {"out", "user", "lock", "read", "got", "make", "remove", "removing",
                        "removed", "put", "link", "fill", "filled", "unlock"}
    BY DEF OpsAt
  <1>3. Op(c) \in OpsAt[call[c].at]
    BY DEF PhaseInv, Phase
  <1> QED BY <1>1, <1>2, <1>3 DEF OpsAt, FileOps, Makers

\* The locks of a client.
LEMMA HeldIs ==
  ASSUME TypeOK, PhaseInv, LockInv, NEW c \in Clients
  PROVE  /\ call[c].at \in {"out", "user", "lock"} \/ Op(c) = "join" => held[c] = {}
         /\ call[c].at \in {"remove", "removing", "removed", "fill", "filled"} =>
              held[c] = {X(c), call[c].ino}
         /\ call[c].at \in {"read", "got", "make", "link", "unlock"} => held[c] = {X(c)}
         /\ At(c, "put") /\ Op(c) # "join" => held[c] = {X(c)}
         /\ \A d \in Clients : d # c => held[c] \cap held[d] = {}
  <1>1. held[c] = LocksOf(c) /\ \A d \in Clients : d # c => held[c] \cap held[d] = {}
    BY DEF LockInv
  <1>2. call[c].at # "put" => Op(c) # "join"
    BY OpIs
  <1>3. call[c].at \in {"out", "user", "lock"} \/ Op(c) = "join" => LocksOf(c) = {}
    BY OpIs DEF LocksOf
  <1>4. call[c].at \in {"remove", "removing", "removed", "fill", "filled"} =>
              LocksOf(c) = {X(c), call[c].ino}
    BY <1>2 DEF LocksOf
  <1>5. call[c].at \in {"read", "got", "make", "link", "unlock"} => LocksOf(c) = {X(c)}
    BY <1>2 DEF LocksOf
  <1>6. At(c, "put") /\ Op(c) # "join" => LocksOf(c) = {X(c)}
    BY DEF LocksOf, At
  <1> QED BY <1>1, <1>3, <1>4, <1>5, <1>6

\* A client at work on a request: then all have started.
LEMMA Started ==
  ASSUME StartInv, NEW c \in Clients, call[c].at \notin {"out", "user"}, Op(c) # "join"
  PROVE  ~Starting /\ \A d \in Clients : Op(d) # "join" /\ ~At(d, "out")
  BY DEF StartInv, Starting

\* At which point a client waits for which RPC.
LEMMA RpcAt ==
  ASSUME PhaseInv, NEW c \in Clients
  PROVE  /\ rpc[c].op = "get" => At(c, "read") /\ rpc[c].eid = X(c)
         /\ rpc[c].op = "put" => At(c, "put") /\ rpc[c].eid = X(c)
         /\ rpc[c].op = "remove" => At(c, "removing") /\ rpc[c].eid = call[c].ino /\ Op(c) = "unlink"
         /\ rpc[c].op = "create" => At(c, "make") /\ Op(c) \in Makers /\ rpc[c].type = Req(c).type
         /\ call[c].at \notin {"read", "put", "removing", "make"} => rpc[c].op = "none"
  BY DEF PhaseInv, Phase, AtCall, At, OpsAt

\* What tells that a client has no call.
LEMMA NoneIsNoCall ==
  ASSUME CacheInv, NEW c \in Clients
  PROVE  /\ rpc[c].op = "none" <=> rpc[c] = NoCall
         /\ rpc[c].op = "none" => rpc[c].at = "none"
         /\ rpc[c].at = "none" <=> rpc[c] = NoCall
  BY NoCallIs DEF CacheInv, CallInv

\* Who leaves a directory has it locked.
LEMMA LeavingHolds ==
  ASSUME TypeOK, PhaseInv, LockInv, NEW c \in Clients, Leaving(c) \/ Unlinking(c)
  PROVE  X(c) \in held[c] /\ Op(c) = "unlink"
  BY HeldIs, OpIs DEF Leaving, Unlinking, PutPending, At

\* In a directory that c has locked nothing is stale but what c takes out.
LEMMA StaleMine ==
  ASSUME TypeOK, PhaseInv, LockInv, NEW c \in Clients, NEW i, X(c) \in held[c], Stale(X(c), i)
  PROVE  Leaving(c) /\ call[c].ino = i
  <1>1. PICK d \in Clients : Leaving(d) /\ X(d) = X(c) /\ call[d].ino = i
    BY DEF Stale
  <1>2. X(c) \in held[d]
    BY <1>1, LeavingHolds
  <1>3. d = c
    BY <1>2, HeldIs
  <1> QED BY <1>1, <1>3

\* In a directory nobody has locked nothing is stale.
LEMMA StaleLocked ==
  ASSUME TypeOK, PhaseInv, LockInv, NEW e, NEW i, Stale(e, i)
  PROVE  \E d \in Clients : Leaving(d) /\ X(d) = e /\ call[d].ino = i /\ e \in held[d]
  BY LeavingHolds DEF Stale

-----------------------------------------------------------------------------
(* What the invariant says of a client                                     *)

\* The parts of the invariant.
LEMMA Parts ==
  ASSUME YfsInv
  PROVE  /\ TypeOK /\ PhaseInv /\ LockInv /\ StartInv /\ CacheInv
         /\ BufInv /\ TargetInv /\ TreeInv /\ ClaimInv /\ OwnInv
  BY DEF YfsInv

\* The position of a name in a directory.
LEMMA FoundIs ==
  ASSUME NEW c \in Clients, call[c].buf \in Seq(Entries), Found(c)
  PROVE  /\ Position(c) \in 1..Len(call[c].buf)
         /\ call[c].buf[Position(c)].name = Req(c).name
         /\ call[c].buf[Position(c)] = [name |-> Req(c).name, inum |-> FoundInum(c)]
         /\ FoundInum(c) \in Inums /\ Req(c).name \in Names
  <1> DEFINE P == Positions(call[c].buf, Req(c).name)
  <1>1. P \in SUBSET Nat /\ P # {}
    BY DEF Positions, Found
  <1>2. \E m \in P : \A y \in P : m <= y
    <2> HIDE DEF P
    <2> QED BY <1>1, Smallest
  <1>3. Position(c) \in P
    BY <1>2 DEF Position
  <1>4. Position(c) \in 1..Len(call[c].buf) /\ call[c].buf[Position(c)].name = Req(c).name
    BY <1>3 DEF Positions
  <1>5. call[c].buf[Position(c)] \in Entries
    BY <1>4
  <1>6. \A entry \in Entries : entry = [name |-> entry.name, inum |-> entry.inum]
          /\ entry.inum \in Inums /\ entry.name \in Names
    BY DEF Entries
  <1>7. FoundInum(c) = call[c].buf[Position(c)].inum
    BY DEF FoundInum
  <1> HIDE DEF P
  <1> QED BY <1>4, <1>5, <1>6, <1>7

\* A directory that c holds is what c has read.
LEMMA DirBuf ==
  ASSUME YfsInv, NEW c \in Clients, Holding(c), X(c) \in Dirs
  PROVE  /\ Contents(X(c)) = call[c].buf /\ call[c].buf \in Seq(Entries)
         /\ X(c) \in held[c]
  <1>1. Contents(X(c)) = call[c].buf
    BY DEF YfsInv, BufInv, Buffer
  <1>2. Contents(X(c)) \in Seq(Entries)
    BY DEF YfsInv, TreeInv
  <1>3. X(c) \in held[c]
    BY Parts, HeldIs DEF Holding, PutPending, At
  <1> QED BY <1>1, <1>2, <1>3

\* Calls on directories are calls on directories.
LEMMA TargetIsDir ==
  ASSUME YfsInv, NEW c \in Clients, Op(c) \in {"lookup", "create", "symlink", "unlink"}
  PROVE  X(c) \in Dirs /\ X(c) \in Inums
  BY Parts, CallTyped DEF TargetInv, Dirs

\* The name of a removed inode is in the directory until unlink takes it out.
LEMMA UnlinkEntry ==
  ASSUME YfsInv, NEW c \in Clients, Unlinking(c) \/ Leaving(c)
  PROVE  /\ X(c) \in Dirs /\ X(c) \in held[c] /\ Op(c) = "unlink" /\ Found(c)
         /\ call[c].ino = FoundInum(c) /\ Holding(c)
         /\ Contents(X(c)) = call[c].buf /\ call[c].buf \in Seq(Entries)
         /\ Position(c) \in 1..Len(Contents(X(c)))
         /\ Contents(X(c))[Position(c)] = [name |-> Req(c).name, inum |-> call[c].ino]
         /\ InDir(X(c), call[c].ino)
  <1>1. X(c) \in held[c] /\ Op(c) = "unlink"
    BY Parts, LeavingHolds
  <1>2. Holding(c) /\ call[c].at \in {"remove", "removing", "removed", "put"}
    BY <1>1 DEF Holding, Unlinking, Leaving, PutPending, At
  <1>3. Found(c) /\ call[c].ino = FoundInum(c)
    BY <1>1, <1>2, Parts DEF OwnInv, Own
  <1>4. X(c) \in Dirs
    BY <1>1, TargetIsDir
  <1>5. Contents(X(c)) = call[c].buf /\ call[c].buf \in Seq(Entries)
    BY <1>2, <1>4, DirBuf
  <1>6. /\ Position(c) \in 1..Len(call[c].buf)
        /\ call[c].buf[Position(c)] = [name |-> Req(c).name, inum |-> call[c].ino]
    BY <1>3, <1>5, FoundIs
  <1>7. InDir(X(c), call[c].ino)
    BY <1>5, <1>6 DEF InDir
  <1> QED BY <1>1, <1>2, <1>3, <1>4, <1>5, <1>6, <1>7

\* The name of a made inode is in its directory.
LEMMA MadeEntry ==
  ASSUME YfsInv, NEW c \in Clients, Made(c)
  PROVE  /\ X(c) \in Dirs /\ X(c) \in held[c] /\ Op(c) \in Makers
         /\ InDir(X(c), call[c].ino) /\ ~Leaving(c)
  <1>1. Op(c) \in Makers
    BY DEF Made
  <1>2. X(c) \in Dirs
    BY <1>1, TargetIsDir DEF Makers
  <1>3. X(c) \in held[c]
    BY <1>1, Parts, HeldIs DEF Made, Makers, At
  <1>4. InDir(X(c), call[c].ino)
    <2>1. PICK k \in 1..Len(Contents(X(c))) :
            Contents(X(c))[k] = [name |-> Req(c).name, inum |-> call[c].ino]
      BY Parts DEF ClaimInv
    <2> QED BY <2>1 DEF InDir
  <1>5. ~Leaving(c)
    BY <1>1 DEF Leaving, Makers
  <1> QED BY <1>1, <1>2, <1>3, <1>4, <1>5

\* An entry of a directory that c has locked, and is not taking out, is in use,
\* has no other place, and no other client is making or removing what it names.
LEMMA HeldEntry ==
  ASSUME YfsInv, NEW c \in Clients, X(c) \in held[c], X(c) \in Dirs, NEW i \in Inums,
         InDir(X(c), i), ~(Leaving(c) /\ call[c].ino = i)
  PROVE  /\ disk[i].type # NoType /\ i # Root
         /\ \A f \in Dirs : InDir(f, i) => f = X(c) \/ Stale(f, i)
         /\ \A d \in Clients : Making(d) => NewInum(d) # i
         /\ \A d \in Clients \ {c} : (Made(d) \/ Filling(d) \/ Unlinking(d)) => call[d].ino # i
  <1>1. ~Stale(X(c), i)
    BY Parts, StaleMine
  <1>2. PICK k \in 1..Len(Contents(X(c))) : Contents(X(c))[k].inum = i
    BY DEF InDir
  <1>3. disk[i].type # NoType
    BY <1>1, <1>2, Parts DEF TreeInv
  <1>4. i # Root
    BY Parts DEF TreeInv
  <1>5. \A f \in Dirs : InDir(f, i) => f = X(c) \/ Stale(f, i)
    BY <1>1, Parts DEF TreeInv
  <1>6. ASSUME NEW d \in Clients, Making(d) PROVE NewInum(d) # i
    BY <1>1, <1>6, Parts DEF ClaimInv
  <1>7. ASSUME NEW d \in Clients \ {c}, Made(d) \/ Unlinking(d), call[d].ino = i PROVE FALSE
    <2>1. X(d) \in Dirs /\ X(d) \in held[d] /\ InDir(X(d), i) /\ ~Leaving(d)
      BY <1>7, MadeEntry, UnlinkEntry DEF Unlinking, Leaving, PutPending, At
    <2>2. X(d) # X(c)
      BY <2>1, Parts, HeldIs
    <2>3. Stale(X(d), i)
      BY <1>5, <2>1, <2>2
    <2> QED BY <2>1, <2>3, Parts, StaleMine
  <1>8. ASSUME NEW d \in Clients, Filling(d) PROVE Made(d) \/ (Making(d) /\ NewInum(d) = call[d].ino)
    BY <1>8 DEF Filling, Made, Making, NewInum, Makers, At, PutPending
  <1> QED BY <1>3, <1>4, <1>5, <1>6, <1>7, <1>8

\* A call that fills a new link is one that has made it.
LEMMA FillingIs ==
  ASSUME NEW c \in Clients, Filling(c)
  PROVE  Made(c) \/ (Making(c) /\ NewInum(c) = call[c].ino)
  BY DEF Filling, Made, Making, NewInum, Makers, At, PutPending

\* c makes, has made or removes i.
Claims(c, i) ==
  \/ Making(c) /\ NewInum(c) = i
  \/ (Made(c) \/ Unlinking(c) \/ Filling(c)) /\ call[c].ino = i

\* No two clients have to do with the same inode.
LEMMA ClaimsApart ==
  ASSUME YfsInv, NEW c \in Clients, NEW d \in Clients, NEW i \in Inums,
         Claims(c, i), Claims(d, i)
  PROVE  c = d
  <1> SUFFICES ASSUME c # d PROVE FALSE
    OBVIOUS
  <1>1. ASSUME NEW f \in Clients, NEW g \in Clients, f # g, Claims(g, i),
               Made(f) \/ Unlinking(f), call[f].ino = i
        PROVE  FALSE
    <2>1. X(f) \in Dirs /\ X(f) \in held[f] /\ InDir(X(f), i) /\ ~Leaving(f)
      BY <1>1, MadeEntry, UnlinkEntry DEF Unlinking, Leaving, PutPending, At
    <2> QED BY <1>1, <2>1, HeldEntry DEF Claims
  <1>2. Making(c) /\ Making(d) /\ NewInum(c) = i /\ NewInum(d) = i
    BY <1>1, FillingIs DEF Claims
  <1> QED BY <1>2, Parts DEF ClaimInv

\* A claimed inode is nobody's target.
LEMMA ClaimsFree ==
  ASSUME YfsInv, NEW c \in Clients, NEW i \in Inums, Claims(c, i), ~Made(c) \/ Filling(c)
  PROVE  /\ \A d \in Clients : X(d) # i
         /\ i # Root
  <1>1. \A d \in Clients : X(d) # i
    BY Parts, FillingIs DEF Claims, ClaimInv
  <1>2. i # Root
    <2>1. CASE Making(c) /\ NewInum(c) = i
      <3>1. disk[i].type = Req(c).type /\ Op(c) \in Makers
        BY <2>1, Parts DEF ClaimInv, Making
      <3>2. CASE Op(c) = "symlink"
        BY <3>1, <3>2, Parts, ReqTyped, TypesAssumption DEF FileOps, TargetInv
      <3>3. CASE Op(c) = "create"
        <4>1. Req(c).type = DirType => X(c) = Root
          BY <3>3, Parts DEF TargetInv
        <4> QED BY <1>1, <3>1, <4>1, Parts DEF TargetInv
      <3> QED BY <3>1, <3>2, <3>3 DEF Makers
    <2>2. CASE Made(c) /\ Filling(c) /\ call[c].ino = i
      BY <2>2, Parts, TypesAssumption DEF ClaimInv, Filling, TargetInv
    <2>3. CASE Unlinking(c) /\ call[c].ino = i
      BY <2>3, Parts DEF ClaimInv, TargetInv
    <2> QED BY <2>1, <2>2, <2>3, FillingIs DEF Claims
  <1> QED BY <1>1, <1>2

\* An entry that is seen is in the directory, and nobody takes it out.
LEMMA NamedAt ==
  ASSUME YfsInv, NEW d \in Dirs, NEW k \in 1..Len(Visible(d)), NEW i, Visible(d)[k].inum = i
  PROVE  /\ InDir(d, i) /\ ~Stale(d, i)
         /\ \A j \in 1..Len(Contents(d)) : Contents(d)[j].inum = i => Contents(d)[j] = Visible(d)[k]
         /\ \A c \in Clients : ~Hides(c, d, Visible(d)[k])
         /\ \A c \in Clients : Leaving(c) \/ (Unlinking(c) /\ ~At(c, "remove")) =>
              X(c) # d \/ call[c].ino # i
  <1> DEFINE T == {entry \in Entries : \E c \in Clients : Hides(c, d, entry)}
  <1>1. d \in Inums /\ Contents(d) \in Seq(Entries)
    BY Parts DEF Dirs, TreeInv
  <1>2. /\ Visible(d) \in Seq(Entries)
        /\ Range(Visible(d)) = Range(Contents(d)) \ T
    <2> HIDE DEF T
    <2>1. Visible(d) = Without(Contents(d), T)
      BY DEF Visible, T
    <2> QED BY <1>1, <2>1, WithoutRange
  <1> DEFINE entry == Visible(d)[k]
  <1>3. entry \in Range(Contents(d)) /\ entry \notin T /\ entry \in Entries
    <2> HIDE DEF T
    <2>1. k \in DOMAIN Visible(d)
      BY <1>2
    <2>2. entry \in Range(Visible(d))
      BY <2>1 DEF Range
    <2> QED BY <1>2, <2>2
  <1>4. PICK j \in 1..Len(Contents(d)) : Contents(d)[j] = entry
    BY <1>1, <1>3 DEF Range
  <1>5. entry.inum = i /\ InDir(d, i) /\ \A c \in Clients : ~Hides(c, d, entry)
    BY <1>3, <1>4 DEF InDir
  <1>6. \A m \in 1..Len(Contents(d)) : Contents(d)[m].inum = i => Contents(d)[m] = entry
    BY <1>4, <1>5, Parts DEF TreeInv
  <1> HIDE DEF entry, T
  <1>7. ASSUME NEW c \in Clients, Leaving(c) \/ (Unlinking(c) /\ ~At(c, "remove")),
               X(c) = d, call[c].ino = i
        PROVE  FALSE
    <2>1. /\ Op(c) = "unlink" /\ Position(c) \in 1..Len(Contents(d))
          /\ Contents(d)[Position(c)] = [name |-> Req(c).name, inum |-> i]
      BY <1>7, UnlinkEntry
    <2>2. entry.name = Req(c).name
      BY <1>6, <2>1
    <2>3. call[c].at \in {"removing", "removed", "put"}
      BY <1>7 DEF Leaving, Unlinking, At, PutPending
    <2>4. Hides(c, d, entry)
      BY <1>7, <2>1, <2>2, <2>3 DEF Hides, Hiding
    <2> QED BY <1>5, <2>4
  <1>8. ~Stale(d, i)
    BY <1>7 DEF Stale
  <1> QED BY <1>5, <1>6, <1>7, <1>8 DEF entry

\* An inode somebody sees in a directory is in use, and in no such hands.
LEMMA NamedIs ==
  ASSUME YfsInv, NEW i \in Inums, Named(i)
  PROVE  /\ disk[i].type # NoType
         /\ \A c \in Clients : Claims(c, i) => (Made(c) /\ ~Filling(c)) \/ At(c, "remove")
  <1>1. PICK d \in Dirs : \E k \in 1..Len(Visible(d)) : Visible(d)[k].inum = i
    BY DEF Named
  <1>2. PICK k \in 1..Len(Visible(d)) : Visible(d)[k].inum = i
    BY <1>1
  <1>3. PICK entry : entry = Visible(d)[k]
    OBVIOUS
  <1>4. /\ InDir(d, i) /\ ~Stale(d, i)
        /\ \A j \in 1..Len(Contents(d)) : Contents(d)[j].inum = i => Contents(d)[j] = entry
        /\ \A c \in Clients : ~Hides(c, d, entry)
        /\ \A c \in Clients : Leaving(c) \/ (Unlinking(c) /\ ~At(c, "remove")) =>
             X(c) # d \/ call[c].ino # i
    BY <1>2, <1>3, NamedAt
  <1>5. disk[i].type # NoType
    BY <1>4, Parts DEF TreeInv, InDir
  <1>6. ASSUME NEW c \in Clients, Making(c), NewInum(c) = i PROVE FALSE
    BY <1>4, <1>6, Parts DEF ClaimInv
  <1>7. ASSUME NEW c \in Clients, X(c) \in Dirs, X(c) \in held[c], InDir(X(c), i), ~Leaving(c)
         PROVE  X(c) = d
    BY <1>4, <1>7, HeldEntry
  <1>8. ASSUME NEW c \in Clients, Unlinking(c), call[c].ino = i, ~At(c, "remove") PROVE FALSE
    <2>1. X(c) = d
      BY <1>7, <1>8, UnlinkEntry DEF Unlinking, Leaving, PutPending, At
    <2> QED BY <1>4, <1>8, <2>1
  <1>9. ASSUME NEW c \in Clients, Made(c), Filling(c), call[c].ino = i PROVE FALSE
    <2>1. X(c) = d
      BY <1>7, <1>9, MadeEntry
    <2>2. PICK m \in 1..Len(Contents(d)) : Contents(d)[m] = [name |-> Req(c).name, inum |-> i]
      BY <1>9, <2>1, Parts DEF ClaimInv
    <2>3. entry.name = Req(c).name
      BY <1>4, <2>2
    <2>4. Op(c) = "symlink" /\ call[c].at \in {"put", "link", "fill"}
      BY <1>9 DEF Filling
    <2>5. Hides(c, d, entry)
      BY <2>1, <2>3, <2>4 DEF Hides, Hiding
    <2> QED BY <1>4, <2>5
  <1>10. ASSUME NEW c \in Clients, Claims(c, i) PROVE (Made(c) /\ ~Filling(c)) \/ At(c, "remove")
    BY <1>6, <1>8, <1>9, <1>10, FillingIs DEF Claims
  <1> QED BY <1>5, <1>10

\* What a client is busy with: the target of its call, or what it makes or removes.
LEMMA BusyIs ==
  ASSUME YfsInv, NEW c \in Clients, NEW i \in Inums, Busy(c, i)
  PROVE  \/ X(c) = i /\ rpc[c].op \in {"get", "put"} /\ (Op(c) # "join" => i \in held[c])
         \/ Claims(c, i) /\ ~Made(c) /\ rpc[c].op \in {"remove", "create"} /\ (Unlinking(c) \/ Making(c))
  <1>1. CASE rpc[c].op \in {"get", "put"}
    <2>1. X(c) = i /\ (At(c, "read") \/ At(c, "put"))
      BY <1>1, Parts, RpcAt DEF Busy
    <2>2. Op(c) # "join" => i \in held[c]
      BY <2>1, Parts, HeldIs DEF At
    <2> QED BY <1>1, <2>1, <2>2
  <1>2. CASE rpc[c].op = "remove"
    <2>1. At(c, "removing") /\ call[c].ino = i /\ rpc[c].at # "reply"
      BY <1>2, Parts, RpcAt DEF Busy
    <2> QED BY <1>2, <2>1 DEF Claims, Unlinking, Made, At
  <1>3. CASE rpc[c].op = "create"
    <2>1. At(c, "make") /\ Op(c) \in Makers /\ rpc[c].at = "reply" /\ rpc[c].eid = i
      BY <1>3, Parts, RpcAt DEF Busy
    <2> QED BY <1>3, <2>1 DEF Claims, Making, NewInum, Made, At, PutPending
  <1> QED BY <1>1, <1>2, <1>3 DEF Busy

\* Nobody is busy with what a client without a call has locked or is filling.
LEMMA HeldNotBusy ==
  ASSUME YfsInv, NEW c \in Clients, NEW i \in Inums, rpc[c] = NoCall,
         \/ X(c) = i /\ i \in held[c]
         \/ (Filling(c) \/ Unlinking(c)) /\ call[c].ino = i
  PROVE  \A d \in Clients : ~Busy(d, i)
  <1> SUFFICES ASSUME NEW d \in Clients, Busy(d, i) PROVE FALSE
    OBVIOUS
  <1>1. d # c
    BY NoCallNotBusy
  <1>2. CASE X(c) = i /\ i \in held[c]
    <2>1. X(d) = i /\ (Op(d) # "join" => i \in held[d])
      <3>1. ASSUME Claims(d, i), ~Made(d) PROVE FALSE
        BY <1>2, <3>1, ClaimsFree
      <3> QED BY <3>1, BusyIs
    <2>2. Op(d) # "join"
      <3>1. call[c].at \notin {"out", "user"} /\ Op(c) # "join"
        BY <1>2, Parts, HeldIs
      <3> QED BY <3>1, Parts, Started
    <2> QED BY <1>1, <1>2, <2>1, <2>2, Parts, HeldIs
  <1>3. CASE (Filling(c) \/ Unlinking(c)) /\ call[c].ino = i
    <2>1. Claims(c, i)
      BY <1>3 DEF Claims
    <2>2. ~Made(c) \/ Filling(c)
      BY <1>3, Parts, LeavingHolds DEF Made, Makers
    <2>3. X(d) # i
      BY <2>1, <2>2, ClaimsFree
    <2>4. Claims(d, i)
      BY <2>3, BusyIs
    <2> QED BY <1>1, <2>1, <2>4, ClaimsApart
  <1> QED BY <1>2, <1>3

\* What is about a client whose call and RPC stay stays.
LEMMA SameClient ==
  ASSUME NEW d \in Clients, call'[d] = call[d], rpc'[d] = rpc[d]
  PROVE  /\ Op(d)' = Op(d) /\ X(d)' = X(d) /\ Req(d)' = Req(d)
         /\ \A at : At(d, at)' <=> At(d, at)
         /\ PutPending(d)' <=> PutPending(d)
         /\ Holding(d)' <=> Holding(d)
         /\ Making(d)' <=> Making(d)
         /\ NewInum(d)' = NewInum(d)
         /\ Made(d)' <=> Made(d)
         /\ Filling(d)' <=> Filling(d)
         /\ Unlinking(d)' <=> Unlinking(d)
         /\ Leaving(d)' <=> Leaving(d)
         /\ Found(d)' <=> Found(d)
         /\ FoundInum(d)' = FoundInum(d)
         /\ Phase(d)' <=> Phase(d)
         /\ LocksOf(d)' = LocksOf(d)
  <1>1. /\ Op(d)' = Op(d) /\ X(d)' = X(d) /\ Req(d)' = Req(d)
        /\ \A at : At(d, at)' <=> At(d, at)
        /\ PutPending(d)' <=> PutPending(d)
    BY DEF Op, X, Req, At, PutPending
  <1>2. /\ Holding(d)' <=> Holding(d)
        /\ Making(d)' <=> Making(d)
        /\ NewInum(d)' = NewInum(d)
        /\ Made(d)' <=> Made(d)
        /\ Filling(d)' <=> Filling(d)
        /\ Unlinking(d)' <=> Unlinking(d)
        /\ Leaving(d)' <=> Leaving(d)
    BY <1>1 DEF Holding, Making, NewInum, Made, Filling, Unlinking, Leaving
  <1>3. Found(d)' <=> Found(d)
    BY <1>1 DEF Found, Positions
  <1>4. Position(d)' = Position(d) /\ FoundInum(d)' = FoundInum(d)
    BY <1>1 DEF Position, FoundInum, Positions
  <1>5. NewContents(d)' = NewContents(d)
    BY <1>1, <1>4 DEF NewContents
  <1>6. AtCall(d)' <=> AtCall(d)
    BY <1>1, <1>5 DEF AtCall
  <1>7. Phase(d)' <=> Phase(d)
    BY <1>1, <1>6 DEF Phase
  <1>8. LocksOf(d)' = LocksOf(d)
    BY <1>1 DEF LocksOf
  <1> QED BY <1>1, <1>2, <1>3, <1>4, <1>7, <1>8

\* A step of c keeps what the invariant says of the other clients, if it leaves
\* alone what they hold and fill.
LEMMA Frame ==
  ASSUME YfsInv, NEW c \in Clients,
         \A d \in Clients \ {c} : call'[d] = call[d] /\ held'[d] = held[d] /\ rpc'[d] = rpc[d],
         \A d \in Clients \ {c} : Holding(d) =>
           /\ Cached(d, X(d))' /\ extent_map'[d][X(d)].data = extent_map[d][X(d)].data
           /\ Contents(X(d))' = Contents(X(d)),
         \A d \in Clients \ {c} : Filling(d) =>
           Cached(d, call[d].ino)' /\ owner_map'[call[d].ino] = owner_map[call[d].ino],
         Phase(c)', Buffer(c)', Own(c)', held'[c] = LocksOf(c)',
         \A d \in Clients \ {c} : held'[c] \cap held[d] = {}
  PROVE  PhaseInv' /\ LockInv' /\ BufInv' /\ OwnInv'
  <1>1. ASSUME NEW d \in Clients \ {c}
        PROVE  Phase(d)' /\ Buffer(d)' /\ Own(d)' /\ held'[d] = LocksOf(d)'
    <2>0. /\ Phase(d) /\ Buffer(d) /\ Own(d) /\ held[d] = LocksOf(d)
          /\ call'[d] = call[d] /\ held'[d] = held[d] /\ rpc'[d] = rpc[d]
      BY Parts DEF PhaseInv, BufInv, OwnInv, LockInv
    <2>1. Phase(d)' /\ held'[d] = LocksOf(d)'
      BY <2>0, SameClient
    <2>2. Buffer(d)'
      <3>1. X(d)' = X(d) /\ (Holding(d)' <=> Holding(d))
        BY <2>0, SameClient
      <3>2. SUFFICES ASSUME Holding(d)
                     PROVE  /\ Cached(d, X(d))' /\ extent_map'[d][X(d)'].data = call'[d].buf
                            /\ Contents(X(d))' = call'[d].buf
        BY <3>1 DEF Buffer
      <3>3. extent_map[d][X(d)].data = call[d].buf /\ Contents(X(d)) = call[d].buf
        BY <2>0, <3>2 DEF Buffer
      <3> QED BY <2>0, <3>1, <3>2, <3>3
    <2>3. Own(d)'
      <3>1. /\ Op(d)' = Op(d) /\ (\A at : At(d, at)' <=> At(d, at))
            /\ (PutPending(d)' <=> PutPending(d)) /\ (Found(d)' <=> Found(d))
            /\ FoundInum(d)' = FoundInum(d) /\ (Filling(d)' <=> Filling(d))
        BY <2>0, SameClient
      <3>2. Filling(d) => Cached(d, call[d].ino)' /\ owner_map'[call[d].ino] = <<d>>
        BY <2>0 DEF Own
      <3>3. X(d)' = X(d) /\ call'[d].ino = call[d].ino
        BY <2>0 DEF X
      <3> QED BY <2>0, <3>1, <3>2, <3>3 DEF Own
    <2> QED BY <2>1, <2>2, <2>3
  <1>2. LockInv'
    <2>1. ASSUME NEW d \in Clients, NEW g \in Clients, d # g PROVE held'[d] \cap held'[g] = {}
      BY <2>1, Parts DEF LockInv
    <2> QED BY <1>1, <2>1 DEF LockInv
  <1> QED BY <1>1, <1>2 DEF PhaseInv, BufInv, OwnInv

-----------------------------------------------------------------------------
(* Steps that change no directory                                          *)

\* What the tree of directories and the claims on inodes depend on, in a client.
SameRole(d) ==
  /\ Op(d)' = Op(d) /\ X(d)' = X(d) /\ Req(d)' = Req(d)
  /\ Making(d)' <=> Making(d)
  /\ Making(d) => NewInum(d)' = NewInum(d)
  /\ Made(d)' <=> Made(d)
  /\ Filling(d)' => Filling(d) \/ (Making(d) /\ call'[d].ino = NewInum(d))
  /\ Unlinking(d)' <=> Unlinking(d)
  /\ Leaving(d)' <=> Leaving(d)
  /\ Made(d) \/ Filling(d) \/ Unlinking(d) \/ Leaving(d) => call'[d].ino = call[d].ino

\* A client that does not move keeps its role.
LEMMA SameRoles ==
  ASSUME NEW d \in Clients, call'[d] = call[d], rpc'[d] = rpc[d]
  PROVE  SameRole(d)
  BY SameClient DEF SameRole

\* A step that changes no type, no directory and no role.
LEMMA QuietStep ==
  ASSUME YfsInv,
         \A i \in Inums : disk'[i].type = disk[i].type,
         \A d \in Dirs : Contents(d)' = Contents(d),
         \A d \in Clients : SameRole(d)
  PROVE  TargetInv' /\ TreeInv' /\ ClaimInv'
  <1>1. Dirs' = Dirs /\ Root \in Inums
    BY InumsAssumption DEF Dirs
  <1>2. \A d \in Dirs : \A i : InDir(d, i)' <=> InDir(d, i)
    BY DEF InDir
  <1>3. \A d, i : Stale(d, i)' <=> Stale(d, i)
    BY DEF Stale, SameRole
  <1>4. TargetInv'
    BY <1>1, Parts, CallTyped DEF TargetInv, SameRole
  <1>5. TreeInv'
    <2>1. ASSUME NEW d \in Dirs
          PROVE  /\ Contents(d)' \in Seq(Entries)
                 /\ ~InDir(d, Root)'
                 /\ \A j, k \in 1..Len(Contents(d)') : j # k =>
                      /\ Contents(d)'[j].name # Contents(d)'[k].name
                      /\ Contents(d)'[j].inum # Contents(d)'[k].inum
                 /\ \A k \in 1..Len(Contents(d)') :
                      ~Stale(d, Contents(d)[k].inum)' =>
                        /\ disk'[Contents(d)'[k].inum].type # NoType
                        /\ disk'[Contents(d)'[k].inum].type = DirType =>
                             d = Root /\ Contents(d)'[k].name \in DirNames
      <3>0. Contents(d)' = Contents(d)
        OBVIOUS
      <3>1. Contents(d) \in Seq(Entries) /\ ~InDir(d, Root)
              /\ \A j, k \in 1..Len(Contents(d)) : j # k =>
                      /\ Contents(d)[j].name # Contents(d)[k].name
                      /\ Contents(d)[j].inum # Contents(d)[k].inum
        BY Parts DEF TreeInv
      <3>2. ASSUME NEW k \in 1..Len(Contents(d)), ~Stale(d, Contents(d)[k].inum)'
            PROVE  /\ disk'[Contents(d)[k].inum].type # NoType
                   /\ disk'[Contents(d)[k].inum].type = DirType =>
                             d = Root /\ Contents(d)[k].name \in DirNames
        <4>1. Contents(d)[k].inum \in Inums
          <5>1. Contents(d)[k] \in Entries
            BY <3>1
          <5> QED BY <5>1 DEF Entries
        <4>2. ~Stale(d, Contents(d)[k].inum)
          BY <1>3, <3>0, <3>2
        <4> QED BY <4>1, <4>2, Parts DEF TreeInv
      <3> QED BY <1>2, <3>0, <3>1, <3>2
    <2>2. ASSUME NEW d \in Dirs, NEW f \in Dirs, NEW i \in Inums, InDir(d, i)', InDir(f, i)'
          PROVE  d = f \/ Stale(d, i)' \/ Stale(f, i)'
      BY <1>2, <1>3, <2>2, Parts DEF TreeInv
    <2> QED BY <1>1, <2>1, <2>2 DEF TreeInv
  <1>6. ClaimInv'
    <2>1. ASSUME NEW c \in Clients, Making(c)
          PROVE  /\ disk'[NewInum(c)'].type = Req(c)'.type
                 /\ \A d \in Dirs' : InDir(d, NewInum(c))' => Stale(d, NewInum(c))'
                 /\ \A d \in Clients : X(d)' # NewInum(c)'
                 /\ \A d \in Clients \ {c} : Making(d)' => NewInum(d)' # NewInum(c)'
      <3>1. NewInum(c)' = NewInum(c) /\ Req(c)' = Req(c) /\ NewInum(c) \in Inums
        BY <2>1, Parts, CallTyped, Typed DEF SameRole, NewInum
      <3>2. /\ disk[NewInum(c)].type = Req(c).type
            /\ \A d \in Dirs : InDir(d, NewInum(c)) => Stale(d, NewInum(c))
            /\ \A d \in Clients : X(d) # NewInum(c)
            /\ \A d \in Clients \ {c} : Making(d) => NewInum(d) # NewInum(c)
        BY <2>1, Parts DEF ClaimInv
      <3>3. \A d \in Dirs : InDir(d, NewInum(c))' => Stale(d, NewInum(c))'
        BY <1>2, <1>3, <3>1, <3>2
      <3>4. \A d \in Clients \ {c} : Making(d)' => NewInum(d)' # NewInum(c)'
        BY <3>1, <3>2 DEF SameRole
      <3> QED BY <1>1, <3>1, <3>2, <3>3, <3>4 DEF SameRole
    <2>2. ASSUME NEW c \in Clients, Made(c)
          PROVE  /\ \E k \in 1..Len(Contents(X(c))') :
                      Contents(X(c))'[k] = [name |-> Req(c)'.name, inum |-> call'[c].ino]
                 /\ Op(c)' = "symlink" => disk'[call'[c].ino].type = LinkType
      <3>1. X(c)' = X(c) /\ Req(c)' = Req(c) /\ call'[c].ino = call[c].ino /\ Op(c)' = Op(c)
              /\ call[c].ino \in Inums
        BY <2>2, Parts, CallTyped DEF SameRole
      <3>2. Contents(X(c))' = Contents(X(c))
        BY <2>2, <3>1, MadeEntry
      <3> QED BY <2>2, <3>1, <3>2, Parts DEF ClaimInv
    <2>3. ASSUME NEW c \in Clients, Filling(c)' PROVE \A d \in Clients : X(d)' # call'[c].ino
      <3>1. \/ Filling(c) /\ call'[c].ino = call[c].ino
            \/ Making(c) /\ call'[c].ino = NewInum(c)
        BY <2>3 DEF SameRole
      <3>2. \A d \in Clients : X(d) # call'[c].ino
        BY <3>1, Parts DEF ClaimInv
      <3> QED BY <3>1, <3>2 DEF SameRole
    <2>4. ASSUME NEW c \in Clients, Unlinking(c)
          PROVE  /\ disk'[call'[c].ino].type \notin {NoType, DirType}
                 /\ \A d \in Clients : X(d)' # call'[c].ino
      <3>1. call'[c].ino = call[c].ino /\ call[c].ino \in Inums
        BY <2>4, Parts, CallTyped DEF SameRole
      <3>2. /\ disk[call[c].ino].type \notin {NoType, DirType}
            /\ \A d \in Clients : X(d) # call[c].ino
        BY <2>4, Parts DEF ClaimInv
      <3> QED BY <3>1, <3>2 DEF SameRole
    <2> QED BY <2>1, <2>2, <2>3, <2>4 DEF ClaimInv, SameRole
  <1> QED BY <1>4, <1>5, <1>6

\* A step of a client at work on a request leaves start-up alone.
LEMMA StartedStep ==
  ASSUME YfsInv, NEW c \in Clients, call[c].at \notin {"out", "user"}, Op(c) # "join",
         call'[c].at # "out", call'[c].op # "join",
         \A d \in Clients \ {c} : call'[d] = call[d]
  PROVE  StartInv'
  <1>1. \A d \in Clients : Op(d) # "join" /\ ~At(d, "out")
    BY Parts, Started
  <1>2. ~Starting'
    BY <1>1 DEF Starting, At, Op
  <1> QED BY <1>2 DEF StartInv

-----------------------------------------------------------------------------
(* Types                                                                   *)

Calls ==
  [op : {"none", "get", "put", "remove", "create"}, eid : Inums,
   at : {"none", "request", "callback", "reply"}, data : Data, type : Types,
   todo : Seq(Clients), is_share : BOOLEAN, update : BOOLEAN]

CacheTypes ==
  /\ extent_map \in [Clients -> [Inums -> Copies \cup {NoEntry}]]
  /\ owner_map \in [Inums -> Seq(Clients)]
  /\ disk \in [Inums -> [type : Types, data : Data]]
  /\ rpc \in [Clients -> Calls]

CallTypes ==
  /\ call \in [Clients ->
       [op : FileOps \cup {"none", "join"}, at : DOMAIN OpsAt, x : Inums, ino : Inums,
        buf : Data, req : Request \cup {<<>>}, looks : Nat]]
  /\ held \in [Clients -> SUBSET Inums]

\* The types of the cache's variables and of the clients'.
LEMMA TypesTwo == TypeOK <=> CacheTypes /\ CallTypes
  BY DEF TypeOK, CacheTypes, CallTypes, Calls

\* A changed entry of a cache has its type.
LEMMA EntryTyped ==
  ASSUME CacheTypes, NEW c \in Clients, NEW e \in Inums, NEW x \in Copies \cup {NoEntry},
         SetEntry(c, e, x)
  PROVE  extent_map' \in [Clients -> [Inums -> Copies \cup {NoEntry}]]
  BY DEF SetEntry, CacheTypes

\* An empty file is data.
LEMMA EmptyData == <<>> \in Data
  BY DEF Data

\* No call is a call record.
LEMMA NoCallTyped == NoCall \in Calls
  <1>1. NoType \in Types /\ Root \in Inums /\ <<>> \in Data /\ <<>> \in Seq(Clients)
    BY InumsAssumption DEF Types, Data
  <1> QED BY <1>1 DEF Calls, NoCall

\* Calls change in a few fields.
LEMMA CallsChange ==
  ASSUME NEW r \in Calls
  PROVE  /\ \A data \in Data, type \in Types :
              [r EXCEPT !.at = "reply", !.data = data, !.type = type] \in Calls
         /\ \A todo \in Seq(Clients), b \in BOOLEAN :
              [r EXCEPT !.at = "callback", !.todo = todo, !.is_share = b] \in Calls
         /\ \A todo \in Seq(Clients), b \in BOOLEAN, data \in Data :
              [r EXCEPT !.todo = todo, !.update = b, !.data = data] \in Calls
         /\ \A e \in Inums : [r EXCEPT !.at = "reply", !.eid = e] \in Calls
         /\ \A op \in {"get", "put", "remove", "create"}, e \in Inums, data \in Data,
               type \in Types :
              [r EXCEPT !.op = op, !.at = "request", !.eid = e, !.data = data, !.type = type]
                \in Calls
  <1>1. ASSUME NEW data \in Data, NEW type \in Types
        PROVE  [r EXCEPT !.at = "reply", !.data = data, !.type = type] \in Calls
    BY Zenon DEF Calls
  <1>2. ASSUME NEW todo \in Seq(Clients), NEW b \in BOOLEAN
        PROVE  [r EXCEPT !.at = "callback", !.todo = todo, !.is_share = b] \in Calls
    BY Zenon DEF Calls
  <1>3. ASSUME NEW todo \in Seq(Clients), NEW b \in BOOLEAN, NEW data \in Data
        PROVE  [r EXCEPT !.todo = todo, !.update = b, !.data = data] \in Calls
    BY Zenon DEF Calls
  <1>4. ASSUME NEW e \in Inums PROVE [r EXCEPT !.at = "reply", !.eid = e] \in Calls
    BY Zenon DEF Calls
  <1>5. ASSUME NEW op \in {"get", "put", "remove", "create"}, NEW e \in Inums,
               NEW data \in Data, NEW type \in Types
        PROVE  [r EXCEPT !.op = op, !.at = "request", !.eid = e, !.data = data,
                         !.type = type] \in Calls
    BY Zenon DEF Calls
  <1> QED BY <1>1, <1>2, <1>3, <1>4, <1>5

\* The record of a new call has its type.
LEMMA CallTypedStep ==
  ASSUME CacheTypes, NEW c \in Clients, NEW op \in {"get", "put", "remove", "create"},
         NEW e \in Inums, NEW data \in Data, NEW type \in Types, Call(c, op, e, data, type)
  PROVE  owner_map' = owner_map /\ disk' = disk /\ rpc' \in [Clients -> Calls]
  <1> DEFINE new == [NoCall EXCEPT !.op = op, !.at = "request", !.eid = e, !.data = data,
                                   !.type = type]
  <1>1. new \in Calls
    BY NoCallTyped, CallsChange, EmptyData
  <1>2. rpc' = [rpc EXCEPT ![c] = new] /\ owner_map' = owner_map /\ disk' = disk
    BY DEF Call
  <1> HIDE DEF new
  <1> QED BY <1>1, <1>2 DEF CacheTypes

\* A copy has its type.
LEMMA CopyTyped ==
  ASSUME NEW data \in Data, NEW type \in Types,
         NEW status \in {"EXCLUSIVE", "SHARED", "MODIFIED"}
  PROVE  Entry(data, type, status) \in Copies
  BY DEF Entry, Copies

\* Types are kept by a get that is sent,
LEMMA PullTypes ==
  ASSUME CacheTypes, NEW c \in Clients, NEW e \in Inums, Pull(c, e)
  PROVE  CacheTypes'
  <1>1. NoType \in Types
    BY DEF Types
  <1> QED BY <1>1, CallTypedStep, EmptyData DEF Pull, CacheTypes

\* by a create that is sent,
LEMMA CallCreateTypes ==
  ASSUME CacheTypes, NEW c \in Clients, NEW type \in Types, CallCreate(c, type)
  PROVE  CacheTypes'
  <1>1. Root \in Inums
    BY InumsAssumption
  <1> QED BY <1>1, CallTypedStep, EmptyData DEF CallCreate, CacheTypes

\* by a put to the only copy,
LEMMA PutLocalTypes ==
  ASSUME CacheTypes, NEW c \in Clients, NEW e \in Inums, NEW data \in Data, PutLocal(c, e, data)
  PROVE  CacheTypes'
  <1>1. extent_map[c][e] \in Copies
    BY DEF PutLocal, Cached, CacheTypes
  <1>2. extent_map[c][e].type \in Types
    BY <1>1 DEF Copies
  <1>3. Entry(data, extent_map[c][e].type, "MODIFIED") \in Copies
    BY <1>2, CopyTyped
  <1> QED BY <1>3, EntryTyped DEF PutLocal, CacheTypes

\* by a put that is sent,
LEMMA PutThroughTypes ==
  ASSUME CacheTypes, NEW c \in Clients, NEW e \in Inums, NEW data \in Data, PutThrough(c, e, data)
  PROVE  CacheTypes'
  <1>1. NoType \in Types
    BY DEF Types
  <1>2. Entry(<<>>, NoType, "EXCLUSIVE") \in Copies
    BY <1>1, CopyTyped, EmptyData
  <1>3. extent_map' \in [Clients -> [Inums -> Copies \cup {NoEntry}]]
    BY <1>2, EntryTyped DEF PutThrough, CacheTypes
  <1>4. owner_map' = owner_map /\ disk' = disk /\ rpc' \in [Clients -> Calls]
    BY <1>1, CallTypedStep DEF PutThrough
  <1> QED BY <1>3, <1>4 DEF CacheTypes

\* by a remove that is sent,
LEMMA CallRemoveTypes ==
  ASSUME CacheTypes, NEW c \in Clients, NEW e \in Inums, CallRemove(c, e)
  PROVE  CacheTypes'
  <1>1. NoType \in Types
    BY DEF Types
  <1>2. extent_map' \in [Clients -> [Inums -> Copies \cup {NoEntry}]]
    BY EntryTyped DEF CallRemove
  <1>3. owner_map' = owner_map /\ disk' = disk /\ rpc' \in [Clients -> Calls]
    BY <1>1, CallTypedStep, EmptyData DEF CallRemove
  <1> QED BY <1>2, <1>3 DEF CacheTypes

\* by an answer of the server,
LEMMA ReplyTypes ==
  ASSUME CacheTypes, NEW c \in Clients, NEW data \in Data, NEW type \in Types,
         Reply(c, data, type)
  PROVE  rpc' \in [Clients -> Calls]
  <1> DEFINE new == [rpc[c] EXCEPT !.at = "reply", !.data = data, !.type = type]
  <1>1. rpc' = [rpc EXCEPT ![c] = new] /\ rpc[c] \in Calls
    BY DEF Reply, CacheTypes
  <1>2. new \in Calls
    BY <1>1, CallsChange
  <1> HIDE DEF new
  <1> QED BY <1>1, <1>2 DEF CacheTypes

\* The types of what the handlers of the server read.
LEMMA AtServer ==
  ASSUME CacheTypes, NEW c \in Clients
  PROVE  /\ rpc[c] \in Calls /\ rpc[c].eid \in Inums /\ rpc[c].todo \in Seq(Clients)
         /\ rpc[c].data \in Data /\ rpc[c].type \in Types /\ rpc[c].update \in BOOLEAN
         /\ disk[rpc[c].eid].data \in Data /\ disk[rpc[c].eid].type \in Types
         /\ owner_map[rpc[c].eid] \in Seq(Clients)
         /\ rpc[c].todo # <<>> => Callee(c) \in Clients /\ Tail(rpc[c].todo) \in Seq(Clients)
  BY DEF CacheTypes, Calls, Callee

\* Types are kept by the handlers of the server,
LEMMA ServerTypes ==
  ASSUME CacheTypes, NEW c \in Clients, ServerStep(c)
  PROVE  CacheTypes'
  <1>1. CASE ServerLookup(c)
    <2>1. CallBacks(c, rpc[c].op, owner_map[rpc[c].eid]) \in Seq(Clients)
      <3>1. OthersThan(c, owner_map[rpc[c].eid]) \in Seq(Clients)
        BY AtServer, WithoutRange DEF OthersThan
      <3> QED BY <3>1, AtServer DEF CallBacks
    <2>2. rpc' = [rpc EXCEPT ![c] = [rpc[c] EXCEPT !.at = "callback",
                     !.todo = CallBacks(c, rpc[c].op, owner_map[rpc[c].eid]),
                     !.is_share = rpc[c].op = "get" /\ owner_map[rpc[c].eid] # <<>>]]
      BY <1>1 DEF ServerLookup, CacheTypes
    <2>3. \A todo \in Seq(Clients), b \in BOOLEAN :
            [rpc[c] EXCEPT !.at = "callback", !.todo = todo, !.is_share = b] \in Calls
      BY AtServer, CallsChange, EmptyData
    <2>4. (rpc[c].op = "get" /\ owner_map[rpc[c].eid] # <<>>) \in BOOLEAN
      OBVIOUS
    <2>5. rpc' \in [Clients -> Calls]
      BY <2>1, <2>2, <2>3, <2>4 DEF CacheTypes
    <2> QED BY <1>1, <2>5 DEF ServerLookup, CacheTypes
  <1>2. CASE ShareHandler(c)
    <2> DEFINE copy == extent_map[Callee(c)][rpc[c].eid]
               update == copy.status = "MODIFIED"
               data == IF update THEN copy.data ELSE <<>>
    <2>1. /\ copy \in Copies /\ Callee(c) \in Clients /\ rpc[c].eid \in Inums
          /\ Tail(rpc[c].todo) \in Seq(Clients)
      BY <1>2, AtServer DEF ShareHandler, CalleeHasEntry, Cached, CacheTypes
    <2>2. update \in BOOLEAN /\ data \in Data
      BY <2>1, EmptyData DEF Copies
    <2>3. [copy EXCEPT !.status = "SHARED"] \in Copies
      <3> HIDE DEF copy
      <3> QED BY <2>1, SharedCopy
    <2>4. /\ SetEntry(Callee(c), rpc[c].eid, [copy EXCEPT !.status = "SHARED"])
          /\ rpc' = [rpc EXCEPT ![c] = [rpc[c] EXCEPT !.todo = Tail(rpc[c].todo),
                                          !.update = update, !.data = data]]
          /\ owner_map' = owner_map /\ disk' = disk
      BY <1>2 DEF ShareHandler, CacheTypes
    <2> HIDE DEF copy, update, data
    <2>5. \A todo \in Seq(Clients), b \in BOOLEAN, dd \in Data :
            [rpc[c] EXCEPT !.todo = todo, !.update = b, !.data = dd] \in Calls
      BY AtServer, CallsChange
    <2>6. rpc' \in [Clients -> Calls]
      BY <2>1, <2>2, <2>4, <2>5 DEF CacheTypes
    <2>7. extent_map' \in [Clients -> [Inums -> Copies \cup {NoEntry}]]
      BY <2>1, <2>3, <2>4, EntryTyped
    <2> QED BY <2>4, <2>6, <2>7 DEF CacheTypes
  <1>3. CASE InvalidateHandler(c)
    <2>1. Callee(c) \in Clients /\ rpc[c].eid \in Inums /\ Tail(rpc[c].todo) \in Seq(Clients)
      BY <1>3, AtServer DEF InvalidateHandler
    <2>2. extent_map' \in [Clients -> [Inums -> Copies \cup {NoEntry}]]
      BY <1>3, <2>1, EntryTyped DEF InvalidateHandler
    <2>3. rpc' \in [Clients -> Calls]
      BY <1>3, <2>1 DEF InvalidateHandler, CacheTypes, Calls
    <2> QED BY <1>3, <2>2, <2>3 DEF InvalidateHandler, CacheTypes
  <1>4. CASE ServerGet(c)
    <2> DEFINE data == IF rpc[c].update THEN rpc[c].data ELSE disk[rpc[c].eid].data
    <2>1. data \in Data
      BY AtServer
    <2>2. /\ disk' = [disk EXCEPT ![rpc[c].eid].data = data]
          /\ owner_map' = [owner_map EXCEPT ![rpc[c].eid] = Append(@, c)]
          /\ Reply(c, data, disk[rpc[c].eid].type) /\ extent_map' = extent_map
      BY <1>4 DEF ServerGet
    <2> HIDE DEF data
    <2>3. rpc' \in [Clients -> Calls]
      BY <2>1, <2>2, AtServer, ReplyTypes
    <2>4. disk' \in [Inums -> [type : Types, data : Data]]
      BY <2>1, <2>2 DEF CacheTypes
    <2>5. owner_map' \in [Inums -> Seq(Clients)]
      BY <2>2, AtServer DEF CacheTypes
    <2> QED BY <2>2, <2>3, <2>4, <2>5 DEF CacheTypes
  <1>5. CASE ServerPut(c)
    <2>1. /\ disk' = [disk EXCEPT ![rpc[c].eid].data = rpc[c].data]
          /\ owner_map' = [owner_map EXCEPT ![rpc[c].eid] = <<c>>]
          /\ Reply(c, rpc[c].data, disk[rpc[c].eid].type) /\ extent_map' = extent_map
      BY <1>5 DEF ServerPut
    <2>2. rpc' \in [Clients -> Calls]
      BY <2>1, AtServer, ReplyTypes
    <2>3. <<c>> \in Seq(Clients)
      OBVIOUS
    <2>4. disk' \in [Inums -> [type : Types, data : Data]]
      <3>1. PICK data \in Data : data = rpc[c].data
        BY AtServer
      <3>2. PICK e \in Inums : e = rpc[c].eid
        BY AtServer
      <3>3. disk' = [disk EXCEPT ![e].data = data]
        BY <2>1, <3>1, <3>2
      <3> QED BY <3>3 DEF CacheTypes
    <2>5. owner_map' \in [Inums -> Seq(Clients)]
      BY <2>1, <2>3 DEF CacheTypes
    <2> QED BY <2>1, <2>2, <2>4, <2>5 DEF CacheTypes
  <1>6. CASE ServerRemove(c)
    <2>1. /\ disk' = [disk EXCEPT ![rpc[c].eid].type = NoType]
          /\ owner_map' = [owner_map EXCEPT ![rpc[c].eid] = <<>>]
          /\ Reply(c, <<>>, NoType) /\ extent_map' = extent_map
      BY <1>6 DEF ServerRemove
    <2>2. NoType \in Types /\ <<>> \in Seq(Clients)
      BY DEF Types
    <2>3. rpc' \in [Clients -> Calls]
      BY <2>1, <2>2, EmptyData, ReplyTypes
    <2>4. disk' \in [Inums -> [type : Types, data : Data]]
      BY <2>1, <2>2 DEF CacheTypes
    <2>5. owner_map' \in [Inums -> Seq(Clients)]
      BY <2>1, <2>2, AtServer DEF CacheTypes
    <2> QED BY <2>1, <2>3, <2>4, <2>5 DEF CacheTypes
  <1>7. CASE ServerCreate(c)
    <2>1. PICK e \in Inums :
            /\ disk' = [disk EXCEPT ![e] = [type |-> rpc[c].type, data |-> <<>>]]
            /\ owner_map' = [owner_map EXCEPT ![e] = IF @ = <<>> THEN <<c>> ELSE @]
            /\ rpc' = [rpc EXCEPT ![c].at = "reply", ![c].eid = e]
            /\ extent_map' = extent_map
      BY <1>7 DEF ServerCreate
    <2>2. disk' \in [Inums -> [type : Types, data : Data]]
      BY <2>1, AtServer, EmptyData DEF CacheTypes
    <2>3. owner_map' \in [Inums -> Seq(Clients)]
      BY <2>1 DEF CacheTypes
    <2>4. rpc' \in [Clients -> Calls]
      <3> DEFINE new == [rpc[c] EXCEPT !.at = "reply", !.eid = e]
      <3>1. rpc' = [rpc EXCEPT ![c] = new]
        BY <2>1 DEF CacheTypes
      <3>2. new \in Calls
        BY AtServer, CallsChange, EmptyData
      <3> HIDE DEF new
      <3> QED BY <3>1, <3>2 DEF CacheTypes
    <2> QED BY <2>1, <2>2, <2>3, <2>4 DEF CacheTypes
  <1> QED BY <1>1, <1>2, <1>3, <1>4, <1>5, <1>6, <1>7 DEF ServerStep

\* and by the return of a call.
LEMMA ReturnTypes ==
  ASSUME CacheTypes, NEW c \in Clients, Return(c), rpc[c].op \in {"get", "put", "remove", "create"}
  PROVE  CacheTypes'
  <1>1. ReturnedEntry(c) \in Copies \cup {NoEntry}
    <2>1. \A s \in {"EXCLUSIVE", "SHARED"} : Entry(rpc[c].data, rpc[c].type, s) \in Copies
            /\ Entry(<<>>, rpc[c].type, s) \in Copies
      BY AtServer, EmptyData, CopyTyped
    <2>2. extent_map[c][rpc[c].eid] \in Copies \cup {NoEntry}
      BY AtServer DEF CacheTypes
    <2> QED BY <2>1, <2>2 DEF ReturnedEntry
  <1>2. extent_map' \in [Clients -> [Inums -> Copies \cup {NoEntry}]]
    BY <1>1, AtServer, EntryTyped DEF Return
  <1>3. NoCall \in Calls
    BY NoCallTyped
  <1>4. rpc' \in [Clients -> Calls]
    BY <1>3 DEF Return, CacheTypes
  <1> QED BY <1>2, <1>4 DEF Return, CacheTypes

-----------------------------------------------------------------------------
(* Steps of a call                                                         *)

CallRec ==
  [op : FileOps \cup {"none", "join"}, at : DOMAIN OpsAt, x : Inums, ino : Inums,
   buf : Data, req : Request \cup {<<>>}, looks : Nat]

\* What Set does to the clients.
LEMMA SetIs ==
  ASSUME TypeOK, NEW c \in Clients, NEW new \in CallRec, Set(c, new)
  PROVE  /\ call' \in [Clients -> CallRec]
         /\ call'[c] = new /\ \A d \in Clients \ {c} : call'[d] = call[d]
  <1>1. call \in [Clients -> CallRec] /\ call' = [call EXCEPT ![c] = new]
    BY DEF TypeOK, Set, CallRec
  <1> HIDE DEF CallRec
  <1> QED BY <1>1

\* The points a client may be at.
LEMMA Points ==
  DOMAIN OpsAt = {"out", "user", "lock", "read", "got", "make", "remove", "removing",
                  "removed", "put", "link", "fill", "filled", "unlock"}
  BY DEF OpsAt

\* Parts of a call change.
LEMMA CallChange ==
  ASSUME NEW r \in CallRec
  PROVE  /\ r.at \in DOMAIN OpsAt /\ r.x \in Inums /\ r.ino \in Inums /\ r.buf \in Data
         /\ r.op \in FileOps \cup {"none", "join"} /\ r.looks \in Nat
         /\ \A at \in DOMAIN OpsAt : [r EXCEPT !.at = at] \in CallRec
         /\ \A at \in DOMAIN OpsAt, buf \in Data : [r EXCEPT !.at = at, !.buf = buf] \in CallRec
         /\ \A at \in DOMAIN OpsAt, ino \in Inums : [r EXCEPT !.at = at, !.ino = ino] \in CallRec
  <1>1. \A at \in DOMAIN OpsAt : [r EXCEPT !.at = at] \in CallRec
    BY Zenon DEF CallRec
  <1>2. \A at \in DOMAIN OpsAt, buf \in Data : [r EXCEPT !.at = at, !.buf = buf] \in CallRec
    BY Zenon DEF CallRec
  <1>3. \A at \in DOMAIN OpsAt, ino \in Inums : [r EXCEPT !.at = at, !.ino = ino] \in CallRec
    BY Zenon DEF CallRec
  <1>4. /\ r.at \in DOMAIN OpsAt /\ r.x \in Inums /\ r.ino \in Inums /\ r.buf \in Data
        /\ r.op \in FileOps \cup {"none", "join"} /\ r.looks \in Nat
    BY Zenon DEF CallRec
  <1> QED BY <1>1, <1>2, <1>3, <1>4

\* What a change of the point leaves alone.
LEMMA AtChange ==
  ASSUME NEW r \in CallRec, NEW at, NEW q, q = [r EXCEPT !.at = at]
  PROVE  /\ q.op = r.op /\ q.at = at /\ q.x = r.x /\ q.ino = r.ino
         /\ q.buf = r.buf /\ q.req = r.req /\ q.looks = r.looks
  BY DEF CallRec

\* What stays when c goes to another point of its call.
SameWork(c) ==
  /\ Op(c)' = Op(c) /\ X(c)' = X(c) /\ Req(c)' = Req(c)
  /\ call'[c].buf = call[c].buf
  /\ Found(c)' <=> Found(c)
  /\ FoundInum(c)' = FoundInum(c)

\* The work of a client depends on its request and on what it has read.
LEMMA SameWorkIs ==
  ASSUME NEW c \in Clients, call'[c].op = call[c].op, call'[c].x = call[c].x,
         call'[c].req = call[c].req, call'[c].buf = call[c].buf
  PROVE  /\ SameWork(c)
         /\ call'[c].ino = call[c].ino => NewContents(c)' = NewContents(c)
  <1>1. Op(c)' = Op(c) /\ X(c)' = X(c) /\ Req(c)' = Req(c)
    BY DEF Op, X, Req
  <1>2. (Found(c)' <=> Found(c)) /\ Position(c)' = Position(c) /\ FoundInum(c)' = FoundInum(c)
    BY <1>1 DEF Found, Position, FoundInum, Positions
  <1>3. call'[c].ino = call[c].ino => NewContents(c)' = NewContents(c)
    BY <1>1, <1>2 DEF NewContents
  <1> QED BY <1>1, <1>2, <1>3 DEF SameWork

\* What GoTo does to the clients.
LEMMA GoToIs ==
  ASSUME TypeOK, NEW c \in Clients, NEW at \in DOMAIN OpsAt, GoTo(c, at)
  PROVE  /\ call' \in [Clients -> CallRec]
         /\ call'[c].at = at /\ call'[c].ino = call[c].ino /\ call'[c].buf = call[c].buf
         /\ SameWork(c) /\ NewContents(c)' = NewContents(c)
         /\ \A d \in Clients \ {c} : call'[d] = call[d]
         /\ \A p : At(c, p)' <=> p = at
  <1> DEFINE new == [call[c] EXCEPT !.at = at]
  <1>1. call[c] \in CallRec
    BY DEF TypeOK, CallRec
  <1>2. call' = [call EXCEPT ![c] = new]
    BY DEF GoTo, TypeOK
  <1>3. new \in CallRec
    BY <1>1, CallChange
  <1>a. /\ new.op = call[c].op /\ new.at = at /\ new.x = call[c].x /\ new.ino = call[c].ino
        /\ new.buf = call[c].buf /\ new.req = call[c].req
    BY <1>1, AtChange
  <1> HIDE DEF new
  <1>4. Set(c, new)
    BY <1>2 DEF Set
  <1>5. call' \in [Clients -> CallRec] /\ call'[c] = new
          /\ \A d \in Clients \ {c} : call'[d] = call[d]
    BY <1>3, <1>4, SetIs
  <1> QED BY <1>3, <1>a, <1>5, SameWorkIs DEF At

\* A step that moves locks only.
LEMMA TypesKept ==
  ASSUME TypeOK, call' \in [Clients -> CallRec], held' \in [Clients -> SUBSET Inums], CacheTypes'
  PROVE  TypeOK'
  BY DEF TypeOK, CallRec, CacheTypes, Calls

\* A step that does not touch the caches.
LEMMA CacheSame ==
  ASSUME YfsInv, cacheVars' = cacheVars
  PROVE  /\ CacheTypes' /\ CacheInv'
         /\ \A f : Contents(f)' = Contents(f)
         /\ \A d, e : Cached(d, e)' <=> Cached(d, e)
         /\ extent_map' = extent_map /\ owner_map' = owner_map /\ disk' = disk /\ rpc' = rpc
  <1>1. extent_map' = extent_map /\ owner_map' = owner_map /\ disk' = disk /\ rpc' = rpc
    BY DEF cacheVars
  <1>2. CacheTypes'
    BY <1>1, Parts, TypesTwo DEF CacheTypes
  <1>3. CacheInv' <=> CacheInv
    BY <1>1 DEF CacheInv, CallInv, GetInv, PutInv, RemoveInv, CreateInv, Busy, Settled,
                AllShare, Holders, Cached
  <1>4. \A f : Contents(f)' = Contents(f)
    BY <1>1 DEF Contents, Carrying, Modified, Cached
  <1> QED BY <1>1, <1>2, <1>3, <1>4, Parts DEF Cached

\* What taking a lock does.
LEMMA AcquireIs ==
  ASSUME TypeOK, NEW c \in Clients, NEW i \in Inums, Acquire(c, i)
  PROVE  /\ held' \in [Clients -> SUBSET Inums]
         /\ held'[c] = held[c] \cup {i} /\ \A d \in Clients \ {c} : held'[d] = held[d]
         /\ \A d \in Clients : i \notin held[d]
  BY DEF Acquire, TypeOK

\* What releasing a lock does.
LEMMA ReleaseIs ==
  ASSUME TypeOK, NEW c \in Clients, NEW i \in Inums, Release(c, i)
  PROVE  /\ held' \in [Clients -> SUBSET Inums]
         /\ held'[c] = held[c] \ {i} /\ \A d \in Clients \ {c} : held'[d] = held[d]
  BY DEF Release, TypeOK

\* A client has read its inode.
LEMMA BufTo ==
  ASSUME TypeOK, NEW c \in Clients, NEW at \in DOMAIN OpsAt, NEW buf \in Data,
         Set(c, [call[c] EXCEPT !.at = at, !.buf = buf])
  PROVE  /\ call' \in [Clients -> CallRec]
         /\ call'[c].at = at /\ call'[c].ino = call[c].ino /\ call'[c].buf = buf
         /\ Op(c)' = Op(c) /\ X(c)' = X(c) /\ Req(c)' = Req(c)
         /\ \A d \in Clients \ {c} : call'[d] = call[d]
         /\ \A p : At(c, p)' <=> p = at
  <1> DEFINE new == [call[c] EXCEPT !.at = at, !.buf = buf]
  <1>1. call[c] \in CallRec
    BY DEF TypeOK, CallRec
  <1>2. Set(c, new)
    OBVIOUS
  <1>3. new \in CallRec
    BY <1>1, CallChange
  <1>4. /\ new.op = call[c].op /\ new.at = at /\ new.x = call[c].x /\ new.ino = call[c].ino
        /\ new.buf = buf /\ new.req = call[c].req
    <2>1. \A r \in CallRec : \A q : q = [r EXCEPT !.at = at, !.buf = buf] =>
            /\ q.op = r.op /\ q.at = at /\ q.x = r.x /\ q.ino = r.ino
            /\ q.buf = buf /\ q.req = r.req
      BY DEF CallRec
    <2>2. new = [call[c] EXCEPT !.at = at, !.buf = buf]
      OBVIOUS
    <2> HIDE DEF new
    <2> QED BY <1>1, <2>1, <2>2
  <1> HIDE DEF new
  <1>5. call' \in [Clients -> CallRec] /\ call'[c] = new
          /\ \A d \in Clients \ {c} : call'[d] = call[d]
    BY <1>2, <1>3, SetIs
  <1> QED BY <1>4, <1>5 DEF At, Op, X, Req

\* A client has found or made an inode.
LEMMA InoTo ==
  ASSUME TypeOK, NEW c \in Clients, NEW at \in DOMAIN OpsAt, NEW ino \in Inums,
         Set(c, [call[c] EXCEPT !.at = at, !.ino = ino])
  PROVE  /\ call' \in [Clients -> CallRec]
         /\ call'[c].at = at /\ call'[c].ino = ino /\ call'[c].buf = call[c].buf
         /\ SameWork(c)
         /\ \A d \in Clients \ {c} : call'[d] = call[d]
         /\ \A p : At(c, p)' <=> p = at
  <1> DEFINE new == [call[c] EXCEPT !.at = at, !.ino = ino]
  <1>1. call[c] \in CallRec
    BY DEF TypeOK, CallRec
  <1>2. Set(c, new)
    OBVIOUS
  <1>3. new \in CallRec
    BY <1>1, CallChange
  <1>4. /\ new.op = call[c].op /\ new.at = at /\ new.x = call[c].x /\ new.ino = ino
        /\ new.buf = call[c].buf /\ new.req = call[c].req
    <2>1. \A r \in CallRec : \A q : q = [r EXCEPT !.at = at, !.ino = ino] =>
            /\ q.op = r.op /\ q.at = at /\ q.x = r.x /\ q.ino = ino
            /\ q.buf = r.buf /\ q.req = r.req
      BY DEF CallRec
    <2>2. new = [call[c] EXCEPT !.at = at, !.ino = ino]
      OBVIOUS
    <2> HIDE DEF new
    <2> QED BY <1>1, <2>1, <2>2
  <1> HIDE DEF new
  <1>5. call' \in [Clients -> CallRec] /\ call'[c] = new
          /\ \A d \in Clients \ {c} : call'[d] = call[d]
    BY <1>2, <1>3, SetIs
  <1> QED BY <1>4, <1>5, SameWorkIs DEF At

\* What others hold and fill stays.
Untouched(c) ==
  /\ \A d \in Clients \ {c} : call'[d] = call[d] /\ held'[d] = held[d] /\ rpc'[d] = rpc[d]
  /\ \A d \in Clients \ {c} : Holding(d) =>
       /\ Cached(d, X(d))' /\ extent_map'[d][X(d)].data = extent_map[d][X(d)].data
       /\ Contents(X(d))' = Contents(X(d))
  /\ \A d \in Clients \ {c} : Filling(d) =>
       Cached(d, call[d].ino)' /\ owner_map'[call[d].ino] = owner_map[call[d].ino]

\* What c knows after its step.
Fine(c) ==
  /\ Phase(c)' /\ Buffer(c)' /\ Own(c)' /\ held'[c] = LocksOf(c)'
  /\ \A d \in Clients \ {c} : held'[c] \cap held[d] = {}

\* A step of a client at work that changes nothing others see.
LEMMA WorkStep ==
  ASSUME YfsInv, NEW c \in Clients, TypeOK', CacheInv', Untouched(c), Fine(c),
         call[c].at \notin {"out", "user"}, Op(c) # "join",
         call'[c].at # "out", call'[c].op # "join",
         \A i \in Inums : disk'[i].type = disk[i].type,
         \A d \in Dirs : Contents(d)' = Contents(d),
         SameRole(c)
  PROVE  YfsInv'
  <1>1. PhaseInv' /\ LockInv' /\ BufInv' /\ OwnInv'
    <2>1. \A d \in Clients \ {c} : call'[d] = call[d] /\ held'[d] = held[d] /\ rpc'[d] = rpc[d]
      BY DEF Untouched
    <2>2. \A d \in Clients \ {c} : Holding(d) =>
           /\ Cached(d, X(d))' /\ extent_map'[d][X(d)].data = extent_map[d][X(d)].data
           /\ Contents(X(d))' = Contents(X(d))
      BY DEF Untouched
    <2>3. \A d \in Clients \ {c} : Filling(d) =>
           Cached(d, call[d].ino)' /\ owner_map'[call[d].ino] = owner_map[call[d].ino]
      BY DEF Untouched
    <2>4. Phase(c)' /\ Buffer(c)' /\ Own(c)' /\ held'[c] = LocksOf(c)'
      BY DEF Fine
    <2>5. \A d \in Clients \ {c} : held'[c] \cap held[d] = {}
      BY DEF Fine
    <2> QED BY <2>1, <2>2, <2>3, <2>4, <2>5, Frame
  <1>2. \A d \in Clients \ {c} : call'[d] = call[d] /\ rpc'[d] = rpc[d]
    BY DEF Untouched
  <1>3. StartInv'
    BY <1>2, StartedStep
  <1>4. \A d \in Clients : SameRole(d)
    BY <1>2, SameRoles
  <1>5. TargetInv' /\ TreeInv' /\ ClaimInv'
    BY <1>4, QuietStep
  <1> QED BY <1>1, <1>3, <1>5 DEF YfsInv

\* When neither caches nor calls to the server change, others see nothing.
LEMMA UntouchedCache ==
  ASSUME YfsInv, NEW c \in Clients, cacheVars' = cacheVars,
         \A d \in Clients \ {c} : call'[d] = call[d] /\ held'[d] = held[d]
  PROVE  Untouched(c)
  <1>1. /\ \A f : Contents(f)' = Contents(f)
        /\ extent_map' = extent_map /\ owner_map' = owner_map /\ rpc' = rpc
    BY CacheSame
  <1>2. ASSUME NEW d \in Clients \ {c}, Holding(d)
        PROVE  /\ Cached(d, X(d))' /\ extent_map'[d][X(d)].data = extent_map[d][X(d)].data
               /\ Contents(X(d))' = Contents(X(d))
    <2>1. Cached(d, X(d))
      BY <1>2, Parts DEF BufInv, Buffer
    <2>2. X(d)' = X(d)
      BY DEF X
    <2> QED BY <1>1, <2>1, <2>2 DEF Cached
  <1>3. ASSUME NEW d \in Clients \ {c}, Filling(d)
        PROVE  Cached(d, call[d].ino)' /\ owner_map'[call[d].ino] = owner_map[call[d].ino]
    <2>1. Cached(d, call[d].ino)
      BY <1>3, Parts DEF OwnInv, Own
    <2> QED BY <1>1, <2>1 DEF Cached
  <1> QED BY <1>1, <1>2, <1>3 DEF Untouched

-----------------------------------------------------------------------------
(* Locks                                                                   *)

\* The phase of a client.
LEMMA PhaseOf ==
  ASSUME YfsInv, NEW c \in Clients
  PROVE  /\ Op(c) \in OpsAt[call[c].at] /\ AtCall(c)
         /\ Op(c) \in {"none", "join"} => X(c) = Root /\ Req(c) = <<>>
         /\ Op(c) \in FileOps \ {"look"} => Req(c) \in Requests[c] /\ Req(c).op = Op(c)
  BY Parts DEF PhaseInv, Phase

\* A client takes the lock of its inode.
LEMMA LockStep ==
  ASSUME YfsInv, NEW c \in Clients, Lock(c)
  PROVE  YfsInv'
  <1>1. /\ Acquire(c, X(c)) /\ GoTo(c, "read") /\ cacheVars' = cacheVars /\ At(c, "lock")
        /\ "read" \in DOMAIN OpsAt /\ X(c) \in Inums
    BY Points, Parts, CallTyped DEF Lock, cacheVars
  <1>2. /\ call' \in [Clients -> CallRec]
        /\ call'[c].at = "read" /\ call'[c].ino = call[c].ino
        /\ SameWork(c) /\ NewContents(c)' = NewContents(c)
        /\ \A d \in Clients \ {c} : call'[d] = call[d]
        /\ \A p : At(c, p)' <=> p = "read"
    BY <1>1, Parts, GoToIs
  <1>3. /\ held' \in [Clients -> SUBSET Inums]
        /\ held'[c] = held[c] \cup {X(c)} /\ \A d \in Clients \ {c} : held'[d] = held[d]
        /\ \A d \in Clients : X(c) \notin held[d]
    BY <1>1, Parts, AcquireIs
  <1>4. /\ CacheTypes' /\ CacheInv' /\ rpc' = rpc /\ disk' = disk
        /\ \A f : Contents(f)' = Contents(f)
    BY <1>1, CacheSame
  <1>5. TypeOK'
    BY <1>2, <1>3, <1>4, Parts, TypesKept
  <1>6. Untouched(c)
    BY <1>1, <1>2, <1>3, UntouchedCache
  <1>7. /\ Op(c) \in FileOps /\ rpc[c].op = "none" /\ held[c] = {} /\ call[c].at = "lock"
    BY <1>1, Parts, OpIs, RpcAt, HeldIs DEF At
  <1>8. Fine(c)
    <2>1. Phase(c)'
      BY <1>2, <1>4, <1>7, PhaseOf DEF Phase, AtCall, SameWork, OpsAt, FileOps
    <2>2. Buffer(c)' /\ Own(c)'
      BY <1>2 DEF Buffer, Own, Holding, PutPending, Filling
    <2>3. held'[c] = LocksOf(c)'
      BY <1>2, <1>3, <1>7 DEF LocksOf, SameWork, FileOps
    <2> QED BY <1>3, <1>7, <2>1, <2>2, <2>3 DEF Fine
  <1>9. SameRole(c)
    BY <1>2, <1>7 DEF SameRole, SameWork, Making, Made, Filling, Unlinking, Leaving, PutPending, At
  <1>10. Op(c) # "join" /\ call'[c].op # "join" /\ call'[c].at # "out"
    BY <1>2, <1>7 DEF SameWork, Op, FileOps
  <1> QED BY <1>4, <1>5, <1>6, <1>7, <1>8, <1>9, <1>10, WorkStep

\* A client takes the lock of its new symbolic link.
LEMMA LockLinkStep ==
  ASSUME YfsInv, NEW c \in Clients, LockLink(c)
  PROVE  YfsInv'
  <1>1. /\ Acquire(c, call[c].ino) /\ GoTo(c, "fill") /\ cacheVars' = cacheVars /\ At(c, "link")
        /\ "fill" \in DOMAIN OpsAt /\ call[c].ino \in Inums
    BY Points, Parts, CallTyped DEF LockLink, cacheVars
  <1>2. /\ call' \in [Clients -> CallRec]
        /\ call'[c].at = "fill" /\ call'[c].ino = call[c].ino
        /\ SameWork(c) /\ NewContents(c)' = NewContents(c)
        /\ \A d \in Clients \ {c} : call'[d] = call[d]
        /\ \A p : At(c, p)' <=> p = "fill"
    BY <1>1, Parts, GoToIs
  <1>3. /\ held' \in [Clients -> SUBSET Inums]
        /\ held'[c] = held[c] \cup {call[c].ino} /\ \A d \in Clients \ {c} : held'[d] = held[d]
        /\ \A d \in Clients : call[c].ino \notin held[d]
    BY <1>1, Parts, AcquireIs
  <1>4. /\ CacheTypes' /\ CacheInv' /\ rpc' = rpc /\ disk' = disk
        /\ \A f : Contents(f)' = Contents(f)
        /\ \A e : Cached(c, e)' <=> Cached(c, e)
        /\ owner_map' = owner_map
    BY <1>1, CacheSame
  <1>5. TypeOK'
    BY <1>2, <1>3, <1>4, Parts, TypesKept
  <1>6. Untouched(c)
    BY <1>1, <1>2, <1>3, UntouchedCache
  <1>7. /\ Op(c) = "symlink" /\ rpc[c].op = "none" /\ held[c] = {X(c)} /\ call[c].at = "link"
    BY <1>1, Parts, OpIs, RpcAt, HeldIs DEF At
  <1>8. Fine(c)
    <2>1. Phase(c)'
      BY <1>2, <1>4, <1>7, PhaseOf DEF Phase, AtCall, SameWork, OpsAt
    <2>2. Buffer(c)'
      BY <1>2 DEF Buffer, Holding, PutPending
    <2>3. Own(c)'
      <3>1. Filling(c) /\ Own(c)
        BY <1>7, Parts DEF Filling, OwnInv
      <3> QED BY <1>2, <1>4, <1>7, <3>1 DEF Own, PutPending, SameWork
    <2>4. held'[c] = LocksOf(c)'
      BY <1>2, <1>3, <1>7 DEF LocksOf, SameWork
    <2>5. \A d \in Clients \ {c} : held'[c] \cap held[d] = {}
      BY <1>3, Parts DEF LockInv
    <2> QED BY <2>1, <2>2, <2>3, <2>4, <2>5 DEF Fine
  <1>9. SameRole(c)
    BY <1>2, <1>7 DEF SameRole, SameWork, Making, Made, Filling, Unlinking, Leaving, PutPending, At
  <1>10. Op(c) # "join" /\ call'[c].op # "join" /\ call'[c].at # "out"
    BY <1>2, <1>7 DEF SameWork, Op
  <1> QED BY <1>4, <1>5, <1>6, <1>7, <1>8, <1>9, <1>10, WorkStep

\* What a call works on is not the inode it makes or removes.
LEMMA OwnApart ==
  ASSUME YfsInv, NEW c \in Clients, call[c].at \in {"removed", "filled"}
  PROVE  call[c].ino # X(c)
  <1>1. CASE At(c, "removed")
    BY <1>1, Parts, OpIs DEF OwnInv, Own, At
  <1>2. CASE At(c, "filled")
    <2>1. Op(c) = "symlink" /\ Made(c)
      BY <1>2, Parts, OpIs DEF Made, Makers, At
    <2>2. disk[call[c].ino].type = LinkType
      BY <2>1, Parts DEF ClaimInv
    <2>3. disk[X(c)].type = DirType
      BY <2>1, Parts DEF TargetInv
    <2> QED BY <2>2, <2>3, TypesAssumption
  <1> QED BY <1>1, <1>2 DEF At

\* A client releases the inode it has removed or filled.
LEMMA UnlockEntryStep ==
  ASSUME YfsInv, NEW c \in Clients, UnlockEntry(c)
  PROVE  YfsInv'
  <1> DEFINE at == IF At(c, "removed") THEN "put" ELSE "unlock"
  <1>1. /\ Release(c, call[c].ino) /\ GoTo(c, at) /\ cacheVars' = cacheVars
        /\ At(c, "removed") \/ At(c, "filled")
        /\ at \in DOMAIN OpsAt /\ call[c].ino \in Inums
        /\ At(c, "removed") => at = "put"
        /\ At(c, "filled") => at = "unlock"
    BY Points, Parts, CallTyped DEF UnlockEntry, cacheVars, At
  <1> HIDE DEF at
  <1>2. /\ call' \in [Clients -> CallRec]
        /\ call'[c].at = at /\ call'[c].ino = call[c].ino /\ call'[c].buf = call[c].buf
        /\ SameWork(c) /\ NewContents(c)' = NewContents(c)
        /\ \A d \in Clients \ {c} : call'[d] = call[d]
    BY <1>1, Parts, GoToIs
  <1>a. \A p : At(c, p)' <=> p = at
    BY <1>2 DEF At
  <1>3. /\ held' \in [Clients -> SUBSET Inums]
        /\ held'[c] = held[c] \ {call[c].ino} /\ \A d \in Clients \ {c} : held'[d] = held[d]
    BY <1>1, Parts, ReleaseIs
  <1>4. /\ CacheTypes' /\ CacheInv' /\ rpc' = rpc /\ disk' = disk /\ extent_map' = extent_map
        /\ \A f : Contents(f)' = Contents(f)
        /\ \A e : Cached(c, e)' <=> Cached(c, e)
        /\ owner_map' = owner_map
    BY <1>1, CacheSame
  <1>5. TypeOK'
    BY <1>2, <1>3, <1>4, Parts, TypesKept
  <1>6. Untouched(c)
    BY <1>1, <1>2, <1>3, UntouchedCache
  <1>7. /\ rpc[c].op = "none" /\ rpc[c].at = "none" /\ held[c] = {X(c), call[c].ino}
        /\ call[c].ino # X(c)
    BY <1>1, Parts, RpcAt, HeldIs, OwnApart, NoneIsNoCall DEF At
  <1>8. \A d \in Clients \ {c} : held'[c] \cap held[d] = {}
    BY <1>3, Parts DEF LockInv
  <1>9. CASE At(c, "removed")
    <2>1. Op(c) = "unlink" /\ at = "put" /\ call[c].at = "removed"
      BY <1>1, <1>9, Parts, OpIs DEF At
    <2>2. Fine(c)
      <3>1. Phase(c)'
        BY <1>2, <1>a, <1>4, <1>7, <2>1, PhaseOf DEF Phase, AtCall, SameWork, OpsAt, FileOps
      <3>2. Buffer(c)'
        <4>1. Holding(c) /\ Buffer(c)
          BY <2>1, Parts DEF Holding, BufInv
        <4>2. Cached(c, X(c)) /\ extent_map[c][X(c)].data = call[c].buf
                /\ Contents(X(c)) = call[c].buf
          BY <4>1 DEF Buffer
        <4> QED BY <1>2, <1>4, <4>2 DEF Buffer, SameWork, Cached
      <3>3. Own(c)'
        <4>1. Own(c)
          BY Parts DEF OwnInv
        <4> QED BY <1>2, <1>a, <2>1, <4>1 DEF Own, Filling, SameWork, Makers
      <3>4. held'[c] = LocksOf(c)'
        BY <1>2, <1>3, <1>7, <2>1 DEF LocksOf, SameWork
      <3> QED BY <1>8, <3>1, <3>2, <3>3, <3>4 DEF Fine
    <2>3. SameRole(c)
      BY <1>2, <1>a, <1>4, <1>7, <2>1 DEF SameRole, SameWork, Making, Made, Filling, Unlinking,
                                     Leaving, PutPending, At, Makers
    <2>4. Op(c) # "join" /\ call'[c].op # "join" /\ call'[c].at # "out"
      BY <1>2, <2>1 DEF SameWork, Op
    <2> QED BY <1>4, <1>5, <1>6, <2>1, <2>2, <2>3, <2>4, WorkStep
  <1>10. CASE At(c, "filled")
    <2>1. Op(c) = "symlink" /\ at = "unlock" /\ call[c].at = "filled"
      BY <1>1, <1>10, Parts, OpIs DEF At
    <2>2. Fine(c)
      <3>1. Phase(c)'
        BY <1>2, <1>a, <1>4, <1>7, <2>1, PhaseOf DEF Phase, AtCall, SameWork, OpsAt, FileOps
      <3>2. Buffer(c)' /\ Own(c)'
        BY <1>2, <1>a, <2>1 DEF Buffer, Holding, PutPending, Own, Filling, SameWork
      <3>4. held'[c] = LocksOf(c)'
        BY <1>2, <1>3, <1>7, <2>1 DEF LocksOf, SameWork
      <3> QED BY <1>8, <3>1, <3>2, <3>4 DEF Fine
    <2>3. SameRole(c)
      BY <1>2, <1>a, <1>4, <1>7, <2>1 DEF SameRole, SameWork, Making, Made, Filling, Unlinking,
                                     Leaving, PutPending, At, Makers
    <2>4. Op(c) # "join" /\ call'[c].op # "join" /\ call'[c].at # "out"
      BY <1>2, <2>1 DEF SameWork, Op
    <2> QED BY <1>4, <1>5, <1>6, <2>1, <2>2, <2>3, <2>4, WorkStep
  <1> QED BY <1>1, <1>9, <1>10

-----------------------------------------------------------------------------
(* Reading, making and removing                                            *)

\* Steps of c that change no cache but its own.
LEMMA UntouchedIf ==
  ASSUME YfsInv, NEW c \in Clients,
         \A d \in Clients \ {c} : call'[d] = call[d] /\ held'[d] = held[d] /\ rpc'[d] = rpc[d],
         \A d \in Clients \ {c}, f \in Inums : extent_map'[d][f] = extent_map[d][f],
         \A d \in Clients \ {c} : Holding(d) => Contents(X(d))' = Contents(X(d)),
         \A d \in Clients \ {c} : Filling(d) => owner_map'[call[d].ino] = owner_map[call[d].ino]
  PROVE  Untouched(c)
  <1>2. ASSUME NEW d \in Clients \ {c}, Holding(d)
        PROVE  /\ Cached(d, X(d))' /\ extent_map'[d][X(d)].data = extent_map[d][X(d)].data
               /\ Contents(X(d))' = Contents(X(d))
    <2>1. Cached(d, X(d)) /\ X(d) \in Inums
      BY <1>2, Parts, CallTyped DEF BufInv, Buffer
    <2>2. X(d)' = X(d)
      BY DEF X
    <2> QED BY <1>2, <2>1, <2>2 DEF Cached
  <1>3. ASSUME NEW d \in Clients \ {c}, Filling(d)
        PROVE  Cached(d, call[d].ino)' /\ owner_map'[call[d].ino] = owner_map[call[d].ino]
    <2>1. Cached(d, call[d].ino) /\ call[d].ino \in Inums
      BY <1>3, Parts, CallTyped DEF OwnInv, Own
    <2> QED BY <1>3, <2>1 DEF Cached
  <1> QED BY <1>2, <1>3 DEF Untouched

\* A client reads its inode from its cache, or asks for it.
LEMMA ReadStep ==
  ASSUME YfsInv, NEW c \in Clients, Read(c)
  PROVE  YfsInv'
  <1>1. /\ At(c, "read") /\ call[c].at = "read" /\ rpc[c] = NoCall /\ held' = held
        /\ X(c) \in Inums /\ "got" \in DOMAIN OpsAt
    BY Points, Parts, CallTyped DEF Read, At
  <1>2. /\ Op(c) \in FileOps /\ held[c] = {X(c)} /\ Op(c) # "none" /\ Op(c) # "join"
    BY <1>1, Parts, OpIs, HeldIs DEF At, FileOps
  <1>3. \A d \in Clients : ~Busy(d, X(c))
    BY <1>1, <1>2, HeldNotBusy
  <1>4. disk[X(c)].type # NoType
    BY <1>2, Parts DEF TargetInv
  <1>5. \A d \in Clients \ {c} : held'[c] \cap held[d] = {}
    BY <1>1, Parts DEF LockInv
  <1>6. held' \in [Clients -> SUBSET Inums]
    BY <1>1, Parts DEF TypeOK
  <1>7. CASE /\ Cached(c, X(c))
             /\ Set(c, [call[c] EXCEPT !.at = "got", !.buf = extent_map[c][X(c)].data])
             /\ UNCHANGED cacheVars
    <2>1. extent_map[c][X(c)].data \in Data
      <3>1. extent_map[c][X(c)] \in Copies
        BY <1>1, <1>7, Parts, Typed
      <3> QED BY <3>1 DEF Copies
    <2>2. PICK buf \in Data : buf = extent_map[c][X(c)].data
      BY <2>1
    <2>3. Set(c, [call[c] EXCEPT !.at = "got", !.buf = buf])
      BY <1>7, <2>2
    <2>4. /\ call' \in [Clients -> CallRec]
          /\ call'[c].at = "got" /\ call'[c].ino = call[c].ino /\ call'[c].buf = buf
          /\ Op(c)' = Op(c) /\ X(c)' = X(c) /\ Req(c)' = Req(c)
          /\ \A d \in Clients \ {c} : call'[d] = call[d]
          /\ \A p : At(c, p)' <=> p = "got"
      BY <1>1, <2>3, Parts, BufTo
    <2>5. cacheVars' = cacheVars
      BY <1>7 DEF cacheVars
    <2>6. /\ CacheTypes' /\ CacheInv' /\ rpc' = rpc /\ disk' = disk /\ extent_map' = extent_map
          /\ \A f : Contents(f)' = Contents(f)
          /\ \A e : Cached(c, e)' <=> Cached(c, e)
      BY <2>5, CacheSame
    <2>7. TypeOK'
      BY <1>6, <2>4, <2>6, Parts, TypesKept
    <2>8. Untouched(c)
      BY <1>1, <2>4, <2>5, UntouchedCache
    <2>9. Contents(X(c)) = extent_map[c][X(c)].data
      BY <1>1, <1>3, <1>7, Parts, ContentsSettled
    <2>10. Fine(c)
      <3>1. Phase(c)'
        BY <1>1, <1>2, <2>4, <2>6, PhaseOf, NoCallIs DEF Phase, AtCall, OpsAt
      <3>2. Buffer(c)'
        BY <1>7, <2>2, <2>4, <2>6, <2>9 DEF Buffer, Cached
      <3>3. Own(c)'
        BY <2>4 DEF Own, Filling, PutPending
      <3>4. held'[c] = LocksOf(c)'
        BY <1>1, <1>2, <2>4 DEF LocksOf
      <3> QED BY <1>5, <3>1, <3>2, <3>3, <3>4 DEF Fine
    <2>11. SameRole(c)
      BY <1>1, <2>4, <2>6 DEF SameRole, Making, Made, Filling, Unlinking, Leaving, PutPending, At
    <2>12. call'[c].op # "join" /\ call'[c].at # "out"
      BY <1>2, <2>4 DEF Op
    <2> QED BY <1>1, <1>2, <2>6, <2>7, <2>8, <2>10, <2>11, <2>12, WorkStep
  <1>8. CASE Pull(c, X(c)) /\ UNCHANGED call
    <2>1. call' = call /\ extent_map' = extent_map /\ Call(c, "get", X(c), <<>>, NoType)
      BY <1>8 DEF Pull
    <2>2. /\ owner_map' = owner_map /\ disk' = disk
          /\ \A d \in Clients \ {c} : rpc'[d] = rpc[d]
          /\ rpc'[c].op = "get" /\ rpc'[c].at = "request" /\ rpc'[c].eid = X(c)
      <3>1. PICK e \in Inums : e = X(c)
        BY <1>1
      <3>2. TypeOK /\ Call(c, "get", e, <<>>, NoType)
        BY <2>1, <3>1, Parts
      <3> QED BY <3>1, <3>2, CallIs
    <2>3. CacheInv' /\ \A f \in Inums : Contents(f)' = Contents(f)
      BY <1>1, <1>3, <1>4, <1>8, Parts, PullStep
    <2>4. TypeOK'
      <3>1. CacheTypes'
        BY <1>1, <1>8, Parts, TypesTwo, PullTypes
      <3>2. call' \in [Clients -> CallRec]
        BY <2>1, Parts DEF TypeOK, CallRec
      <3> QED BY <1>6, <3>1, <3>2, Parts, TypesKept
    <2>5. Untouched(c)
      <3>1. \A d \in Clients \ {c} : call'[d] = call[d] /\ held'[d] = held[d] /\ rpc'[d] = rpc[d]
        BY <1>1, <2>1, <2>2
      <3>2. \A d \in Clients \ {c}, f \in Inums : extent_map'[d][f] = extent_map[d][f]
        BY <2>1
      <3>3. \A d \in Clients \ {c} : Holding(d) => Contents(X(d))' = Contents(X(d))
        BY <2>1, <2>3, Parts, CallTyped DEF X
      <3> QED BY <2>2, <3>1, <3>2, <3>3, UntouchedIf
    <2>6. Op(c)' = Op(c) /\ X(c)' = X(c) /\ Req(c)' = Req(c) /\ (\A p : At(c, p)' <=> At(c, p))
      BY <2>1 DEF Op, X, Req, At
    <2>7. Fine(c)
      <3>1. Phase(c)'
        BY <1>1, <1>2, <2>1, <2>2, <2>6, PhaseOf DEF Phase, AtCall
      <3>2. Buffer(c)' /\ Own(c)'
        BY <1>1, <2>1, <2>6 DEF Buffer, Holding, Own, Filling, PutPending, At
      <3>3. held'[c] = LocksOf(c)'
        BY <1>1, <1>2, <2>1, <2>6 DEF LocksOf
      <3> QED BY <1>5, <3>1, <3>2, <3>3 DEF Fine
    <2>8. SameRole(c)
      BY <1>1, <2>1, <2>6 DEF SameRole, Making, Made, Filling, Unlinking, Leaving, PutPending, At
    <2>9. \A d \in Dirs : Contents(d)' = Contents(d)
      BY <2>3 DEF Dirs
    <2>10. call'[c].op # "join" /\ call'[c].at # "out"
      BY <1>1, <1>2, <2>1 DEF Op
    <2> QED BY <1>1, <1>2, <2>2, <2>3, <2>4, <2>5, <2>7, <2>8, <2>9, <2>10, WorkStep
  <1> QED BY <1>7, <1>8 DEF Read

\* kreate asks for a new inode.
LEMMA MakeStep ==
  ASSUME YfsInv, NEW c \in Clients, Make(c)
  PROVE  YfsInv'
  <1>1. /\ call[c].at = "got" /\ Op(c) \in Makers /\ ~Found(c) /\ held' = held
        /\ CallCreate(c, Req(c).type) /\ GoTo(c, "make") /\ "make" \in DOMAIN OpsAt
    BY Points DEF Make, At, Makers
  <1>2. Req(c).type \in Types
    <2>1. Op(c) = "create" => Req(c).type \in {FileType, DirType}
      BY <1>1, Parts, ReqTyped DEF FileOps
    <2>2. Op(c) = "symlink" => Req(c).type = LinkType
      BY <1>1, Parts, ReqTyped DEF FileOps
    <2> QED BY <1>1, <2>1, <2>2 DEF Makers, Types
  <1>3. /\ call' \in [Clients -> CallRec]
        /\ call'[c].at = "make" /\ call'[c].ino = call[c].ino /\ call'[c].buf = call[c].buf
        /\ SameWork(c)
        /\ \A d \in Clients \ {c} : call'[d] = call[d]
        /\ \A p : At(c, p)' <=> p = "make"
    BY <1>1, Parts, GoToIs
  <1>4. extent_map' = extent_map /\ Call(c, "create", Root, <<>>, Req(c).type)
    BY <1>1 DEF CallCreate
  <1>5. /\ rpc[c] = NoCall /\ owner_map' = owner_map /\ disk' = disk
        /\ \A d \in Clients \ {c} : rpc'[d] = rpc[d]
        /\ rpc'[c].op = "create" /\ rpc'[c].at = "request" /\ rpc'[c].type = Req(c).type
    <2>1. PICK type \in Types : type = Req(c).type
      BY <1>2
    <2>2. TypeOK /\ Call(c, "create", Root, <<>>, type) /\ Root \in Inums
      BY <1>4, <2>1, Parts, InumsAssumption
    <2> QED BY <2>1, <2>2, CallIs
  <1>6. CacheInv' /\ \A f \in Inums : Contents(f)' = Contents(f)
    BY <1>1, Parts, CallCreateStep
  <1>7. TypeOK'
    <2>1. CacheTypes'
      BY <1>1, <1>2, Parts, TypesTwo, CallCreateTypes
    <2>2. held' \in [Clients -> SUBSET Inums]
      BY <1>1, Parts DEF TypeOK
    <2> QED BY <1>3, <2>1, <2>2, Parts, TypesKept
  <1>8. Untouched(c)
    <2>1. \A d \in Clients \ {c} : call'[d] = call[d] /\ held'[d] = held[d] /\ rpc'[d] = rpc[d]
      BY <1>1, <1>3, <1>5
    <2>2. \A d \in Clients \ {c}, f \in Inums : extent_map'[d][f] = extent_map[d][f]
      BY <1>4
    <2>3. \A d \in Clients \ {c} : Holding(d) => Contents(X(d))' = Contents(X(d))
      <3>1. \A d \in Clients \ {c} : X(d)' = X(d)
        BY <1>3 DEF X
      <3> QED BY <1>6, <3>1, Parts, CallTyped
    <2> QED BY <1>5, <2>1, <2>2, <2>3, UntouchedIf
  <1>9. held[c] = {X(c)} /\ Op(c) # "join" /\ X(c) \in Inums
    BY <1>1, Parts, HeldIs, CallTyped DEF Makers
  <1>10. Fine(c)
    <2>1. Phase(c)'
      BY <1>1, <1>3, <1>5, PhaseOf DEF Phase, AtCall, SameWork, OpsAt, Makers, FileOps
    <2>2. Buffer(c)'
      <3>1. Holding(c) /\ Buffer(c)
        BY <1>1, Parts DEF Holding, BufInv
      <3>2. Cached(c, X(c)) /\ extent_map[c][X(c)].data = call[c].buf
              /\ Contents(X(c)) = call[c].buf
        BY <3>1 DEF Buffer
      <3>3. X(c)' = X(c)
        BY <1>3 DEF SameWork
      <3> QED BY <1>3, <1>4, <1>6, <1>9, <3>2, <3>3 DEF Buffer, Cached
    <2>3. Own(c)'
      BY <1>1, <1>3 DEF Own, SameWork, Filling, Makers
    <2>4. held'[c] = LocksOf(c)'
      BY <1>1, <1>3, <1>9 DEF LocksOf, SameWork
    <2>5. \A d \in Clients \ {c} : held'[c] \cap held[d] = {}
      BY <1>1, Parts DEF LockInv
    <2> QED BY <2>1, <2>2, <2>3, <2>4, <2>5 DEF Fine
  <1>11. SameRole(c)
    BY <1>1, <1>3, <1>5 DEF SameRole, SameWork, Making, Made, Filling, Unlinking, Leaving,
                            PutPending, At, Makers
  <1>12. call'[c].op # "join" /\ call'[c].at # "out"
    BY <1>3, <1>9 DEF SameWork, Op
  <1>13. \A d \in Dirs : Contents(d)' = Contents(d)
    BY <1>6 DEF Dirs
  <1> QED BY <1>1, <1>5, <1>6, <1>7, <1>8, <1>9, <1>10, <1>11, <1>12, <1>13, WorkStep

\* unlink asks to remove the inode.
LEMMA RemoveInodeStep ==
  ASSUME YfsInv, NEW c \in Clients, RemoveInode(c)
  PROVE  YfsInv'
  <1>1. /\ call[c].at = "remove" /\ Op(c) = "unlink" /\ held' = held /\ Unlinking(c)
        /\ CallRemove(c, call[c].ino) /\ GoTo(c, "removing") /\ "removing" \in DOMAIN OpsAt
    BY Points, Parts, OpIs DEF RemoveInode, At, Unlinking
  <1>2. PICK e \in Inums : e = call[c].ino
    BY Parts, CallTyped
  <1>3. /\ call' \in [Clients -> CallRec]
        /\ call'[c].at = "removing" /\ call'[c].ino = call[c].ino /\ call'[c].buf = call[c].buf
        /\ SameWork(c)
        /\ \A d \in Clients \ {c} : call'[d] = call[d]
        /\ \A p : At(c, p)' <=> p = "removing"
    BY <1>1, Parts, GoToIs
  <1>4. SetEntry(c, e, NoEntry) /\ Call(c, "remove", e, <<>>, NoType)
    BY <1>1, <1>2 DEF CallRemove
  <1>5. /\ rpc[c] = NoCall /\ owner_map' = owner_map /\ disk' = disk
        /\ \A d \in Clients \ {c} : rpc'[d] = rpc[d]
        /\ rpc'[c].op = "remove" /\ rpc'[c].at = "request" /\ rpc'[c].eid = e
    BY <1>4, Parts, CallIs
  <1>a. /\ \A f \in Inums \ {e} : extent_map'[c][f] = extent_map[c][f]
        /\ \A d \in Clients \ {c} : extent_map'[d] = extent_map[d]
    BY <1>4, Parts, SetEntryIs
  <1>b. /\ disk[e].type \notin {NoType, DirType} /\ \A d \in Clients : X(d) # e
        /\ \A d \in Clients : ~Busy(d, e)
    BY <1>1, <1>2, <1>5, Parts, HeldNotBusy DEF ClaimInv
  <1>6. CacheInv' /\ \A f \in Inums \ {e} : Contents(f)' = Contents(f)
    BY <1>1, <1>2, <1>b, Parts, CallRemoveStep
  <1>7. TypeOK'
    <2>1. CacheTypes'
      BY <1>1, <1>2, Parts, TypesTwo, CallRemoveTypes
    <2>2. held' \in [Clients -> SUBSET Inums]
      BY <1>1, Parts DEF TypeOK
    <2> QED BY <1>3, <2>1, <2>2, Parts, TypesKept
  <1>8. Untouched(c)
    <2>1. \A d \in Clients \ {c} : call'[d] = call[d] /\ held'[d] = held[d] /\ rpc'[d] = rpc[d]
      BY <1>1, <1>3, <1>5
    <2>2. \A d \in Clients \ {c}, f \in Inums : extent_map'[d][f] = extent_map[d][f]
      BY <1>a
    <2>3. \A d \in Clients \ {c} : Holding(d) => Contents(X(d))' = Contents(X(d))
      <3>1. \A d \in Clients \ {c} : X(d)' = X(d)
        BY <1>3 DEF X
      <3> QED BY <1>6, <1>b, <3>1, Parts, CallTyped
    <2> QED BY <1>5, <2>1, <2>2, <2>3, UntouchedIf
  <1>9. held[c] = {X(c), call[c].ino} /\ X(c) \in Inums
    BY <1>1, Parts, HeldIs, CallTyped
  <1>10. Fine(c)
    <2>1. Phase(c)'
      BY <1>1, <1>2, <1>3, <1>5, PhaseOf DEF Phase, AtCall, SameWork, OpsAt, FileOps
    <2>2. Buffer(c)'
      <3>1. Holding(c) /\ Buffer(c)
        BY <1>1, Parts DEF Holding, BufInv
      <3>2. Cached(c, X(c)) /\ extent_map[c][X(c)].data = call[c].buf
              /\ Contents(X(c)) = call[c].buf
        BY <3>1 DEF Buffer
      <3>3. X(c)' = X(c) /\ X(c) # e
        BY <1>3, <1>b DEF SameWork
      <3> QED BY <1>3, <1>a, <1>6, <1>9, <3>2, <3>3 DEF Buffer, Cached
    <2>3. Own(c)'
      <3>1. Own(c)
        BY Parts DEF OwnInv
      <3> QED BY <1>1, <1>3, <3>1 DEF Own, SameWork, Filling, Makers
    <2>4. held'[c] = LocksOf(c)'
      BY <1>1, <1>3, <1>9 DEF LocksOf, SameWork
    <2>5. \A d \in Clients \ {c} : held'[c] \cap held[d] = {}
      BY <1>1, Parts DEF LockInv
    <2> QED BY <2>1, <2>2, <2>3, <2>4, <2>5 DEF Fine
  <1>11. SameRole(c)
    BY <1>1, <1>3, <1>5 DEF SameRole, SameWork, Making, Made, Filling, Unlinking, Leaving,
                            PutPending, At, Makers
  <1>12. call'[c].op # "join" /\ call'[c].at # "out"
    BY <1>1, <1>3 DEF SameWork, Op
  <1>13. \A d \in Dirs : Contents(d)' = Contents(d)
    BY <1>6, <1>b DEF Dirs
  <1> QED BY <1>1, <1>5, <1>6, <1>7, <1>8, <1>10, <1>11, <1>12, <1>13, WorkStep

-----------------------------------------------------------------------------
(* New contents                                                            *)

\* New contents are data, those of a directory a list of entries.
LEMMA NewTyped ==
  ASSUME YfsInv, NEW c \in Clients, HasNewContents(c), rpc[c] = NoCall
  PROVE  /\ NewContents(c) \in Data
         /\ Op(c) \in Makers \cup {"unlink"} => PutPending(c) /\ NewContents(c) \in Seq(Entries)
  <1>1. Op(c) \in {"join", "create", "symlink", "unlink", "write", "setattr"}
          /\ (Op(c) \notin {"write", "setattr"} => PutPending(c))
    BY Parts, OpIs, NoCallIs DEF HasNewContents, At, PutPending, FileOps
  <1>2. CASE Op(c) = "join"
    BY <1>2, EmptyData DEF NewContents, Makers
  <1>3. CASE Op(c) \in Makers \cup {"unlink"}
    <2>1. PutPending(c) /\ Holding(c)
      BY <1>1, <1>3 DEF Holding, Makers
    <2>2. X(c) \in Dirs
      BY <1>3, TargetIsDir DEF Makers
    <2>3. call[c].buf \in Seq(Entries)
      BY <2>1, <2>2, DirBuf
    <2>4. CASE Op(c) \in Makers
      <3>1. [name |-> Req(c).name, inum |-> call[c].ino] \in Entries
        BY <2>4, Parts, ReqTyped, CallTyped DEF Entries, Makers, FileOps
      <3>2. NewContents(c) = Append(call[c].buf, [name |-> Req(c).name, inum |-> call[c].ino])
        BY <2>4 DEF NewContents, Makers
      <3>3. NewContents(c) \in Seq(Entries)
        BY <2>3, <3>1, <3>2
      <3> QED BY <2>1, <3>3 DEF Data
    <2>5. CASE Op(c) = "unlink"
      <3>1. Found(c)
        BY <2>1, <2>5, Parts DEF OwnInv, Own, PutPending, At
      <3>2. Position(c) \in 1..Len(call[c].buf)
        BY <2>3, <3>1, FoundIs
      <3>3. NewContents(c) = RemoveAt(call[c].buf, Position(c))
        BY <2>5 DEF NewContents
      <3>4. NewContents(c) \in Seq(Entries)
        BY <2>3, <3>2, <3>3, SubSeqIn
      <3> QED BY <2>1, <3>4 DEF Data
    <2> QED BY <1>3, <2>4, <2>5
  <1>4. CASE Op(c) = "write"
    <2>1. Req(c).off \in 0..(MaxFile - 1) /\ Req(c).val \in Values
      BY <1>4, Parts, ReqTyped DEF FileOps
    <2>2. call[c].buf \in Seq(Entries \cup Units)
      BY Parts, CallTyped DEF Data
    <2>3. PICK n \in Nat : n = IF Req(c).off < Len(call[c].buf) THEN Len(call[c].buf)
                                                              ELSE Req(c).off + 1
      BY <2>1, <2>2, RequestsAssumption
    <2>4. NewContents(c) =
            [k \in 1..n |-> IF k = Req(c).off + 1 THEN Req(c).val
                            ELSE IF k <= Len(call[c].buf) THEN call[c].buf[k] ELSE Nul]
      BY <1>4, <2>3 DEF NewContents, Written
    <2>5. NewContents(c) \in [1..n -> Entries \cup Units]
      BY <2>1, <2>2, <2>4 DEF Units
    <2> QED BY <1>4, <2>5 DEF Data, Makers
  <1>5. CASE Op(c) = "setattr"
    <2>1. Req(c).size \in 0..MaxFile
      BY <1>5, Parts, ReqTyped DEF FileOps
    <2>2. call[c].buf \in Seq(Entries \cup Units)
      BY Parts, CallTyped DEF Data
    <2>3. PICK n \in Nat : n = Req(c).size
      BY <2>1, RequestsAssumption
    <2>4. NewContents(c) =
            [k \in 1..n |-> IF k <= Len(call[c].buf) THEN call[c].buf[k] ELSE Nul]
      BY <1>5, <2>3 DEF NewContents, Resized
    <2>5. NewContents(c) \in [1..n -> Entries \cup Units]
      BY <2>2, <2>4 DEF Units
    <2> QED BY <1>5, <2>5 DEF Data, Makers
  <1> QED BY <1>1, <1>2, <1>3, <1>4, <1>5 DEF Makers

\* A client that starts is the only one with a call to the server.
LEMMA StartAlone ==
  ASSUME YfsInv, NEW c \in Clients, Op(c) = "join"
  PROVE  /\ X(c) = Root /\ Starting
         /\ \A d \in Clients \ {c} : rpc[d] = NoCall /\ call[d].at \in {"out", "user"}
  <1>1. X(c) = Root /\ Starting
    BY PhaseOf DEF Starting
  <1>2. ASSUME NEW d \in Clients \ {c} PROVE rpc[d] = NoCall /\ call[d].at \in {"out", "user"}
    <2>1. Op(d) # "join"
      BY <1>1, Parts DEF StartInv
    <2>2. call[d].at \in {"out", "user"}
      BY <1>1, <2>1, Parts DEF StartInv
    <2>3. rpc[d].op = "none"
      BY <2>2, Parts, RpcAt
    <2> QED BY <2>2, <2>3, Parts, NoneIsNoCall
  <1> QED BY <1>1, <1>2

\* A client that puts is alone with its inode.
LEMMA PutAlone ==
  ASSUME YfsInv, NEW c \in Clients, HasNewContents(c), rpc[c] = NoCall
  PROVE  /\ \A d \in Clients : ~Busy(d, X(c))
         /\ disk[X(c)].type # NoType
         /\ Op(c) # "join" => held[c] = {X(c)} /\ Holding(c)
         /\ Op(c) # "none" /\ call[c].at \notin {"out", "user"}
         /\ \A d \in Clients \ {c} : Holding(d) => X(d) # X(c)
         /\ \A d \in Clients : Filling(d) => call[d].ino # X(c)
  <1>1. /\ Op(c) # "none" /\ call[c].at \notin {"out", "user"}
        /\ Op(c) # "join" => held[c] = {X(c)} /\ Holding(c)
    BY Parts, OpIs, HeldIs, NoCallIs DEF HasNewContents, At, Holding, PutPending, FileOps
  <1>2. disk[X(c)].type # NoType
    BY <1>1, Parts DEF TargetInv
  <1>3. \A d \in Clients : ~Busy(d, X(c))
    <2>1. CASE Op(c) = "join"
      <3>1. \A d \in Clients : rpc[d] = NoCall
        BY <2>1, StartAlone
      <3> QED BY <3>1, NoCallNotBusy
    <2>2. CASE Op(c) # "join"
      <3>1. X(c) \in Inums /\ X(c) \in held[c]
        BY <1>1, <2>2, Parts, CallTyped
      <3> QED BY <3>1, HeldNotBusy
    <2> QED BY <2>1, <2>2
  <1>4. ASSUME NEW d \in Clients \ {c}, Holding(d) PROVE X(d) # X(c)
    <2>1. CASE Op(c) = "join"
      BY <1>4, <2>1, StartAlone DEF Holding, PutPending, At
    <2>2. CASE Op(c) # "join"
      <3>1. X(d) \in held[d]
        BY <1>4, Parts, HeldIs DEF Holding, PutPending, At
      <3>2. held[c] = {X(c)}
        BY <1>1, <2>2
      <3> QED BY <3>1, <3>2, Parts DEF LockInv
    <2> QED BY <2>1, <2>2
  <1>5. \A d \in Clients : Filling(d) => call[d].ino # X(c)
    BY Parts DEF ClaimInv
  <1> QED BY <1>1, <1>2, <1>3, <1>4, <1>5

\* What a put to the only copy changes.
LEMMA PutLocalIs ==
  ASSUME TypeOK, NEW c \in Clients, NEW e \in Inums, NEW data, PutLocal(c, e, data)
  PROVE  /\ rpc[c] = NoCall /\ rpc' = rpc /\ owner_map' = owner_map /\ disk' = disk
         /\ Cached(c, e) /\ extent_map[c][e].status # "SHARED"
         /\ \A f \in Inums \ {e} : extent_map'[c][f] = extent_map[c][f]
         /\ \A d \in Clients \ {c} : extent_map'[d] = extent_map[d]
  <1>1. SetEntry(c, e, Entry(data, extent_map[c][e].type, "MODIFIED"))
    BY DEF PutLocal
  <1>2. \A x : SetEntry(c, e, x) =>
          /\ \A f \in Inums \ {e} : extent_map'[c][f] = extent_map[c][f]
          /\ \A d \in Clients \ {c} : extent_map'[d] = extent_map[d]
    BY SetEntryIs
  <1> QED BY <1>1, <1>2 DEF PutLocal

\* symlink puts the text of the link, to the only copy of it.
LEMMA FillStep ==
  ASSUME YfsInv, NEW c \in Clients, Fill(c)
  PROVE  YfsInv'
  <1>1. call[c].at = "fill" /\ Op(c) = "symlink" /\ held' = held /\ Filling(c)
    BY Parts, OpIs DEF Fill, At, Filling
  <1>2. PICK e \in Inums : e = call[c].ino
    BY Parts, CallTyped
  <1>3. Cached(c, e) /\ owner_map[e] = <<c>> /\ \A d \in Clients : X(d) # e
    BY <1>1, <1>2, Parts DEF OwnInv, Own, ClaimInv
  <1>4. rpc[c] = NoCall
    BY <1>1, Parts, RpcAt, NoneIsNoCall
  <1>5. \A d \in Clients : ~Busy(d, e)
    BY <1>1, <1>2, <1>4, HeldNotBusy
  <1>6. extent_map[c][e].status # "SHARED"
    <2>1. Settled(e)
      BY <1>5, Parts, ContentsSettled
    <2> QED BY <1>3, <2>1 DEF Settled, Holders
  <1>7. PICK data \in Data : data = Req(c).text
    <2>1. Req(c).text \in Texts
      BY <1>1, Parts, ReqTyped DEF FileOps
    <2>2. Texts \subseteq Data
      BY RequestsAssumption DEF Texts, Data
    <2> QED BY <2>1, <2>2
  <1>8. PutLocal(c, e, data) /\ GoTo(c, "filled") /\ "filled" \in DOMAIN OpsAt
    BY <1>2, <1>3, <1>6, <1>7, Points DEF Fill, PutThrough
  <1>9. /\ call' \in [Clients -> CallRec]
        /\ call'[c].at = "filled" /\ call'[c].ino = call[c].ino /\ call'[c].buf = call[c].buf
        /\ SameWork(c) /\ NewContents(c)' = NewContents(c)
        /\ \A d \in Clients \ {c} : call'[d] = call[d]
        /\ \A p : At(c, p)' <=> p = "filled"
    BY <1>8, Parts, GoToIs
  <1>10. /\ rpc' = rpc /\ owner_map' = owner_map /\ disk' = disk
         /\ \A f \in Inums \ {e} : extent_map'[c][f] = extent_map[c][f]
         /\ \A d \in Clients \ {c} : extent_map'[d] = extent_map[d]
    BY <1>8, Parts, PutLocalIs
  <1>11. CacheInv' /\ \A f \in Inums \ {e} : Contents(f)' = Contents(f)
    BY <1>5, <1>8, Parts, PutLocalStep
  <1>12. TypeOK'
    <2>1. CacheTypes'
      BY <1>8, Parts, TypesTwo, PutLocalTypes
    <2>2. held' \in [Clients -> SUBSET Inums]
      BY <1>1, Parts DEF TypeOK
    <2> QED BY <1>9, <2>1, <2>2, Parts, TypesKept
  <1>13. Untouched(c)
    <2>1. \A d \in Clients \ {c} : call'[d] = call[d] /\ held'[d] = held[d] /\ rpc'[d] = rpc[d]
      BY <1>1, <1>9, <1>10
    <2>2. \A d \in Clients \ {c}, f \in Inums : extent_map'[d][f] = extent_map[d][f]
      BY <1>10
    <2>3. \A d \in Clients \ {c} : Holding(d) => Contents(X(d))' = Contents(X(d))
      <3>1. \A d \in Clients \ {c} : X(d)' = X(d)
        BY <1>9 DEF X
      <3> QED BY <1>3, <1>11, <3>1, Parts, CallTyped
    <2> QED BY <1>10, <2>1, <2>2, <2>3, UntouchedIf
  <1>14. held[c] = {X(c), call[c].ino}
    BY <1>1, Parts, HeldIs
  <1>15. Fine(c)
    <2>1. Phase(c)'
      BY <1>1, <1>4, <1>9, <1>10, PhaseOf, NoCallIs DEF Phase, AtCall, SameWork, OpsAt, FileOps
    <2>2. Buffer(c)' /\ Own(c)'
      BY <1>1, <1>9 DEF Buffer, Holding, PutPending, Own, Filling, SameWork
    <2>3. held'[c] = LocksOf(c)'
      BY <1>1, <1>9, <1>14 DEF LocksOf, SameWork
    <2>4. \A d \in Clients \ {c} : held'[c] \cap held[d] = {}
      BY <1>1, Parts DEF LockInv
    <2> QED BY <2>1, <2>2, <2>3, <2>4 DEF Fine
  <1>16. SameRole(c)
    BY <1>1, <1>9, <1>10 DEF SameRole, SameWork, Making, Made, Filling, Unlinking, Leaving,
                             PutPending, At
  <1>17. Op(c) # "join" /\ call'[c].op # "join" /\ call'[c].at # "out"
    BY <1>1, <1>9 DEF SameWork, Op
  <1>18. \A d \in Dirs : Contents(d)' = Contents(d)
    <2>1. disk[e].type = LinkType
      BY <1>1, <1>2, Parts DEF ClaimInv, Made, Makers
    <2> QED BY <1>11, <2>1, TypesAssumption DEF Dirs
  <1> QED BY <1>1, <1>10, <1>11, <1>12, <1>13, <1>15, <1>16, <1>17, <1>18, WorkStep

\* What a put that is sent changes.
LEMMA PutThroughIs ==
  ASSUME YfsInv, NEW c \in Clients, HasNewContents(c), NEW e \in Inums, e = X(c),
         NEW data \in Data, data = NewContents(c),
         PutThrough(c, e, data), GoTo(c, "put"), held' = held
  PROVE  /\ rpc[c] = NoCall /\ owner_map' = owner_map /\ disk' = disk
         /\ \A d \in Clients \ {c} : rpc'[d] = rpc[d]
         /\ rpc'[c].op = "put" /\ rpc'[c].at = "request" /\ rpc'[c].eid = e
         /\ rpc'[c].data = data
         /\ CacheInv' /\ TypeOK'
         /\ \A f \in Inums : Contents(f)' = Contents(f)
         /\ Cached(c, e) => extent_map' = extent_map
         /\ ~Cached(c, e) => extent_map'[c][e] = Entry(<<>>, NoType, "EXCLUSIVE")
         /\ \A d \in Clients, f \in Inums :
              d # c \/ f # e => extent_map'[d][f] = extent_map[d][f]
         /\ Untouched(c)
         /\ call'[c].at = "put" /\ call'[c].ino = call[c].ino /\ call'[c].buf = call[c].buf
         /\ SameWork(c) /\ NewContents(c)' = NewContents(c)
         /\ \A d \in Clients \ {c} : call'[d] = call[d]
         /\ \A p : At(c, p)' <=> p = "put"
  <1>1. Call(c, "put", e, data, NoType) /\ "put" \in DOMAIN OpsAt
    BY Points DEF PutThrough
  <1>2. /\ rpc[c] = NoCall /\ owner_map' = owner_map /\ disk' = disk
        /\ \A d \in Clients \ {c} : rpc'[d] = rpc[d]
        /\ rpc'[c].op = "put" /\ rpc'[c].at = "request" /\ rpc'[c].eid = e
        /\ rpc'[c].data = data
    BY <1>1, Parts, CallIs
  <1>3. /\ call' \in [Clients -> CallRec]
        /\ call'[c].at = "put" /\ call'[c].ino = call[c].ino /\ call'[c].buf = call[c].buf
        /\ SameWork(c) /\ NewContents(c)' = NewContents(c)
        /\ \A d \in Clients \ {c} : call'[d] = call[d]
        /\ \A p : At(c, p)' <=> p = "put"
    BY <1>1, Parts, GoToIs
  <1>4. (\A d \in Clients : ~Busy(d, e)) /\ disk[e].type # NoType
    BY <1>2, PutAlone
  <1>5. /\ CacheInv'
        /\ \A f \in Inums : Contents(f)' = Contents(f)
        /\ Cached(c, e) => extent_map' = extent_map
        /\ ~Cached(c, e) => extent_map'[c][e] = Entry(<<>>, NoType, "EXCLUSIVE")
        /\ \A d \in Clients, f \in Inums :
             d # c \/ f # e => extent_map'[d][f] = extent_map[d][f]
    BY <1>4, Parts, PutThroughStep
  <1>6. TypeOK'
    <2>1. CacheTypes'
      BY Parts, TypesTwo, PutThroughTypes
    <2>2. held' \in [Clients -> SUBSET Inums]
      BY Parts DEF TypeOK
    <2> QED BY <1>3, <2>1, <2>2, Parts, TypesKept
  <1>7. Untouched(c)
    <2>1. \A d \in Clients \ {c} : call'[d] = call[d] /\ held'[d] = held[d] /\ rpc'[d] = rpc[d]
      BY <1>2, <1>3
    <2>2. \A d \in Clients \ {c}, f \in Inums : extent_map'[d][f] = extent_map[d][f]
      BY <1>5
    <2>3. \A d \in Clients \ {c} : Holding(d) => Contents(X(d))' = Contents(X(d))
      <3>1. \A d \in Clients \ {c} : X(d)' = X(d)
        BY <1>3 DEF X
      <3> QED BY <1>5, <3>1, Parts, CallTyped
    <2> QED BY <1>2, <2>1, <2>2, <2>3, UntouchedIf
  <1> QED BY <1>2, <1>3, <1>5, <1>6, <1>7

\* A put that is sent changes no contents yet.
LEMMA PutThroughQuiet ==
  ASSUME YfsInv, NEW c \in Clients, HasNewContents(c), NEW e \in Inums, e = X(c),
         NEW data \in Data, data = NewContents(c), Op(c) # "join",
         PutThrough(c, e, data), GoTo(c, "put"), held' = held
  PROVE  YfsInv'
  <1>1. /\ rpc[c] = NoCall /\ owner_map' = owner_map /\ disk' = disk
        /\ \A d \in Clients \ {c} : rpc'[d] = rpc[d]
        /\ rpc'[c].op = "put" /\ rpc'[c].at = "request" /\ rpc'[c].eid = e
        /\ rpc'[c].data = data
        /\ CacheInv' /\ TypeOK'
        /\ \A f \in Inums : Contents(f)' = Contents(f)
        /\ Cached(c, e) => extent_map' = extent_map
        /\ Untouched(c)
        /\ call'[c].at = "put" /\ call'[c].ino = call[c].ino /\ call'[c].buf = call[c].buf
        /\ SameWork(c) /\ NewContents(c)' = NewContents(c)
        /\ \A d \in Clients \ {c} : call'[d] = call[d]
        /\ \A p : At(c, p)' <=> p = "put"
    BY PutThroughIs
  <1>2. /\ held[c] = {X(c)} /\ Holding(c) /\ call[c].at \notin {"out", "user"}
    BY <1>1, PutAlone
  <1>3. /\ Cached(c, X(c)) /\ extent_map[c][X(c)].data = call[c].buf
        /\ Contents(X(c)) = call[c].buf
    BY <1>2, Parts DEF BufInv, Buffer
  <1>4. extent_map' = extent_map
    BY <1>1, <1>3
  <1>5. Op(c) \in {"create", "symlink", "unlink", "write", "setattr"}
          /\ (call[c].at = "put" \/ (call[c].at = "got" /\ Op(c) \in {"write", "setattr"}))
    BY Parts, OpIs DEF HasNewContents, At, FileOps
  <1>6. Fine(c)
    <2>1. Phase(c)'
      BY <1>1, <1>5, PhaseOf DEF Phase, AtCall, SameWork, OpsAt, FileOps
    <2>2. Buffer(c)'
      BY <1>1, <1>3, <1>4 DEF Buffer, SameWork, Cached
    <2>3. Own(c)'
      <3>1. Own(c) /\ (Filling(c)' <=> Filling(c)) /\ Op(c)' = Op(c) /\ X(c)' = X(c)
        BY <1>1, <1>5, Parts DEF OwnInv, Filling, SameWork, At
      <3>2. (Op(c) \in Makers => PutPending(c)) /\ (Op(c) = "unlink" => At(c, "put"))
        BY <1>1, <1>5, NoCallIs DEF PutPending, Makers, At
      <3>3. Filling(c) => Cached(c, call[c].ino)' /\ owner_map'[call[c].ino] = <<c>>
        BY <1>1, <1>4, <3>1 DEF Own, Cached
      <3>4. /\ (Op(c) \in Makers => ~Found(c))
            /\ Op(c) = "unlink" => Found(c) /\ call[c].ino = FoundInum(c) /\ call[c].ino # X(c)
        BY <3>1, <3>2 DEF Own, At
      <3> QED BY <1>1, <3>1, <3>3, <3>4 DEF Own, SameWork
    <2>4. held'[c] = LocksOf(c)'
      BY <1>1, <1>2, <1>5 DEF LocksOf, SameWork
    <2>5. \A d \in Clients \ {c} : held'[c] \cap held[d] = {}
      BY Parts DEF LockInv
    <2> QED BY <2>1, <2>2, <2>3, <2>4, <2>5 DEF Fine
  <1>7. SameRole(c)
    BY <1>1, <1>5, NoCallIs DEF SameRole, SameWork, Making, Made, Filling, Unlinking, Leaving,
                         PutPending, NewInum, At, Makers
  <1>8. call'[c].op # "join" /\ call'[c].at # "out"
    BY <1>1 DEF SameWork, Op
  <1>9. \A d \in Dirs : Contents(d)' = Contents(d)
    BY <1>1 DEF Dirs
  <1> QED BY <1>1, <1>2, <1>6, <1>7, <1>8, <1>9, WorkStep

-----------------------------------------------------------------------------
(* Directories                                                             *)

\* The parts of the invariant after a step of c.
LEMMA StepParts ==
  ASSUME YfsInv, NEW c \in Clients, TypeOK', CacheInv', Untouched(c), Fine(c),
         StartInv', TargetInv', TreeInv', ClaimInv'
  PROVE  YfsInv'
  <1>1. PhaseInv' /\ LockInv' /\ BufInv' /\ OwnInv'
    <2>1. \A d \in Clients \ {c} : call'[d] = call[d] /\ held'[d] = held[d] /\ rpc'[d] = rpc[d]
      BY DEF Untouched
    <2>2. \A d \in Clients \ {c} : Holding(d) =>
           /\ Cached(d, X(d))' /\ extent_map'[d][X(d)].data = extent_map[d][X(d)].data
           /\ Contents(X(d))' = Contents(X(d))
      BY DEF Untouched
    <2>3. \A d \in Clients \ {c} : Filling(d) =>
           Cached(d, call[d].ino)' /\ owner_map'[call[d].ino] = owner_map[call[d].ino]
      BY DEF Untouched
    <2>4. Phase(c)' /\ Buffer(c)' /\ Own(c)' /\ held'[c] = LocksOf(c)'
      BY DEF Fine
    <2>5. \A d \in Clients \ {c} : held'[c] \cap held[d] = {}
      BY DEF Fine
    <2> QED BY <2>1, <2>2, <2>3, <2>4, <2>5, Frame
  <1> QED BY <1>1 DEF YfsInv

\* c has put a directory: it is the only one to have changed.
DirPut(c) ==
  /\ \A i \in Inums : disk'[i].type = disk[i].type
  /\ Contents(X(c))' = NewContents(c)
  /\ \A f \in Dirs \ {X(c)} : Contents(f)' = Contents(f)
  /\ \A d \in Clients \ {c} : call'[d] = call[d] /\ rpc'[d] = rpc[d]
  /\ Op(c)' = Op(c) /\ X(c)' = X(c) /\ Req(c)' = Req(c) /\ call'[c].ino = call[c].ino
  /\ ~Making(c)' /\ ~Unlinking(c)' /\ ~Leaving(c)' /\ (Filling(c)' => Filling(c))
  /\ Made(c)' <=> Op(c) \in Makers

\* A new list of entries changes nobody's target and role but the writer's.
LEMMA DirPutTarget ==
  ASSUME YfsInv, NEW c \in Clients, DirPut(c)
  PROVE  /\ TargetInv' /\ Dirs' = Dirs /\ Root \in Inums
         /\ \A d \in Clients : X(d)' = X(d) /\ call'[d].ino = call[d].ino
         /\ \A d \in Clients : Filling(d)' => Filling(d)
         /\ \A d \in Clients \ {c} :
              /\ Op(d)' = Op(d) /\ Req(d)' = Req(d)
              /\ Making(d)' <=> Making(d)
              /\ NewInum(d)' = NewInum(d)
              /\ Made(d)' <=> Made(d)
              /\ Unlinking(d)' <=> Unlinking(d)
              /\ Leaving(d)' <=> Leaving(d)
  <1>1. \A d \in Clients \ {c} :
          /\ Op(d)' = Op(d) /\ Req(d)' = Req(d) /\ X(d)' = X(d)
          /\ Making(d)' <=> Making(d)
          /\ NewInum(d)' = NewInum(d)
          /\ Made(d)' <=> Made(d)
          /\ Unlinking(d)' <=> Unlinking(d)
          /\ Leaving(d)' <=> Leaving(d)
          /\ Filling(d)' <=> Filling(d)
          /\ call'[d].ino = call[d].ino
    BY SameClient DEF DirPut
  <1>2. \A d \in Clients : X(d)' = X(d) /\ Op(d)' = Op(d) /\ Req(d)' = Req(d)
                             /\ call'[d].ino = call[d].ino /\ (Filling(d)' => Filling(d))
    BY <1>1 DEF DirPut
  <1>3. Dirs' = Dirs /\ Root \in Inums
    BY InumsAssumption DEF Dirs, DirPut
  <1>4. TargetInv'
    BY <1>2, <1>3, Parts, CallTyped DEF TargetInv, DirPut
  <1> QED BY <1>1, <1>2, <1>3, <1>4

\* A new name leads to the inode its writer has made.
LEMMA DirPutMake ==
  ASSUME YfsInv, NEW c \in Clients, DirPut(c), PutPending(c), Op(c) \in Makers
  PROVE  TargetInv' /\ TreeInv' /\ ClaimInv'
  <1> DEFINE i0 == call[c].ino
             new == [name |-> Req(c).name, inum |-> i0]
             buf == call[c].buf
  <1>1. /\ X(c) \in Dirs /\ Holding(c) /\ Making(c) /\ NewInum(c) = i0 /\ Claims(c, i0)
        /\ i0 \in Inums
    BY Parts, CallTyped, TargetIsDir DEF Makers, Holding, PutPending, Making, NewInum, At, Claims
  <1>2. Contents(X(c)) = buf /\ buf \in Seq(Entries) /\ X(c) \in held[c]
    BY <1>1, DirBuf
  <1>3. Contents(X(c))' = Append(buf, new)
    BY DEF DirPut, NewContents, Makers
  <1>4. /\ disk[i0].type = Req(c).type
        /\ \A d \in Dirs : InDir(d, i0) => Stale(d, i0)
        /\ \A d \in Clients : X(d) # i0
        /\ \A d \in Clients \ {c} : Making(d) => NewInum(d) # i0
    BY <1>1, Parts DEF ClaimInv
  <1>5. ~Leaving(c) /\ ~Made(c)
    BY <1>1 DEF Leaving, Makers, Made, PutPending, At
  <1>6. \A i : ~Stale(X(c), i)
    BY <1>2, <1>5, Parts, StaleMine
  <1>7. ~InDir(X(c), i0) /\ i0 # Root
    BY <1>1, <1>4, <1>5, <1>6, ClaimsFree
  <1>8. new \in Entries
    BY <1>1, Parts, ReqTyped DEF Entries, Makers, FileOps
  <1>9. Append(buf, new) \in Seq(Entries) /\ Len(Append(buf, new)) = Len(buf) + 1
          /\ (\A k \in 1..Len(buf) : Append(buf, new)[k] = buf[k])
          /\ Append(buf, new)[Len(buf) + 1] = new /\ Len(buf) \in Nat
    BY <1>2, <1>8
  <1>10. \A k \in 1..Len(buf) : buf[k].name # new.name /\ buf[k].inum # new.inum
    <2>1. ~Found(c)
      BY <1>1, Parts DEF OwnInv, Own
    <2>2. \A k \in 1..Len(buf) : buf[k].name # Req(c).name
      BY <2>1 DEF Found, Positions
    <2>3. \A k \in 1..Len(buf) : buf[k].inum # i0
      BY <1>2, <1>7 DEF InDir
    <2> QED BY <2>2, <2>3
  <1>11. new.inum = i0 /\ new.name = Req(c).name
    OBVIOUS
  <1> HIDE DEF new
  <1>12. \A i : InDir(X(c), i)' <=> InDir(X(c), i) \/ i = i0
    <2>1. \A i : InDir(X(c), i)' <=> \E k \in 1..(Len(buf) + 1) : Append(buf, new)[k].inum = i
      BY <1>3, <1>9 DEF InDir, DirPut
    <2>2. \A i : InDir(X(c), i) <=> \E k \in 1..Len(buf) : buf[k].inum = i
      BY <1>2 DEF InDir
    <2> HIDE DEF buf
    <2>3. \A k \in 1..(Len(buf) + 1) : k \in 1..Len(buf) \/ k = Len(buf) + 1
      BY <1>9
    <2>4. Len(buf) + 1 \in 1..(Len(buf) + 1) /\ 1..Len(buf) \subseteq 1..(Len(buf) + 1)
      BY <1>9
    <2> QED BY <1>9, <1>11, <2>1, <2>2, <2>3, <2>4
  <1>13. \A d \in Dirs \ {X(c)} : Contents(d)' = Contents(d) /\ \A i : InDir(d, i)' <=> InDir(d, i)
    BY DEF DirPut, InDir
  <1>14. \A d, i : Stale(d, i)' <=> Stale(d, i)
    BY <1>5, DirPutTarget DEF Stale, DirPut
  <1>15. Dirs' = Dirs /\ TargetInv' /\ \A i \in Inums : disk'[i].type = disk[i].type
    BY DirPutTarget DEF DirPut
  <1>16. TreeInv'
    <2>1. ASSUME NEW d \in Dirs
          PROVE  /\ Contents(d)' \in Seq(Entries)
                 /\ ~InDir(d, Root)'
                 /\ \A j, k \in 1..Len(Contents(d)') : j # k =>
                      /\ Contents(d)'[j].name # Contents(d)'[k].name
                      /\ Contents(d)'[j].inum # Contents(d)'[k].inum
                 /\ \A k \in 1..Len(Contents(d)') :
                      ~Stale(d, Contents(d)[k].inum)' =>
                        /\ disk'[Contents(d)'[k].inum].type # NoType
                        /\ disk'[Contents(d)'[k].inum].type = DirType =>
                             d = Root /\ Contents(d)'[k].name \in DirNames
      <3>1. Contents(d) \in Seq(Entries) /\ ~InDir(d, Root)
              /\ \A j, k \in 1..Len(Contents(d)) : j # k =>
                      /\ Contents(d)[j].name # Contents(d)[k].name
                      /\ Contents(d)[j].inum # Contents(d)[k].inum
        BY Parts DEF TreeInv
      <3>2. ASSUME NEW k \in 1..Len(Contents(d)), ~Stale(d, Contents(d)[k].inum)
            PROVE  /\ disk'[Contents(d)[k].inum].type # NoType
                   /\ disk'[Contents(d)[k].inum].type = DirType =>
                             d = Root /\ Contents(d)[k].name \in DirNames
        <4>1. Contents(d)[k].inum \in Inums
          <5>1. Contents(d)[k] \in Entries
            BY <3>1
          <5> QED BY <5>1 DEF Entries
        <4> QED BY <1>15, <3>2, <4>1, Parts DEF TreeInv
      <3>3. CASE d # X(c)
        <4>1. Contents(d)' = Contents(d) /\ ~InDir(d, Root)'
          BY <1>13, <3>1, <3>3
        <4> QED BY <1>14, <3>1, <3>2, <4>1
      <3>4. CASE d = X(c)
        <4> DEFINE s == Append(buf, new)
        <4>1. Contents(d)' = s
          BY <1>3, <3>4 DEF DirPut
        <4>2. ~InDir(d, Root)'
          BY <1>7, <1>12, <3>1, <3>4 DEF DirPut
        <4>3. \A j, k \in 1..Len(buf) : j # k =>
                s[j].name # s[k].name /\ s[j].inum # s[k].inum
          BY <1>2, <1>9, <3>1, <3>4
        <4>4. \A k \in 1..Len(buf) : s[k].name # s[Len(buf) + 1].name
                                       /\ s[k].inum # s[Len(buf) + 1].inum
          BY <1>9, <1>10
        <4>5. \A k \in 1..Len(s) : k \in 1..Len(buf) \/ k = Len(buf) + 1
          BY <1>9
        <4>6. \A j, k \in 1..Len(s) : j # k => s[j].name # s[k].name /\ s[j].inum # s[k].inum
          BY <4>3, <4>4, <4>5
        <4>7. \A k \in 1..Len(buf) :
                /\ disk'[s[k].inum].type # NoType
                /\ disk'[s[k].inum].type = DirType => d = Root /\ s[k].name \in DirNames
          BY <1>2, <1>6, <1>9, <3>2, <3>4
        <4>8. /\ disk'[new.inum].type # NoType
              /\ disk'[new.inum].type = DirType => d = Root /\ new.name \in DirNames
          <5>1. disk'[new.inum].type = Req(c).type
            BY <1>1, <1>4, <1>11, <1>15
          <5>2. CASE Op(c) = "create"
            <6>1. Req(c).type \in {FileType, DirType} /\ Req(c) \in Requests[c]
                    /\ Req(c).op = "create"
              BY <5>2, Parts, ReqTyped DEF FileOps
            <6>2. Req(c).type = DirType => X(c) = Root
              BY <5>2, Parts DEF TargetInv
            <6>3. Req(c).type = DirType => Req(c).name \in DirNames
              BY <6>1 DEF DirNames
            <6> QED BY <1>11, <3>4, <5>1, <6>1, <6>2, <6>3, TypesAssumption
          <5>3. CASE Op(c) = "symlink"
            <6>1. Req(c).type = LinkType
              BY <5>3, Parts, ReqTyped DEF FileOps
            <6> QED BY <5>1, <6>1, TypesAssumption
          <5> QED BY <5>2, <5>3 DEF Makers
        <4>9. \A k \in 1..Len(s) :
                /\ disk'[s[k].inum].type # NoType
                /\ disk'[s[k].inum].type = DirType => d = Root /\ s[k].name \in DirNames
          BY <1>9, <4>5, <4>7, <4>8
        <4> HIDE DEF s
        <4> QED BY <1>9, <4>1, <4>2, <4>6, <4>9 DEF s
      <3> QED BY <3>3, <3>4
    <2>2. ASSUME NEW d \in Dirs, NEW f \in Dirs, NEW i \in Inums, InDir(d, i)', InDir(f, i)'
          PROVE  d = f \/ Stale(d, i)' \/ Stale(f, i)'
      <3>1. CASE InDir(d, i) /\ InDir(f, i)
        BY <1>14, <3>1, Parts DEF TreeInv
      <3>2. CASE i = i0
        <4>1. \A g \in Dirs \ {X(c)} : InDir(g, i)' => Stale(g, i)'
          BY <1>4, <1>13, <1>14, <3>2
        <4> QED BY <2>2, <4>1
      <3>3. \A g \in Dirs : InDir(g, i)' /\ i # i0 => InDir(g, i)
        <4>1. ASSUME NEW g \in Dirs, InDir(g, i)', i # i0 PROVE InDir(g, i)
          <5>1. CASE g = X(c)
            BY <1>12, <4>1, <5>1 DEF DirPut
          <5>2. CASE g # X(c)
            BY <1>13, <4>1, <5>2
          <5> QED BY <5>1, <5>2
        <4> QED BY <4>1
      <3> QED BY <2>2, <3>1, <3>2, <3>3
    <2> QED BY <1>15, <2>1, <2>2 DEF TreeInv
  <1>17. ClaimInv'
    <2>1. ASSUME NEW g \in Clients, Making(g)'
          PROVE  /\ disk'[NewInum(g)'].type = Req(g)'.type
                 /\ \A d \in Dirs' : InDir(d, NewInum(g))' => Stale(d, NewInum(g))'
                 /\ \A d \in Clients : X(d)' # NewInum(g)'
                 /\ \A d \in Clients \ {g} : Making(d)' => NewInum(d)' # NewInum(g)'
      <3>1. g # c /\ Making(g) /\ NewInum(g)' = NewInum(g) /\ Req(g)' = Req(g)
              /\ NewInum(g) \in Inums
        <4>1. g # c
          BY <2>1 DEF DirPut
        <4>2. NewInum(g) \in Inums
          BY Parts, CallTyped, Typed DEF NewInum
        <4> QED BY <2>1, <4>1, <4>2, DirPutTarget
      <3>2. /\ disk[NewInum(g)].type = Req(g).type
            /\ \A d \in Dirs : InDir(d, NewInum(g)) => Stale(d, NewInum(g))
            /\ \A d \in Clients : X(d) # NewInum(g)
            /\ \A d \in Clients \ {g} : Making(d) => NewInum(d) # NewInum(g)
        BY <3>1, Parts DEF ClaimInv
      <3>3. NewInum(g) # i0
        BY <1>4, <3>1
      <3>4. \A d \in Dirs : InDir(d, NewInum(g))' => Stale(d, NewInum(g))'
        <4>1. ASSUME NEW d \in Dirs, InDir(d, NewInum(g))' PROVE InDir(d, NewInum(g))
          <5>1. CASE d = X(c)
            BY <1>12, <3>1, <3>3, <4>1, <5>1 DEF DirPut
          <5>2. CASE d # X(c)
            BY <1>13, <3>1, <4>1, <5>2
          <5> QED BY <5>1, <5>2
        <4> QED BY <1>14, <3>1, <3>2, <4>1
      <3>5. \A d \in Clients : X(d)' = X(d)
        BY DirPutTarget
      <3>6. \A d \in Clients \ {g} : Making(d)' => NewInum(d)' # NewInum(g)
        BY <3>2, DirPutTarget DEF DirPut
      <3> QED BY <1>15, <3>1, <3>2, <3>4, <3>5, <3>6
    <2>2. ASSUME NEW g \in Clients, Made(g)'
          PROVE  /\ \E k \in 1..Len(Contents(X(g))') :
                      Contents(X(g))'[k] = [name |-> Req(g)'.name, inum |-> call'[g].ino]
                 /\ Op(g)' = "symlink" => disk'[call'[g].ino].type = LinkType
      <3>1. CASE g = c
        <4>1. Len(buf) + 1 \in 1..Len(Append(buf, new)) /\ Append(buf, new)[Len(buf) + 1] = new
          BY <1>9
        <4>2. Op(c) = "symlink" => disk'[i0].type = LinkType
          BY <1>1, <1>4, <1>15, Parts, ReqTyped DEF FileOps
        <4>3. /\ Req(g)' = Req(c) /\ call'[g].ino = call[c].ino /\ Op(g)' = Op(c)
              /\ Contents(X(g))' = Append(buf, new)
          BY <1>3, <3>1 DEF DirPut
        <4> QED BY <4>1, <4>2, <4>3 DEF new
      <3>2. CASE g # c
        <4>1. Made(g) /\ X(g)' = X(g) /\ Req(g)' = Req(g) /\ call'[g].ino = call[g].ino
                /\ Op(g)' = Op(g) /\ call[g].ino \in Inums
          BY <2>2, <3>2, DirPutTarget, Parts, CallTyped
        <4>2. X(g) \in Dirs /\ X(g) \in held[g]
          BY <4>1, MadeEntry
        <4>3. X(g) # X(c)
          BY <1>2, <3>2, <4>2, Parts DEF LockInv
        <4>4. Contents(X(g))' = Contents(X(g))
          BY <1>13, <4>1, <4>2, <4>3
        <4>5. /\ \E k \in 1..Len(Contents(X(g))) :
                   Contents(X(g))[k] = [name |-> Req(g).name, inum |-> call[g].ino]
              /\ Op(g) = "symlink" => disk[call[g].ino].type = LinkType
          BY <4>1, Parts DEF ClaimInv
        <4> QED BY <1>15, <4>1, <4>4, <4>5
      <3> QED BY <3>1, <3>2
    <2>3. ASSUME NEW g \in Clients, Filling(g)' PROVE \A d \in Clients : X(d)' # call'[g].ino
      <3>1. Filling(g) /\ call'[g].ino = call[g].ino /\ \A d \in Clients : X(d)' = X(d)
        BY <2>3, DirPutTarget
      <3> QED BY <3>1, Parts DEF ClaimInv
    <2>4. ASSUME NEW g \in Clients, Unlinking(g)'
          PROVE  /\ disk'[call'[g].ino].type \notin {NoType, DirType}
                 /\ \A d \in Clients : X(d)' # call'[g].ino
      <3>1. g # c /\ Unlinking(g) /\ call'[g].ino = call[g].ino /\ call[g].ino \in Inums
              /\ \A d \in Clients : X(d)' = X(d)
        BY <2>4, DirPutTarget, Parts, CallTyped DEF DirPut
      <3> QED BY <1>15, <3>1, Parts DEF ClaimInv
    <2> QED BY <2>1, <2>2, <2>3, <2>4 DEF ClaimInv
  <1> QED BY <1>15, <1>16, <1>17

\* The stale name is taken out.
LEMMA DirPutUnlink ==
  ASSUME YfsInv, NEW c \in Clients, DirPut(c), PutPending(c), Op(c) = "unlink"
  PROVE  TargetInv' /\ TreeInv' /\ ClaimInv'
  <1> DEFINE i0 == call[c].ino
             p == Position(c)
             buf == call[c].buf
             s == RemoveAt(buf, p)
  <1>1. Leaving(c) /\ ~Making(c) /\ Op(c) \notin Makers
    BY DEF Leaving, Making, Makers
  <1>2. /\ X(c) \in Dirs /\ X(c) \in held[c] /\ Found(c) /\ i0 = FoundInum(c)
        /\ Contents(X(c)) = buf /\ buf \in Seq(Entries) /\ p \in 1..Len(buf)
        /\ buf[p] = [name |-> Req(c).name, inum |-> i0] /\ InDir(X(c), i0) /\ i0 \in Inums
    BY <1>1, UnlinkEntry, Parts, CallTyped
  <1>3. Contents(X(c))' = s
    BY DEF DirPut, NewContents
  <1>4. s \in Seq(Entries) /\ Len(s) = Len(buf) - 1 /\ Len(buf) \in Nat
          /\ \A k \in 1..Len(s) : s[k] = IF k < p THEN buf[k] ELSE buf[k + 1]
    <2> HIDE DEF p, buf
    <2>1. /\ RemoveAt(buf, p) \in Seq(Entries) /\ Len(RemoveAt(buf, p)) = Len(buf) - 1
          /\ \A k \in 1..(Len(buf) - 1) :
               RemoveAt(buf, p)[k] = IF k < p THEN buf[k] ELSE buf[k + 1]
      BY <1>2, SubSeqIn
    <2>2. Len(buf) \in Nat
      BY <1>2
    <2> QED BY <2>1, <2>2
  <1>5. /\ \A j, k \in 1..Len(buf) : j # k => buf[j].name # buf[k].name /\ buf[j].inum # buf[k].inum
        /\ ~InDir(X(c), Root)
    BY <1>2, Parts DEF TreeInv
  <1>6. buf[p].inum = i0
    BY <1>2
  <1> DEFINE at(k) == IF k < p THEN k ELSE k + 1
  <1>7. \A k \in 1..Len(s) : at(k) \in 1..Len(buf) /\ at(k) # p /\ s[k] = buf[at(k)]
    <2> HIDE DEF s, p, buf
    <2> TAKE k \in 1..Len(s)
    <2>1. p \in Nat /\ p >= 1 /\ p <= Len(buf) /\ k \in Nat /\ k >= 1 /\ k <= Len(buf) - 1
      BY <1>2, <1>4
    <2>2. s[k] = IF k < p THEN buf[k] ELSE buf[k + 1]
      BY <1>4
    <2> QED BY <1>4, <2>1, <2>2
  <1>8. \A j, k \in 1..Len(s) : j # k => at(j) # at(k)
    BY <1>2, <1>4
  <1> HIDE DEF s, p, at, buf
  <1>9. \A i : InDir(X(c), i)' => InDir(X(c), i) /\ i # i0
    <2>1. \A i : InDir(X(c), i)' <=> \E k \in 1..Len(s) : s[k].inum = i
      BY <1>3 DEF InDir, DirPut
    <2>2. \A i : InDir(X(c), i) <=> \E k \in 1..Len(buf) : buf[k].inum = i
      BY <1>2 DEF InDir
    <2>3. \A k \in 1..Len(s) : s[k].inum # i0
      BY <1>2, <1>5, <1>6, <1>7
    <2> QED BY <1>7, <2>1, <2>2, <2>3
  <1>10. \A d \in Dirs \ {X(c)} : Contents(d)' = Contents(d) /\ \A i : InDir(d, i)' <=> InDir(d, i)
    BY DEF DirPut, InDir
  <1>11. \A d, i : Stale(d, i) => Stale(d, i)' \/ (d = X(c) /\ i = i0)
    <2>1. ASSUME NEW d, NEW i, Stale(d, i) PROVE Stale(d, i)' \/ (d = X(c) /\ i = i0)
      <3>1. PICK g \in Clients : Leaving(g) /\ X(g) = d /\ call[g].ino = i
        BY <2>1 DEF Stale
      <3>2. CASE g = c
        BY <3>1, <3>2
      <3>3. CASE g # c
        <4>1. Leaving(g)' /\ X(g)' = d /\ call'[g].ino = i
          BY <3>1, <3>3, DirPutTarget
        <4> QED BY <4>1 DEF Stale
      <3> QED BY <3>2, <3>3
    <2> QED BY <2>1
  <1>12. Dirs' = Dirs /\ TargetInv' /\ \A i \in Inums : disk'[i].type = disk[i].type
    BY DirPutTarget DEF DirPut
  <1>13. \A d \in Dirs : \A i : InDir(d, i)' => InDir(d, i)
    <2>1. ASSUME NEW d \in Dirs, NEW i, InDir(d, i)' PROVE InDir(d, i)
      <3>1. CASE d = X(c)
        BY <1>9, <2>1, <3>1 DEF DirPut
      <3>2. CASE d # X(c)
        BY <1>10, <2>1, <3>2
      <3> QED BY <3>1, <3>2
    <2> QED BY <2>1
  <1>14. \A d \in Dirs : \A i : InDir(d, i)' /\ Stale(d, i) => Stale(d, i)'
    <2>1. ASSUME NEW d \in Dirs, NEW i, InDir(d, i)', Stale(d, i) PROVE Stale(d, i)'
      <3>1. d # X(c) \/ i # i0
        BY <1>9, <2>1 DEF DirPut
      <3> QED BY <1>11, <2>1, <3>1
    <2> QED BY <2>1
  <1>15. \A d \in Dirs : \A i : Stale(d, i)' => Stale(d, i) /\ d # X(c)
    <2>1. ASSUME NEW d \in Dirs, NEW i, Stale(d, i)' PROVE Stale(d, i) /\ d # X(c)
      <3>1. PICK g \in Clients : Leaving(g)' /\ X(g)' = d /\ call'[g].ino = i
        BY <2>1 DEF Stale
      <3>2. g # c
        BY <3>1 DEF DirPut
      <3>3. Leaving(g) /\ X(g) = d /\ call[g].ino = i
        BY <3>1, <3>2, DirPutTarget
      <3>4. X(g) \in held[g]
        BY <3>3, Parts, LeavingHolds
      <3>5. X(g) # X(c)
        BY <1>2, <3>2, <3>4, Parts DEF LockInv
      <3> QED BY <3>3, <3>5 DEF Stale
    <2> QED BY <2>1
  <1>16. TreeInv'
    <2>1. ASSUME NEW d \in Dirs
          PROVE  /\ Contents(d)' \in Seq(Entries)
                 /\ ~InDir(d, Root)'
                 /\ \A j, k \in 1..Len(Contents(d)') : j # k =>
                      /\ Contents(d)'[j].name # Contents(d)'[k].name
                      /\ Contents(d)'[j].inum # Contents(d)'[k].inum
                 /\ \A k \in 1..Len(Contents(d)') :
                      ~Stale(d, Contents(d)[k].inum)' =>
                        /\ disk'[Contents(d)'[k].inum].type # NoType
                        /\ disk'[Contents(d)'[k].inum].type = DirType =>
                             d = Root /\ Contents(d)'[k].name \in DirNames
      <3>1. Contents(d) \in Seq(Entries) /\ ~InDir(d, Root)
              /\ \A j, k \in 1..Len(Contents(d)) : j # k =>
                      /\ Contents(d)[j].name # Contents(d)[k].name
                      /\ Contents(d)[j].inum # Contents(d)[k].inum
        BY Parts DEF TreeInv
      <3>2. ASSUME NEW k \in 1..Len(Contents(d)), ~Stale(d, Contents(d)[k].inum)
            PROVE  /\ disk'[Contents(d)[k].inum].type # NoType
                   /\ disk'[Contents(d)[k].inum].type = DirType =>
                             d = Root /\ Contents(d)[k].name \in DirNames
        <4>1. Contents(d)[k].inum \in Inums
          <5>1. Contents(d)[k] \in Entries
            BY <3>1
          <5> QED BY <5>1 DEF Entries
        <4> QED BY <1>12, <3>2, <4>1, Parts DEF TreeInv
      <3>a. ~InDir(d, Root)'
        BY <1>13, <3>1
      <3>3. CASE d # X(c)
        <4>1. Contents(d)' = Contents(d)
          BY <1>10, <3>3
        <4>2. \A i : Stale(d, i) => Stale(d, i)'
          BY <1>11, <3>3
        <4> QED BY <3>1, <3>2, <3>a, <4>1, <4>2
      <3>4. CASE d = X(c)
        <4>1. Contents(d)' = s /\ Contents(d) = buf
          BY <1>2, <1>3, <3>4 DEF DirPut
        <4>2. \A j, k \in 1..Len(s) : j # k => s[j].name # s[k].name /\ s[j].inum # s[k].inum
          BY <1>5, <1>7, <1>8
        <4>3. ASSUME NEW k \in 1..Len(s)
              PROVE  /\ disk'[s[k].inum].type # NoType
                     /\ disk'[s[k].inum].type = DirType => d = Root /\ s[k].name \in DirNames
          <5>1. at(k) \in 1..Len(buf) /\ at(k) # p /\ s[k] = buf[at(k)]
            BY <1>7
          <5>2. buf[at(k)].inum # i0
            BY <1>2, <1>5, <1>6, <5>1
          <5>3. ~Stale(d, buf[at(k)].inum)
            <6>1. Stale(d, buf[at(k)].inum) => buf[at(k)].inum = i0
              BY <1>2, <3>4, Parts, StaleMine
            <6> QED BY <5>2, <6>1
          <5> QED BY <3>2, <4>1, <5>1, <5>3
        <4> QED BY <1>4, <3>a, <4>1, <4>2, <4>3
      <3> QED BY <3>3, <3>4
    <2>2. ASSUME NEW d \in Dirs, NEW f \in Dirs, NEW i \in Inums, InDir(d, i)', InDir(f, i)'
          PROVE  d = f \/ Stale(d, i)' \/ Stale(f, i)'
      <3>1. InDir(d, i) /\ InDir(f, i)
        BY <1>13, <2>2
      <3>2. d = f \/ Stale(d, i) \/ Stale(f, i)
        BY <3>1, Parts DEF TreeInv
      <3> QED BY <1>14, <2>2, <3>2
    <2> QED BY <1>12, <2>1, <2>2 DEF TreeInv
  <1>17. ClaimInv'
    <2>1. ASSUME NEW g \in Clients, Making(g)'
          PROVE  /\ disk'[NewInum(g)'].type = Req(g)'.type
                 /\ \A d \in Dirs' : InDir(d, NewInum(g))' => Stale(d, NewInum(g))'
                 /\ \A d \in Clients : X(d)' # NewInum(g)'
                 /\ \A d \in Clients \ {g} : Making(d)' => NewInum(d)' # NewInum(g)'
      <3>1. g # c /\ Making(g) /\ NewInum(g)' = NewInum(g) /\ Req(g)' = Req(g)
              /\ NewInum(g) \in Inums
        <4>1. g # c
          BY <2>1 DEF DirPut
        <4>2. NewInum(g) \in Inums
          BY Parts, CallTyped, Typed DEF NewInum
        <4> QED BY <2>1, <4>1, <4>2, DirPutTarget
      <3>2. /\ disk[NewInum(g)].type = Req(g).type
            /\ \A d \in Dirs : InDir(d, NewInum(g)) => Stale(d, NewInum(g))
            /\ \A d \in Clients : X(d) # NewInum(g)
            /\ \A d \in Clients \ {g} : Making(d) => NewInum(d) # NewInum(g)
        BY <3>1, Parts DEF ClaimInv
      <3>4. \A d \in Dirs : InDir(d, NewInum(g))' => Stale(d, NewInum(g))'
        BY <1>13, <1>14, <3>1, <3>2
      <3>5. \A d \in Clients : X(d)' = X(d)
        BY DirPutTarget
      <3>6. \A d \in Clients \ {g} : Making(d)' => NewInum(d)' # NewInum(g)
        BY <3>2, DirPutTarget DEF DirPut
      <3> QED BY <1>12, <3>1, <3>2, <3>4, <3>5, <3>6
    <2>2. ASSUME NEW g \in Clients, Made(g)'
          PROVE  /\ \E k \in 1..Len(Contents(X(g))') :
                      Contents(X(g))'[k] = [name |-> Req(g)'.name, inum |-> call'[g].ino]
                 /\ Op(g)' = "symlink" => disk'[call'[g].ino].type = LinkType
      <3>1. g # c
        BY <1>1, <2>2 DEF DirPut
      <3>2. Made(g) /\ X(g)' = X(g) /\ Req(g)' = Req(g) /\ call'[g].ino = call[g].ino
              /\ Op(g)' = Op(g) /\ call[g].ino \in Inums
        BY <2>2, <3>1, DirPutTarget, Parts, CallTyped
      <3>3. X(g) \in Dirs /\ X(g) \in held[g]
        BY <3>2, MadeEntry
      <3>4. X(g) # X(c)
        BY <1>2, <3>1, <3>3, Parts DEF LockInv
      <3>5. Contents(X(g))' = Contents(X(g))
        BY <1>10, <3>2, <3>3, <3>4
      <3>6. /\ \E k \in 1..Len(Contents(X(g))) :
                 Contents(X(g))[k] = [name |-> Req(g).name, inum |-> call[g].ino]
            /\ Op(g) = "symlink" => disk[call[g].ino].type = LinkType
        BY <3>2, Parts DEF ClaimInv
      <3> QED BY <1>12, <3>2, <3>5, <3>6
    <2>3. ASSUME NEW g \in Clients, Filling(g)' PROVE \A d \in Clients : X(d)' # call'[g].ino
      <3>1. Filling(g) /\ call'[g].ino = call[g].ino /\ \A d \in Clients : X(d)' = X(d)
        BY <2>3, DirPutTarget
      <3> QED BY <3>1, Parts DEF ClaimInv
    <2>4. ASSUME NEW g \in Clients, Unlinking(g)'
          PROVE  /\ disk'[call'[g].ino].type \notin {NoType, DirType}
                 /\ \A d \in Clients : X(d)' # call'[g].ino
      <3>1. g # c /\ Unlinking(g) /\ call'[g].ino = call[g].ino /\ call[g].ino \in Inums
              /\ \A d \in Clients : X(d)' = X(d)
        BY <2>4, DirPutTarget, Parts, CallTyped DEF DirPut
      <3> QED BY <1>12, <3>1, Parts DEF ClaimInv
    <2> QED BY <2>1, <2>2, <2>3, <2>4 DEF ClaimInv
  <1> QED BY <1>12, <1>16, <1>17
=============================================================================
