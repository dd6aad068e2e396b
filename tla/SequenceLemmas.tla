--------------------------- MODULE SequenceLemmas ---------------------------
(***************************************************************************)
(* Induction over natural numbers as a fact about sets, which needs no        *)
(* operator as a parameter, and what it gives of the operators that the      *)
(* specifications take from the community modules.                          *)
(***************************************************************************)
EXTENDS Integers, SequencesExt, SequenceTheorems, FiniteSetTheorems, TLAPS

(* Induction on the natural numbers, for a set: if n is not in S, adding 1  *)
(* maps what there is of S below n into itself without 0, one-to-one.       *)
LEMMA SetInduction ==
  ASSUME NEW S, 0 \in S, \A n \in Nat : n \in S => n + 1 \in S
  PROVE  Nat \subseteq S
<1>1. SUFFICES ASSUME NEW n \in Nat, n \notin S PROVE FALSE
  OBVIOUS
<1> DEFINE T == {k \in 0..n : k \in S}
           f == [k \in T |-> k + 1]
<1>2. IsFiniteSet(T)
  <2>1. IsFiniteSet(0..n) /\ T \subseteq 0..n
    BY FS_Interval
  <2> QED
    BY <2>1, FS_Subset
<1>3. 0 \in T
  OBVIOUS
<1>4. IsFiniteSet(T \ {0}) /\ Cardinality(T \ {0}) = Cardinality(T) - 1 /\ Cardinality(T) \in Nat
  <2> HIDE DEF T
  <2> QED
    BY <1>2, <1>3, FS_RemoveElement, FS_CardinalityType
<1>5. f \in [T -> T \ {0}]
  BY <1>1
<1>6. \E x, y \in T : x # y /\ f[x] = f[y]
  <2> HIDE DEF T, f
  <2>1. Cardinality(T \ {0}) < Cardinality(T)
    BY <1>4
  <2> QED
    BY <1>2, <1>4, <1>5, <2>1, FS_PigeonHole
<1> QED
  BY <1>6

(* Min of a set of natural numbers is its least element. *)
LEMMA MinIsLeast ==
  ASSUME NEW S \in SUBSET Nat, S # {}
  PROVE  Min(S) \in S /\ \A k \in S : Min(S) <= k
<1> DEFINE Below == {n \in Nat : \A k \in S : k > n}
<1>1. \E m \in S : \A k \in S : m <= k
  <2>1. SUFFICES ASSUME \A m \in S : \E k \in S : k < m PROVE FALSE
    OBVIOUS
  <2>2. 0 \in Below
    BY <2>1
  <2>3. \A n \in Nat : n \in Below => n + 1 \in Below
    <3>1. SUFFICES ASSUME NEW n \in Nat, n \in Below PROVE n + 1 \in Below
      OBVIOUS
    <3>2. \A k \in S : k > n
      BY <3>1
    <3>3. n + 1 \notin S
      BY <2>1, <3>2
    <3> QED
      BY <3>2, <3>3
  <2>4. Nat \subseteq Below
    BY <2>2, <2>3, SetInduction
  <2>5. PICK k \in S : k \in Nat
    OBVIOUS
  <2> QED
    BY <2>4, <2>5
<1> QED
  BY <1>1 DEF Min

(* FlattenSeq is a recursive function that exists. *)
LEMMA FlattenIsDefined ==
  ASSUME NEW n \in Nat \ {0}, NEW ss, DOMAIN ss = 1..n, Len(ss) = n
  PROVE  \E f : /\ f = [i \in 1..n |-> IF i = 1 THEN ss[i] ELSE f[i - 1] \o ss[i]]
                /\ FlattenSeq(ss) = f[n]
<1> DEFINE IsFlat(f, k) == f = [i \in 1..k |-> IF i = 1 THEN ss[i] ELSE f[i - 1] \o ss[i]]
           Defined == {k \in Nat : \E f : IsFlat(f, k)}
<1>1. 0 \in Defined
  <2> DEFINE f == [i \in 1..0 |-> ss[1]]
  <2>1. IsFlat(f, 0)
    OBVIOUS
  <2> HIDE DEF f, IsFlat
  <2> QED
    BY <2>1
<1>2. \A k \in Nat : k \in Defined => k + 1 \in Defined
  <2>1. SUFFICES ASSUME NEW k \in Nat, NEW f, IsFlat(f, k) PROVE \E g : IsFlat(g, k + 1)
    <3> HIDE DEF IsFlat
    <3> QED
      OBVIOUS
  <2> DEFINE g == [i \in 1..k + 1 |->
                    IF i <= k THEN f[i] ELSE IF i = 1 THEN ss[i] ELSE f[k] \o ss[i]]
  <2>2. \A i \in 1..k : f[i] = IF i = 1 THEN ss[i] ELSE f[i - 1] \o ss[i]
    BY <2>1
  <2>3. \A i \in 1..k + 1 : g[i] = IF i = 1 THEN ss[i] ELSE g[i - 1] \o ss[i]
    BY <2>2
  <2>4. IsFlat(g, k + 1)
    BY <2>3
  <2> HIDE DEF g, IsFlat
  <2> QED
    BY <2>4
<1>3. \E f : IsFlat(f, n)
  BY <1>1, <1>2, SetInduction
<1> DEFINE flat == CHOOSE f : IsFlat(f, n)
<1>4. IsFlat(flat, n)
  <2> HIDE DEF IsFlat
  <2> QED
    BY <1>3
<1>5. FlattenSeq(ss) = flat[n]
  BY DEF FlattenSeq
<1> HIDE DEF flat
<1> QED
  BY <1>4, <1>5

(* Every element of t is one of ss[1..n]. *)
IsFrom(t, ss, n) == \A i \in DOMAIN t : \E d \in 1..n : \E j \in DOMAIN ss[d] : t[i] = ss[d][j]

(* No element is in t twice. *)
IsOnce(t) == \A k, l \in DOMAIN t : t[k] = t[l] => k = l

(* No element is in ss[1..n] twice. *)
AreDistinct(ss, n) ==
    \A d, e \in 1..n : \A j \in DOMAIN ss[d], l \in DOMAIN ss[e] :
        ss[d][j] = ss[e][l] => d = e /\ j = l

(* Every element of a flattened sequence comes from one of its parts, and an  *)
(* element that occurs once in the parts occurs once in the result.          *)
LEMMA FlattenProperties ==
  ASSUME NEW S, NEW n \in Nat, NEW ss \in [1..n -> Seq(S)]
  PROVE  /\ FlattenSeq(ss) \in Seq(S)
         /\ IsFrom(FlattenSeq(ss), ss, n)
         /\ AreDistinct(ss, n) => IsOnce(FlattenSeq(ss))
<1>1. Len(ss) = n /\ DOMAIN ss = 1..n
  OBVIOUS
<1>2. CASE n = 0
  <2>1. FlattenSeq(ss) = ss
    BY <1>1, <1>2 DEF FlattenSeq
  <2>2. ss = <<>>
    BY <1>1, <1>2
  <2> QED
    BY <2>1, <2>2 DEF IsFrom, IsOnce
<1>3. CASE n # 0
  <2>1. PICK f : /\ f = [i \in 1..n |-> IF i = 1 THEN ss[i] ELSE f[i - 1] \o ss[i]]
                 /\ FlattenSeq(ss) = f[n]
    BY <1>1, <1>3, FlattenIsDefined
  <2> DEFINE P(t, k) == t \in Seq(S) /\ IsFrom(t, ss, k) /\ (AreDistinct(ss, n) => IsOnce(t))
             Good == {k \in Nat : k \in 1..n => P(f[k], k)}
  <2>2. 0 \in Good
    OBVIOUS
  <2>3. \A k \in Nat : k \in Good => k + 1 \in Good
    <3> SUFFICES ASSUME NEW k \in Nat, k \in Good PROVE k + 1 \in Good
      OBVIOUS
    <3> SUFFICES ASSUME k + 1 \in 1..n PROVE P(f[k + 1], k + 1)
      <4> HIDE DEF P
      <4> QED
        OBVIOUS
    <3>1. k + 1 \in 1..n /\ (k # 0 => k \in 1..n /\ P(f[k], k))
      <4> HIDE DEF P
      <4> QED
        OBVIOUS
    <3>2. CASE k = 0
      <4>1. f[k + 1] = ss[k + 1] /\ ss[k + 1] \in Seq(S)
        BY <2>1, <3>1, <3>2
      <4>2. IsFrom(ss[k + 1], ss, k + 1) /\ (AreDistinct(ss, n) => IsOnce(ss[k + 1]))
        BY <3>1 DEF IsFrom, IsOnce, AreDistinct
      <4> QED
        BY <4>1, <4>2
    <3>3. CASE k # 0
      <4> DEFINE a == f[k]
                 b == ss[k + 1]
                 t == a \o b
      <4>1. f[k + 1] = t /\ k \in 1..n /\ b \in Seq(S) /\ P(a, k)
        <5>2. f[k + 1] = IF k + 1 = 1 THEN ss[k + 1] ELSE f[(k + 1) - 1] \o ss[k + 1]
          BY <2>1, <3>1
        <5>3. k + 1 # 1 /\ (k + 1) - 1 = k
          BY <3>3
        <5>1. f[k + 1] = f[k] \o ss[k + 1]
          BY <5>2, <5>3
        <5> HIDE DEF P
        <5> QED
          BY <3>1, <3>3, <5>1
      <4>2. a \in Seq(S) /\ IsFrom(a, ss, k) /\ (AreDistinct(ss, n) => IsOnce(a))
        BY <4>1
      <4>b. b = ss[k + 1]
        OBVIOUS
      <4> HIDE DEF a, b
      <4>3. /\ t \in Seq(S) /\ DOMAIN a = 1..Len(a) /\ DOMAIN b = 1..Len(b)
            /\ Len(a) \in Nat /\ Len(b) \in Nat
            /\ DOMAIN t = 1..Len(a) + Len(b)
            /\ \A i \in 1..Len(a) : t[i] = a[i]
            /\ \A i \in Len(a) + 1..Len(a) + Len(b) : t[i] = b[i - Len(a)]
        BY <4>1, <4>2, ConcatProperties, LenProperties
      <4> HIDE DEF t
      <4>4. ASSUME NEW i \in DOMAIN t
            PROVE  \/ i \in DOMAIN a /\ t[i] = a[i]
                   \/ i - Len(a) \in DOMAIN b /\ t[i] = ss[k + 1][i - Len(a)]
        <5>1. CASE i \in 1..Len(a)
          BY <4>3, <5>1
        <5>2. CASE i \in Len(a) + 1..Len(a) + Len(b)
          <6>1. i - Len(a) \in 1..Len(b)
            BY <4>3, <5>2
          <6> QED
            BY <4>3, <4>b, <5>2, <6>1
        <5> QED
          BY <4>3, <5>1, <5>2
      <4>5. IsFrom(t, ss, k + 1)
        <5>1. SUFFICES ASSUME NEW i \in DOMAIN t
                       PROVE  \E d \in 1..k + 1 : \E j \in DOMAIN ss[d] : t[i] = ss[d][j]
          BY DEF IsFrom
        <5>2. CASE i \in DOMAIN a /\ t[i] = a[i]
          <6>1. PICK d \in 1..k : \E j \in DOMAIN ss[d] : a[i] = ss[d][j]
            BY <4>2, <5>2 DEF IsFrom
          <6>2. d \in 1..k + 1
            OBVIOUS
          <6> QED
            BY <5>2, <6>1, <6>2
        <5>3. CASE i - Len(a) \in DOMAIN b /\ t[i] = ss[k + 1][i - Len(a)]
          <6>1. k + 1 \in 1..k + 1
            OBVIOUS
          <6> QED
            BY <4>b, <5>3, <6>1
        <5> QED
          BY <4>4, <5>2, <5>3
      <4>6. ASSUME AreDistinct(ss, n) PROVE IsOnce(t)
        <5>1. SUFFICES ASSUME NEW i \in DOMAIN t, NEW l \in DOMAIN t, t[i] = t[l] PROVE i = l
          BY DEF IsOnce
        <5>2. CASE i \in DOMAIN a /\ l \in DOMAIN a
          BY <4>2, <4>3, <4>6, <5>1, <5>2 DEF IsOnce
        <5>3. CASE i \notin DOMAIN a /\ l \notin DOMAIN a
          <6>1. /\ i - Len(a) \in DOMAIN ss[k + 1] /\ l - Len(a) \in DOMAIN ss[k + 1]
                /\ ss[k + 1][i - Len(a)] = ss[k + 1][l - Len(a)]
            BY <4>4, <4>b, <5>1, <5>3
          <6>2. i - Len(a) = l - Len(a)
            BY <3>1, <4>6, <6>1 DEF AreDistinct
          <6> QED
            BY <4>3, <6>2
        <5>4. ASSUME NEW x \in DOMAIN a, NEW y \in DOMAIN b, a[x] = ss[k + 1][y] PROVE FALSE
          <6>1. PICK d \in 1..k : \E j \in DOMAIN ss[d] : a[x] = ss[d][j]
            BY <4>2 DEF IsFrom
          <6>2. PICK j \in DOMAIN ss[d] : a[x] = ss[d][j]
            BY <6>1
          <6>4. d \in 1..n /\ k + 1 \in 1..n /\ y \in DOMAIN ss[k + 1] /\ ss[d][j] = ss[k + 1][y]
            BY <3>1, <4>b, <5>4, <6>2
          <6>3. d = k + 1
            BY <4>6, <6>2, <6>4 DEF AreDistinct
          <6> QED
            BY <6>3
        <5>5. CASE i \in DOMAIN a /\ l \notin DOMAIN a
          BY <4>3, <4>4, <5>1, <5>4, <5>5
        <5>6. CASE i \notin DOMAIN a /\ l \in DOMAIN a
          BY <4>3, <4>4, <5>1, <5>4, <5>6
        <5> QED
          BY <5>2, <5>3, <5>5, <5>6
      <4> QED
        BY <4>1, <4>3, <4>5, <4>6
    <3> QED
      BY <3>2, <3>3
  <2>4. P(f[n], n)
    <3> HIDE DEF P
    <3>1. n \in Good
      <4> HIDE DEF Good
      <4> QED
        BY <2>2, <2>3, SetInduction
    <3> QED
      BY <1>3, <3>1
  <2> QED
    BY <2>1, <2>4
<1> QED
  BY <1>2, <1>3

(* What makes a sequence the concatenation of two.                          *)
LEMMA ConcatIs ==
  ASSUME NEW S, NEW s \in Seq(S), NEW t \in Seq(S), NEW u \in Seq(S), Len(u) = Len(s) + Len(t),
         \A i \in 1..Len(s) : u[i] = s[i], \A i \in 1..Len(t) : u[Len(s) + i] = t[i]
  PROVE  u = s \o t
<1>1. /\ s \o t \in Seq(S) /\ Len(s \o t) = Len(s) + Len(t) /\ Len(s) \in Nat /\ Len(t) \in Nat
      /\ \A i \in 1..Len(s) + Len(t) : (s \o t)[i] = IF i <= Len(s) THEN s[i] ELSE t[i - Len(s)]
  BY ConcatProperties
<1>2. ASSUME NEW i \in 1..Len(s) + Len(t) PROVE u[i] = (s \o t)[i]
  <2>1. CASE i <= Len(s)
    BY <1>1, <2>1
  <2>2. CASE ~(i <= Len(s))
    <3>1. i - Len(s) \in 1..Len(t) /\ Len(s) + (i - Len(s)) = i
      BY <1>1, <2>2
    <3>2. u[Len(s) + (i - Len(s))] = t[i - Len(s)]
      BY <3>1
    <3> QED
      BY <1>1, <2>2, <3>1, <3>2
  <2> QED
    BY <2>1, <2>2
<1> QED
  BY <1>1, <1>2

(* One part more is appended to the flattened sequence.                     *)
LEMMA FlattenAppend ==
  ASSUME NEW S, NEW n \in Nat, NEW ss \in [1..n -> Seq(S)], NEW t \in Seq(S)
  PROVE  FlattenSeq(Append(ss, t)) = FlattenSeq(ss) \o t
<1> DEFINE tt == Append(ss, t)
<1>1. /\ ss \in Seq(Seq(S)) /\ Len(ss) = n /\ DOMAIN ss = 1..n
      /\ DOMAIN tt = 1..n + 1 /\ Len(tt) = n + 1 /\ n + 1 \in Nat \ {0}
      /\ \A i \in 1..n : tt[i] = ss[i]
      /\ tt[n + 1] = t
  OBVIOUS
<1> HIDE DEF tt
<1>2. PICK g : /\ g = [i \in 1..n + 1 |-> IF i = 1 THEN tt[i] ELSE g[i - 1] \o tt[i]]
               /\ FlattenSeq(tt) = g[n + 1]
  BY <1>1, FlattenIsDefined
<1>5. \A i \in 1..n + 1 : g[i] = IF i = 1 THEN tt[i] ELSE g[i - 1] \o tt[i]
  BY <1>2
<1>3. CASE n = 0
  <2>1. FlattenSeq(ss) = <<>>
    BY <1>1, <1>3 DEF FlattenSeq
  <2>2. FlattenSeq(tt) = t
    BY <1>1, <1>2, <1>3
  <2> QED
    BY <2>1, <2>2 DEF tt
<1>4. CASE n # 0
  <2>1. PICK f : /\ f = [i \in 1..n |-> IF i = 1 THEN ss[i] ELSE f[i - 1] \o ss[i]]
                 /\ FlattenSeq(ss) = f[n]
    <3>1. n \in Nat \ {0}
      BY <1>4
    <3>2. DOMAIN ss = 1..n /\ Len(ss) = n
      BY <1>1
    <3> QED
      BY <3>1, <3>2, FlattenIsDefined
  <2>7. \A i \in 1..n : f[i] = IF i = 1 THEN ss[i] ELSE f[i - 1] \o ss[i]
    BY <2>1
  <2> DEFINE Good == {k \in Nat : k \in 1..n => f[k] = g[k]}
  <2>2. 0 \in Good
    OBVIOUS
  <2>3. ASSUME NEW k \in Nat, k \in Good PROVE k + 1 \in Good
    <3> SUFFICES ASSUME k + 1 \in 1..n PROVE f[k + 1] = g[k + 1]
      OBVIOUS
    <3>1. /\ f[k + 1] = IF k + 1 = 1 THEN ss[k + 1] ELSE f[(k + 1) - 1] \o ss[k + 1]
          /\ g[k + 1] = IF k + 1 = 1 THEN tt[k + 1] ELSE g[(k + 1) - 1] \o tt[k + 1]
          /\ tt[k + 1] = ss[k + 1]
      BY <1>1, <1>5, <2>7
    <3>2. k + 1 = 1 \/ (k \in 1..n /\ (k + 1) - 1 = k /\ f[k] = g[k])
      BY <2>3
    <3> QED
      BY <3>1, <3>2
  <2>4. n \in Good
    <3> HIDE DEF Good
    <3> QED
      BY <2>2, <2>3, SetInduction
  <2>5. g[n + 1] = IF n + 1 = 1 THEN tt[n + 1] ELSE g[(n + 1) - 1] \o tt[n + 1]
    BY <1>5
  <2>6. n + 1 # 1 /\ (n + 1) - 1 = n /\ n \in 1..n
    BY <1>4
  <2> QED
    BY <1>1, <1>2, <2>1, <2>4, <2>5, <2>6 DEF tt
<1> QED
  BY <1>3, <1>4

(* Flattening concatenated sequences.                                       *)
LEMMA FlattenConcat ==
  ASSUME NEW S, NEW n \in Nat, NEW m \in Nat,
         NEW ss \in [1..n -> Seq(S)], NEW tt \in [1..m -> Seq(S)]
  PROVE  FlattenSeq(ss \o tt) = FlattenSeq(ss) \o FlattenSeq(tt)
<1> DEFINE u(k) == [i \in 1..k |-> tt[i]]
           Good == {k \in Nat :
                        k \in 0..m => FlattenSeq(ss \o u(k)) = FlattenSeq(ss) \o FlattenSeq(u(k))}
<1>1. /\ ss \in Seq(Seq(S)) /\ tt \in Seq(Seq(S)) /\ Len(ss) = n /\ u(m) = tt
      /\ FlattenSeq(ss) \in Seq(S)
  BY FlattenProperties
<1>2. 0 \in Good
  <2>1. u(0) = <<>>
    OBVIOUS
  <2>2. FlattenSeq(<<>>) = <<>>
    BY DEF FlattenSeq
  <2>3. ss \o <<>> = ss /\ FlattenSeq(ss) \o <<>> = FlattenSeq(ss)
    BY <1>1
  <2> HIDE DEF u
  <2> QED
    BY <2>1, <2>2, <2>3
<1>3. ASSUME NEW k \in Nat, k \in Good PROVE k + 1 \in Good
  <2> SUFFICES ASSUME k + 1 \in 0..m
               PROVE  FlattenSeq(ss \o u(k + 1)) = FlattenSeq(ss) \o FlattenSeq(u(k + 1))
    OBVIOUS
  <2>1. FlattenSeq(ss \o u(k)) = FlattenSeq(ss) \o FlattenSeq(u(k))
    BY <1>3
  <2> DEFINE t == tt[k + 1]
             w == u(k)
             v == ss \o w
  <2>2. t \in Seq(S) /\ w \in [1..k -> Seq(S)] /\ w \in Seq(Seq(S)) /\ u(k + 1) = Append(w, t)
    OBVIOUS
  <2>3. FlattenSeq(Append(w, t)) = FlattenSeq(w) \o t /\ FlattenSeq(w) \in Seq(S)
    BY <2>2, FlattenAppend, FlattenProperties
  <2>4. v \in [1..n + k -> Seq(S)] /\ n + k \in Nat
    <3> HIDE DEF w, t, u, Good
    <3>1. w \in Seq(Seq(S)) /\ Len(w) = k
      BY <2>2
    <3>2. v \in Seq(Seq(S)) /\ Len(v) = n + k
      BY <1>1, <3>1, ConcatProperties
    <3> HIDE DEF v
    <3> QED
      BY <3>2
  <2>5. FlattenSeq(Append(v, t)) = FlattenSeq(v) \o t
    BY <2>2, <2>4, FlattenAppend
  <2>6. ss \o Append(w, t) = Append(v, t)
    BY <1>1, <2>2
  <2> HIDE DEF t, w, u, Good
  <2>7. FlattenSeq(v) = FlattenSeq(ss) \o FlattenSeq(w)
    BY <2>1 DEF w
  <2>8. (FlattenSeq(ss) \o FlattenSeq(w)) \o t = FlattenSeq(ss) \o (FlattenSeq(w) \o t)
    <3>1. FlattenSeq(ss) \in Seq(S) /\ FlattenSeq(w) \in Seq(S) /\ t \in Seq(S)
      BY <1>1, <2>2, <2>3
    <3> QED
      BY <3>1, ConcatAssociative
  <2> HIDE DEF v
  <2> QED
    BY <2>2, <2>3, <2>5, <2>6, <2>7, <2>8
<1>4. m \in Good
  <2> HIDE DEF Good
  <2> QED
    BY <1>2, <1>3, SetInduction
<1> HIDE DEF u
<1> QED
  BY <1>1, <1>4

(* The last elements of a flattened sequence are those of its last part.     *)
LEMMA FlattenLast ==
  ASSUME NEW S, NEW n \in Nat \ {0}, NEW ss \in [1..n -> Seq(S)], ss[n] # <<>>
  PROVE  FlattenSeq(ss) # <<>> /\ Last(FlattenSeq(ss)) = Last(ss[n])
<1> DEFINE w == [i \in 1..n - 1 |-> ss[i]]
<1>1. n - 1 \in Nat /\ w \in [1..n - 1 -> Seq(S)] /\ ss[n] \in Seq(S) /\ ss = Append(w, ss[n])
  OBVIOUS
<1> HIDE DEF w
<1>2. FlattenSeq(ss) = FlattenSeq(w) \o ss[n] /\ FlattenSeq(w) \in Seq(S)
  BY <1>1, FlattenAppend, FlattenProperties
<1> DEFINE a == FlattenSeq(w)
           b == ss[n]
<1>3. a \in Seq(S) /\ b \in Seq(S) /\ b # <<>> /\ FlattenSeq(ss) = a \o b
  BY <1>1, <1>2
<1> HIDE DEF a, b
<1>4. /\ Len(b) \in Nat \ {0} /\ Len(a) \in Nat /\ Len(a \o b) = Len(a) + Len(b)
      /\ (a \o b)[Len(a) + Len(b)] = b[Len(b)]
  BY <1>3
<1>5. a \o b # <<>> /\ Last(a \o b) = Last(b)
  BY <1>4 DEF Last
<1> QED
  BY <1>3, <1>5 DEF b

(* Max of a set of bounded numbers is its greatest element. *)
LEMMA MaxIsGreatest ==
  ASSUME NEW n \in Nat, NEW S \in SUBSET (0..n), S # {}
  PROVE  Max(S) \in S /\ \A k \in S : k <= Max(S)
<1> DEFINE T == {n - k : k \in S}
<1>1. T \in SUBSET Nat /\ T # {}
  <2>1. \A k \in S : k \in 0..n /\ n - k \in Nat
    OBVIOUS
  <2>2. PICK k \in S : TRUE
    OBVIOUS
  <2>3. n - k \in T
    OBVIOUS
  <2> QED
    BY <2>1, <2>3
<1>2. Min(T) \in T /\ \A k \in T : Min(T) <= k
  <2> HIDE DEF T
  <2> QED
    BY <1>1, MinIsLeast
<1>3. PICK m \in S : Min(T) = n - m
  BY <1>2
<1>4. \A k \in S : k <= m
  <2> TAKE k \in S
  <2>1. n - m <= n - k
    BY <1>2, <1>3
  <2> QED
    BY <2>1
<1> HIDE DEF T
<1> QED
  BY <1>4 DEF Max

(* A function that goes from each place to the next until it stops. *)
Collects(f, D, stop, line, next) ==
    f = [p \in D |-> IF p \in stop THEN <<>> ELSE <<line[p]>> \o f[next[p]]]

(* There is one when there is a measure that decreases. *)
LEMMA RecursionIsDefined ==
  ASSUME NEW D, NEW stop \in SUBSET D, NEW line, NEW next \in [D -> D], NEW measure \in [D -> Nat],
         NEW bound \in Nat, \A p \in D : measure[p] < bound,
         \A p \in D \ stop : measure[next[p]] < measure[p]
  PROVE  \E f : Collects(f, D, stop, line, next)
<1> DEFINE Value(f, p) == IF p \in stop THEN <<>> ELSE <<line[p]>> \o f[next[p]]
           Below(k) == {p \in D : measure[p] < k}
           Fits(f, k) == \A p \in Below(k) : f[p] = Value(f, p)
           Good == {k \in Nat : \E f : Fits(f, k)}
<1>1. 0 \in Good
  OBVIOUS
<1>2. \A k \in Nat : k \in Good => k + 1 \in Good
  <2>1. SUFFICES ASSUME NEW k \in Nat, NEW f, Fits(f, k) PROVE \E g : Fits(g, k + 1)
    <3> HIDE DEF Fits
    <3> QED
      OBVIOUS
  <2> DEFINE g == [p \in D |-> IF p \in Below(k) THEN f[p] ELSE Value(f, p)]
  <2>2. \A p \in Below(k + 1) : p \in stop \/ next[p] \in Below(k)
    OBVIOUS
  <2>3. \A p \in D : g[p] = Value(f, p)
    BY <2>1
  <2>4. \A p \in Below(k) : g[p] = f[p]
    OBVIOUS
  <2> HIDE DEF g
  <2>5. \A p \in Below(k + 1) : Value(g, p) = Value(f, p)
    BY <2>2, <2>4
  <2>6. Fits(g, k + 1)
    BY <2>3, <2>5
  <2> QED
    BY <2>6
<1>3. Nat \subseteq Good
  <2> HIDE DEF Good
  <2> QED
    BY <1>1, <1>2, SetInduction
<1>4. PICK f : Fits(f, bound)
  <2> HIDE DEF Fits
  <2>1. bound \in Good
    <3> HIDE DEF Good
    <3> QED
      BY <1>3
  <2> QED
    BY <2>1
<1> DEFINE g == [p \in D |-> f[p]]
<1>5. \A p \in D : g[p] = Value(f, p) /\ Value(g, p) = Value(f, p)
  BY <1>4
<1>6. g = [p \in D |-> Value(g, p)]
  BY <1>5
<1>7. Collects(g, D, stop, line, next)
  BY <1>6 DEF Collects
<1> HIDE DEF g
<1> QED
  BY <1>7

(* Finitely many numbers have a bound. *)
LEMMA HasBound ==
  ASSUME NEW n \in Nat, NEW f \in [1..n -> Nat] PROVE \E b \in Nat : \A i \in 1..n : f[i] <= b
<1> DEFINE Bounded(k) == \E b \in Nat : \A i \in 1..k : f[i] <= b
           Good == {k \in Nat : k <= n => Bounded(k)}
<1>1. 0 \in Good
  <2>1. 0 \in Nat /\ 1..0 = {}
    OBVIOUS
  <2> QED
    BY <2>1
<1>2. \A k \in Nat : k \in Good => k + 1 \in Good
  <2>1. SUFFICES ASSUME NEW k \in Nat, Bounded(k), k + 1 <= n PROVE Bounded(k + 1)
    <3> HIDE DEF Bounded
    <3> QED
      OBVIOUS
  <2>2. PICK b \in Nat : \A i \in 1..k : f[i] <= b
    BY <2>1
  <2>3. f[k + 1] \in Nat /\ \A i \in 1..k : f[i] \in Nat
    BY <2>1
  <2> DEFINE last == f[k + 1]
  <2>4. last \in Nat /\ b + last \in Nat
    BY <2>3
  <2> HIDE DEF last
  <2>5. ASSUME NEW i \in 1..k + 1 PROVE f[i] <= b + last
    <3>1. CASE i = k + 1
      <4>1. f[i] = last
        BY <3>1 DEF last
      <4>2. last <= b + last
        BY <2>4
      <4> QED
        BY <4>1, <4>2
    <3>2. CASE i # k + 1
      <4> DEFINE x == f[i]
      <4>1. x \in Nat /\ x <= b
        <5>1. i \in 1..k
          BY <3>2
        <5> QED
          BY <2>2, <2>3, <5>1
      <4> HIDE DEF x
      <4>2. x <= b + last
        BY <2>4, <4>1
      <4> QED
        BY <4>2 DEF x
    <3> QED
      BY <3>1, <3>2
  <2> QED
    BY <2>4, <2>5
<1> HIDE DEF Good
<1>3. n \in Good
  BY <1>1, <1>2, SetInduction
<1> QED
  BY <1>3 DEF Good
=============================================================================
