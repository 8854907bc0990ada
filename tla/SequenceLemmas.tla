--------------------------- MODULE SequenceLemmas ---------------------------
(***************************************************************************)
(* Facts about numbers and sequences that the proofs of several components *)
(* need.  The theorems of the library about induction and recursion take   *)
(* an operator; these take a set or a function instead.                    *)
(***************************************************************************)
EXTENDS Integers, SequencesExt, SequenceTheorems, WellFoundedInduction, TLAPS

(* A set of numbers that is not empty has a least one.                     *)
LEMMA Least ==
    ASSUME NEW S \in SUBSET Nat, S # {}
    PROVE  \E m \in S : \A k \in S : m <= k
<1>1. PICK R : R = OpToRel(<, Nat)
    OBVIOUS
<1>2. IsWellFoundedOn(R, Nat)
    BY <1>1, NatLessThanWellFounded
<1>3. PICK m \in S : \A k \in S : ~ (<<k, m>> \in R)
    BY <1>2, WFMin
<1>4. \A k \in S : <<k, m>> \in R <=> k < m
    BY <1>1 DEF OpToRel
<1>5. m \in Nat /\ \A k \in S : k \in Nat
    OBVIOUS
<1>6. \A k \in S : ~ (k < m)
    BY <1>3, <1>4
<1> QED BY <1>5, <1>6

(* Induction: a set with 0, and with each number the next, has all.        *)
LEMMA Induction ==
    ASSUME NEW S, 0 \in S, \A n \in Nat : n \in S => n + 1 \in S
    PROVE  \A n \in Nat : n \in S
<1> SUFFICES ASSUME NEW n \in Nat, n \notin S PROVE FALSE
    OBVIOUS
<1> DEFINE U == {k \in Nat : k \notin S}
<1>1. PICK m \in U : \A k \in U : m <= k
    <2>1. U \in SUBSET Nat /\ U # {}
        OBVIOUS
    <2> HIDE DEF U
    <2> QED BY <2>1, Least
<1>2. m # 0 /\ m \in Nat
    BY <1>1
<1>3. m - 1 \in Nat /\ m - 1 \notin U
    BY <1>1, <1>2
<1>4. (m - 1) + 1 \in S
    BY <1>3
<1> QED BY <1>1, <1>2, <1>4

(* A function of the numbers that begins with a and goes on by step.       *)
GoesOn(f, A, a, step) ==
    /\ f \in [Nat -> A] /\ f[0] = a
    /\ \A n \in Nat : f[n + 1] = step[<<n, f[n]>>]

(* Recursion: there is one.                                                *)
LEMMA Recursion ==
    ASSUME NEW A, NEW a \in A, NEW step \in [Nat \X A -> A]
    PROVE  \E f : GoesOn(f, A, a, step)
<1> DEFINE Upto(n) ==
        {g \in [0 .. n -> A] :
            g[0] = a /\ \A k \in 0 .. n - 1 : g[k + 1] = step[<<k, g[k]>>]}
           S == {n \in Nat : Upto(n) # {}}
<1>1. 0 \in S
    <2>1. [k \in 0 .. 0 |-> a] \in Upto(0)
        OBVIOUS
    <2> QED BY <2>1
<1>2. ASSUME NEW n \in Nat, n \in S PROVE n + 1 \in S
    <2>1. PICK g \in Upto(n) : TRUE
        BY <1>2
    <2>2. step[<<n, g[n]>>] \in A
        BY <2>1
    <2> DEFINE h == [k \in 0 .. n + 1 |->
                        IF k = n + 1 THEN step[<<n, g[n]>>] ELSE g[k]]
    <2>3. h \in [0 .. n + 1 -> A] /\ h[0] = a
        BY <2>1, <2>2
    <2>4. ASSUME NEW k \in 0 .. n PROVE h[k + 1] = step[<<k, h[k]>>]
        <3>1. h[k] = g[k]
            OBVIOUS
        <3>2. CASE k = n
            <4>1. h[n + 1] = step[<<n, g[n]>>]
                OBVIOUS
            <4> HIDE DEF h
            <4> QED BY <3>1, <3>2, <4>1
        <3>3. CASE k # n
            <4>1. h[k + 1] = g[k + 1] /\ k \in 0 .. n - 1
                BY <3>3
            <4> QED BY <2>1, <3>1, <4>1
        <3> QED BY <3>2, <3>3
    <2>5. h \in Upto(n + 1)
        <3> HIDE DEF h
        <3> QED BY <2>3, <2>4
    <2> HIDE DEF Upto
    <2> QED BY <2>5
<1>3. \A n \in Nat : n \in S
    <2> HIDE DEF S
    <2> QED BY <1>1, <1>2, Induction
<1> DEFINE G == [n \in Nat |-> CHOOSE g \in Upto(n) : TRUE]
<1>4. \A n \in Nat : G[n] \in Upto(n)
    BY <1>3
<1>5. ASSUME NEW n \in Nat, NEW g \in Upto(n), NEW m \in Nat, n <= m,
             NEW h \in Upto(m)
      PROVE  g[n] = h[n]
    <2> DEFINE T == {k \in Nat : k <= n => g[k] = h[k]}
    <2>1. 0 \in T
        OBVIOUS
    <2>2. ASSUME NEW k \in Nat, k \in T PROVE k + 1 \in T
        <3>1. CASE k + 1 <= n
            <4>1. g[k + 1] = step[<<k, g[k]>>]
                BY <3>1
            <4>2. h[k + 1] = step[<<k, h[k]>>]
                BY <1>5, <3>1
            <4> QED BY <2>2, <3>1, <4>1, <4>2
        <3>2. CASE ~ (k + 1 <= n)
            BY <3>2
        <3> QED BY <3>1, <3>2
    <2>3. \A k \in Nat : k \in T
        <3> HIDE DEF T
        <3> QED BY <2>1, <2>2, Induction
    <2> QED BY <2>3
<1> DEFINE f == [n \in Nat |-> G[n][n]]
<1>6. f \in [Nat -> A] /\ f[0] = a
    <2> HIDE DEF G
    <2>1. \A n \in Nat : G[n] \in [0 .. n -> A] /\ G[n][0] = a
        BY <1>4
    <2> QED BY <2>1
<1>7. ASSUME NEW n \in Nat PROVE f[n + 1] = step[<<n, f[n]>>]
    <2> HIDE DEF G
    <2>1. G[n + 1] \in Upto(n + 1) /\ G[n] \in Upto(n)
        BY <1>4
    <2>2. G[n + 1][n] = G[n][n]
        <3> HIDE DEF Upto
        <3> QED BY <1>5, <2>1
    <2>3. G[n + 1][n + 1] = step[<<n, G[n + 1][n]>>]
        BY <2>1
    <2> QED BY <2>2, <2>3
<1> HIDE DEF f
<1> QED BY <1>6, <1>7 DEF GoesOn

-----------------------------------------------------------------------------
(* One sequence and another: what is where.                                *)
LEMMA ConcatParts ==
    ASSUME NEW T, NEW s \in Seq(T), NEW t \in Seq(T), NEW a, NEW b,
           Len(s) = a, Len(t) = b
    PROVE  /\ s \o t \in Seq(T) /\ Len(s \o t) = a + b
           /\ \A p \in 1 .. a : (s \o t)[p] = s[p]
           /\ \A p \in 1 .. b : (s \o t)[a + p] = t[p]
<1>1. a \in Nat /\ b \in Nat
    BY LenProperties
<1>2. \A p \in 1 .. b : /\ a + p \in 1 .. a + b
                        /\ ~ (a + p <= a)
                        /\ (a + p) - a = p
    BY <1>1
<1>3. /\ s \o t \in Seq(T) /\ Len(s \o t) = a + b
      /\ \A p \in 1 .. a + b :
            (s \o t)[p] = IF p <= a THEN s[p] ELSE t[p - a]
    BY ConcatProperties
<1>4. \A p \in 1 .. a : (s \o t)[p] = s[p]
    BY <1>1, <1>3
<1>5. ASSUME NEW p \in 1 .. b PROVE (s \o t)[a + p] = t[p]
    BY <1>2, <1>3
<1> QED BY <1>3, <1>4, <1>5

(* One element more.                                                       *)
LEMMA ConcatOne ==
    ASSUME NEW T, NEW s \in Seq(T), NEW t \in Seq(T), NEW a,
           Len(s) = a, Len(t) = 1
    PROVE  /\ s \o t \in Seq(T) /\ Len(s \o t) = a + 1
           /\ \A p \in 1 .. a : (s \o t)[p] = s[p]
           /\ (s \o t)[a + 1] = t[1]
<1>1. a \in Nat
    BY LenProperties
<1>2. /\ a + 1 \in 1 .. a + 1 /\ ~ (a + 1 <= a)
      /\ (a + 1) - a = 1
    BY <1>1
<1>3. /\ s \o t \in Seq(T) /\ Len(s \o t) = Len(s) + Len(t)
      /\ \A p \in 1 .. Len(s) + Len(t) :
            (s \o t)[p] = IF p <= Len(s) THEN s[p] ELSE t[p - Len(s)]
    BY ConcatProperties
<1>4. \A p \in 1 .. a : (s \o t)[p] = s[p]
    BY <1>1, <1>3
<1>5. (s \o t)[a + 1] = t[1]
    BY <1>2, <1>3
<1> QED BY <1>3, <1>4, <1>5

(* A part of a sequence.                                                   *)
LEMMA PartIs ==
    ASSUME NEW T, NEW t \in Seq(T), NEW s \in Seq(T), NEW i \in Nat,
           i + Len(s) <= Len(t),
           \A p \in 1 .. Len(s) : t[i + p] = s[p]
    PROVE  SubSeq(t, i + 1, i + Len(s)) = s
<1> DEFINE n == Len(s)
           u == SubSeq(t, i + 1, i + n)
<1>1. n \in Nat /\ Len(t) \in Nat
    BY LenProperties
<1>2. /\ i + 1 \in 1 .. Len(t) + 1 /\ i + n \in (i + 1) - 1 .. Len(t)
      /\ (i + n) - (i + 1) + 1 = n
    BY <1>1
<1>3. /\ u \in Seq(T) /\ Len(u) = n
      /\ \A p \in 1 .. n : u[p] = t[(i + 1) + p - 1]
    BY <1>2, SubSeqProperties
<1>4. \A p \in 1 .. n : (i + 1) + p - 1 = i + p
    BY <1>1
<1> HIDE DEF u
<1>5. \A p \in 1 .. Len(u) : u[p] = s[p]
    BY <1>3, <1>4
<1>6. u = s
    BY <1>3, <1>5, SeqEqual
<1> QED BY <1>6 DEF u

-----------------------------------------------------------------------------
(* FlattenSeq.                                                             *)

(* What it computes, if f says what it has come to after each sequence.    *)
LEMMA FlattenIs ==
    ASSUME NEW T, NEW ss \in Seq(Seq(T)), NEW f, f[0] = <<>>,
           \A n \in 0 .. Len(ss) - 1 : /\ f[n] \in Seq(T)
                                       /\ f[n + 1] = f[n] \o ss[n + 1]
    PROVE  FlattenSeq(ss) = f[Len(ss)]
<1>1. CASE Len(ss) = 0
    <2>1. ss = <<>>
        BY <1>1, EmptySeq
    <2> QED BY <1>1, <2>1 DEF FlattenSeq
<1>2. CASE Len(ss) # 0
    <2> DEFINE N == Len(ss)
               Eq(g) == g = [i \in 1 .. N |->
                               IF i = 1 THEN ss[i] ELSE g[i - 1] \o ss[i]]
               g0 == [i \in 1 .. N |-> f[i]]
    <2>0. N \in Nat \ {0} /\ \A i \in 1 .. N : ss[i] \in Seq(T)
        BY <1>2, LenProperties, ElementOfSeq
    <2>1. \A n \in 0 .. N - 1 : f[n + 1] = f[n] \o ss[n + 1]
        OBVIOUS
    <2>2. PICK g : g = CHOOSE x : Eq(x)
        OBVIOUS
    <2>3. FlattenSeq(ss) = g[N]
        BY <1>2, <2>2 DEF FlattenSeq
    <2> HIDE DEF N
    <2>4. f[1] = ss[1]
        <3>1. 0 \in 0 .. N - 1 /\ 0 + 1 = 1
            BY <2>0
        <3>2. f[1] = <<>> \o ss[1]
            BY <2>1, <3>1
        <3>3. ss[1] \in Seq(T)
            BY <2>0
        <3> QED BY <3>2, <3>3, ConcatEmptySeq
    <2>5. ASSUME NEW i \in 2 .. N PROVE f[i] = f[i - 1] \o ss[i]
        <3>1. i - 1 \in 0 .. N - 1 /\ (i - 1) + 1 = i
            BY <2>0
        <3>2. f[(i - 1) + 1] = f[i - 1] \o ss[(i - 1) + 1]
            BY <2>1, <3>1
        <3> QED BY <3>1, <3>2
    <2>6. Eq(g0)
        <3>1. ASSUME NEW i \in 1 .. N
              PROVE  g0[i] = IF i = 1 THEN ss[i] ELSE g0[i - 1] \o ss[i]
            <4>1. CASE i = 1
                BY <2>4, <4>1
            <4>2. CASE i # 1
                <5>1. i \in 2 .. N /\ i - 1 \in 1 .. N
                    BY <2>0, <4>2
                <5>2. g0[i] = f[i] /\ g0[i - 1] = f[i - 1]
                    BY <5>1
                <5> HIDE DEF g0
                <5> QED BY <2>5, <4>2, <5>1, <5>2
            <4> QED BY <4>1, <4>2
        <3> QED BY <3>1
    <2>7. Eq(g)
        <3> HIDE DEF Eq
        <3> QED BY <2>2, <2>6
    <2> DEFINE S == {i \in Nat : i + 1 <= N => g[i + 1] = f[i + 1]}
    <2>8. 0 \in S
        <3>1. g[1] = ss[1]
            BY <2>0, <2>7
        <3> QED BY <2>4, <3>1
    <2>9. ASSUME NEW i \in Nat, i \in S PROVE i + 1 \in S
        <3>1. CASE (i + 1) + 1 <= N
            <4>1. (i + 1) + 1 \in 2 .. N /\ ((i + 1) + 1) - 1 = i + 1
                BY <2>0, <3>1
            <4>2. g[(i + 1) + 1] = g[i + 1] \o ss[(i + 1) + 1]
                <5> DEFINE k == (i + 1) + 1
                <5>1. k \in 1 .. N /\ k # 1 /\ k - 1 = i + 1
                    BY <2>0, <4>1
                <5> HIDE DEF k
                <5>2. g[k] = g[k - 1] \o ss[k]
                    BY <2>7, <5>1
                <5> QED BY <5>1, <5>2 DEF k
            <4>3. f[(i + 1) + 1] = f[i + 1] \o ss[(i + 1) + 1]
                BY <2>5, <4>1
            <4>4. i + 1 <= N
                BY <2>0, <3>1
            <4>5. g[i + 1] = f[i + 1]
                BY <2>9, <4>4
            <4>6. g[(i + 1) + 1] = f[(i + 1) + 1]
                <5> HIDE DEF Eq, S
                <5> QED BY <4>2, <4>3, <4>5
            <4> HIDE DEF Eq
            <4> QED BY <4>6
        <3>2. CASE ~ ((i + 1) + 1 <= N)
            BY <3>2
        <3> QED BY <3>1, <3>2
    <2>10. \A i \in Nat : i \in S
        <3> HIDE DEF S
        <3> QED BY <2>8, <2>9, Induction
    <2>11. g[N] = f[N]
        <3>1. N - 1 \in Nat /\ (N - 1) + 1 = N
            BY <2>0
        <3>2. N - 1 \in S
            BY <2>10, <3>1
        <3> HIDE DEF Eq
        <3> QED BY <2>0, <3>1, <3>2
    <2> QED BY <2>3, <2>11 DEF N
<1> QED BY <1>1, <1>2

(* There is always such an f.                                              *)
LEMMA FlattenSteps ==
    ASSUME NEW T, NEW ss \in Seq(Seq(T))
    PROVE  \E f \in [Nat -> Seq(T)] :
              /\ f[0] = <<>>
              /\ \A n \in 0 .. Len(ss) - 1 : f[n + 1] = f[n] \o ss[n + 1]
<1> DEFINE N == Len(ss)
           U == Seq(T)
           step == [p \in Nat \X U |->
                       IF p[1] < N THEN p[2] \o ss[p[1] + 1] ELSE p[2]]
<1>1. N \in Nat
    BY LenProperties
<1>2. step \in [Nat \X U -> U]
    <2>1. ASSUME NEW p \in Nat \X U, p[1] < N
          PROVE  p[2] \o ss[p[1] + 1] \in U
        <3>1. p[1] + 1 \in 1 .. N /\ p[2] \in Seq(T)
            BY <1>1, <2>1
        <3>2. ss[p[1] + 1] \in Seq(T)
            BY <3>1, ElementOfSeq
        <3> QED BY <3>1, <3>2, ConcatProperties
    <2> HIDE DEF U, N
    <2> QED BY <2>1
<1>3. <<>> \in U
    OBVIOUS
<1> HIDE DEF N, U
<1>4. PICK f : GoesOn(f, U, <<>>, step)
    <2> HIDE DEF step
    <2> QED BY <1>2, <1>3, Recursion
<1>5. ASSUME NEW n \in 0 .. N - 1 PROVE f[n + 1] = f[n] \o ss[n + 1]
    <2>1. n \in Nat /\ n < N
        BY <1>1
    <2>2. <<n, f[n]>> \in Nat \X U
        BY <1>4, <2>1 DEF GoesOn
    <2>3. f[n + 1] = step[<<n, f[n]>>]
        BY <1>4, <2>1 DEF GoesOn
    <2> QED BY <2>1, <2>2, <2>3
<1> QED BY <1>4, <1>5 DEF N, U, GoesOn

(* It yields a sequence.                                                   *)
LEMMA FlattenType ==
    ASSUME NEW T, NEW ss \in Seq(Seq(T))
    PROVE  FlattenSeq(ss) \in Seq(T)
<1> DEFINE N == Len(ss)
           U == Seq(T)
<1>1. N \in Nat
    BY LenProperties
<1>2. PICK f \in [Nat -> U] :
          f[0] = <<>> /\ \A n \in 0 .. N - 1 : f[n + 1] = f[n] \o ss[n + 1]
    BY FlattenSteps
<1>3. \A n \in 0 .. N - 1 : f[n] \in U
    <2> HIDE DEF N, U
    <2> QED BY <1>1, <1>2
<1>4. FlattenSeq(ss) = f[N]
    BY <1>2, <1>3, FlattenIs
<1> HIDE DEF N, U
<1>5. f[N] \in U
    BY <1>1, <1>2
<1> QED BY <1>4, <1>5 DEF U

(* Nothing, of nothing.                                                    *)
LEMMA FlattenEmpty == FlattenSeq(<<>>) = <<>>
BY DEF FlattenSeq

(* One sequence more is one sequence more.                                 *)
LEMMA FlattenAppend ==
    ASSUME NEW T, NEW ss \in Seq(Seq(T)), NEW s \in Seq(T)
    PROVE  FlattenSeq(Append(ss, s)) = FlattenSeq(ss) \o s
<1> DEFINE tt == Append(ss, s)
           N  == Len(ss)
           U  == Seq(T)
<1>1. N \in Nat
    BY LenProperties
<1>2. /\ tt \in Seq(U) /\ Len(tt) = N + 1
      /\ \A n \in 1 .. N : tt[n] = ss[n]
      /\ tt[N + 1] = s
    BY AppendProperties
<1> HIDE DEF tt
<1>3. PICK f \in [Nat -> U] :
          /\ f[0] = <<>>
          /\ \A n \in 0 .. Len(tt) - 1 : f[n + 1] = f[n] \o tt[n + 1]
    BY <1>2, FlattenSteps
<1>4. \A n \in 0 .. N : f[n] \in U
    <2> HIDE DEF N, U
    <2> QED BY <1>1, <1>3
<1>5. \A n \in 0 .. N : f[n + 1] = f[n] \o tt[n + 1]
    <2> HIDE DEF N, U
    <2> QED BY <1>1, <1>2, <1>3, SMTT(40)
<1>6. \A n \in 0 .. N - 1 : f[n + 1] = f[n] \o ss[n + 1]
    <2> HIDE DEF N, U
    <2>1. \A n \in 0 .. N - 1 : n \in 0 .. N /\ n + 1 \in 1 .. N
        BY <1>1
    <2> QED BY <1>2, <1>5, <2>1
<1>7. FlattenSeq(tt) = f[N + 1]
    <2>1. \A n \in 0 .. Len(tt) - 1 :
              f[n] \in Seq(T) /\ f[n + 1] = f[n] \o tt[n + 1]
        <3> HIDE DEF N
        <3>1. \A n \in 0 .. Len(tt) - 1 : n \in 0 .. N
            BY <1>1, <1>2
        <3> QED BY <1>4, <1>5, <3>1
    <2>2. FlattenSeq(tt) = f[Len(tt)]
        BY <1>2, <1>3, <2>1, FlattenIs
    <2> QED BY <1>2, <2>2
<1>8. FlattenSeq(ss) = f[N]
    <2>1. \A n \in 0 .. N - 1 :
              f[n] \in Seq(T) /\ f[n + 1] = f[n] \o ss[n + 1]
        <3> HIDE DEF N
        <3>1. \A n \in 0 .. N - 1 : n \in 0 .. N
            BY <1>1
        <3> QED BY <1>4, <1>6, <3>1
    <2> QED BY <1>3, <2>1, FlattenIs
<1>9. f[N + 1] = f[N] \o s
    <2> HIDE DEF N, U
    <2>1. N \in 0 .. N
        BY <1>1
    <2> QED BY <1>2, <1>5, <2>1
<1> QED BY <1>7, <1>8, <1>9 DEF tt

(* Of one sequence, and of two or three.                                   *)
LEMMA FlattenFew ==
    ASSUME NEW T, NEW ss \in Seq(Seq(T))
    PROVE  /\ Len(ss) = 1 => FlattenSeq(ss) = ss[1]
           /\ Len(ss) = 2 => FlattenSeq(ss) = ss[1] \o ss[2]
           /\ Len(ss) = 3 => FlattenSeq(ss) = (ss[1] \o ss[2]) \o ss[3]
<1> DEFINE N == Len(ss)
           U == Seq(T)
<1>1. N \in Nat
    BY LenProperties
<1>2. PICK f \in [Nat -> U] :
          f[0] = <<>> /\ \A n \in 0 .. N - 1 : f[n + 1] = f[n] \o ss[n + 1]
    BY FlattenSteps
<1>3. \A n \in 0 .. N - 1 : f[n] \in U
    <2> HIDE DEF N, U
    <2> QED BY <1>1, <1>2
<1>4. FlattenSeq(ss) = f[N]
    BY <1>2, <1>3, FlattenIs
<1>5. ASSUME N >= 1 PROVE f[1] = ss[1]
    <2>1. 0 \in 0 .. N - 1 /\ 1 \in 1 .. N /\ 0 + 1 = 1
        BY <1>1, <1>5
    <2>2. ss[1] \in Seq(T)
        BY <2>1, ElementOfSeq
    <2>3. <<>> \o ss[1] = ss[1]
        BY <2>2, ConcatEmptySeq
    <2> HIDE DEF N, U
    <2> QED BY <1>2, <2>1, <2>3
<1>6. ASSUME N >= 2 PROVE f[2] = f[1] \o ss[2]
    <2>1. 1 \in 0 .. N - 1 /\ 1 + 1 = 2
        BY <1>1, <1>6
    <2> HIDE DEF N, U
    <2> QED BY <1>2, <2>1
<1>7. ASSUME N >= 3 PROVE f[3] = f[2] \o ss[3]
    <2>1. 2 \in 0 .. N - 1 /\ 2 + 1 = 3
        BY <1>1, <1>7
    <2> HIDE DEF N, U
    <2> QED BY <1>2, <2>1
<1> HIDE DEF N, U
<1>8. N = 1 => FlattenSeq(ss) = ss[1]
    BY <1>4, <1>5
<1>9. ASSUME N = 2 PROVE FlattenSeq(ss) = ss[1] \o ss[2]
    <2>1. N >= 1 /\ N >= 2
        BY <1>9
    <2> QED BY <1>4, <1>5, <1>6, <1>9, <2>1
<1>10. ASSUME N = 3 PROVE FlattenSeq(ss) = (ss[1] \o ss[2]) \o ss[3]
    <2>1. N >= 1 /\ N >= 2 /\ N >= 3
        BY <1>10
    <2> QED BY <1>4, <1>5, <1>6, <1>7, <1>10, <2>1
<1> QED BY <1>8, <1>9, <1>10 DEF N
=============================================================================
