---------------------------- MODULE Selection_proofs ----------------------------
(***************************************************************************)
(* Induction over natural numbers and the existence of recursive functions,*)
(* for the proofs of all components, and what Selection gives, for all     *)
(* sequences.  They speak of sets and functions, which the provers can use,*)
(* instead of operators, which they cannot.                                *)
(***************************************************************************)
EXTENDS Selection, WellFoundedInduction, SequenceTheorems, TLAPS

(***************************************************************************)
(* Induction and recursion.                                                *)
(***************************************************************************)

LessThan == {p \in Nat \X Nat : p[1] < p[2]}

LEMMA LessThanWellFounded == IsWellFoundedOn(LessThan, Nat)
  BY NatLessThanWellFounded DEF OpToRel, LessThan

(* A set of natural numbers has a least one.                               *)
LEMMA LeastNumber ==
  ASSUME NEW T \in SUBSET Nat, T # {}
  PROVE  \E least \in T : \A n \in T : least <= n
<1>1. PICK least \in T : \A n \in T : ~ (<<n, least>> \in LessThan)
  BY LessThanWellFounded, WFMin
<1>2. ASSUME NEW n \in T
      PROVE  least <= n
  <2>1. least \in Nat /\ n \in Nat /\ ~ (<<n, least>> \in LessThan)
    BY <1>1
  <2>2. n < least => <<n, least>> \in LessThan
    BY <2>1 DEF LessThan
  <2> QED BY <2>1, <2>2
<1> QED BY <1>2

(* What holds of m, and of n + 1 if it holds of n, holds from m on.        *)
LEMMA Induction ==
  ASSUME NEW m \in Int, NEW T, m \in T, \A n \in Int : n >= m /\ n \in T => n + 1 \in T
  PROVE  \A n \in Int : n >= m => n \in T
<1> DEFINE Missing == {k \in Nat : m + k \notin T}
<1>1. ASSUME Missing # {}
      PROVE  FALSE
  <2>1. PICK k \in Missing : \A n \in Missing : k <= n
    BY <1>1, LeastNumber
  <2>2. k # 0 /\ k - 1 \in Nat /\ k - 1 \notin Missing
    BY <2>1
  <2>3. m + (k - 1) \in T /\ (m + (k - 1)) + 1 = m + k /\ m + (k - 1) \in Int /\ m + (k - 1) >= m
    BY <2>2
  <2> QED BY <2>1, <2>3
<1>2. ASSUME NEW n \in Int, n >= m
      PROVE  n \in T
  <2>1. n - m \in Nat /\ m + (n - m) = n
    BY <1>2
  <2> QED BY <1>1, <2>1
<1> QED BY <1>2

(* The same up to a number N.                                              *)
LEMMA InductionUpTo ==
  ASSUME NEW N \in Nat, NEW T, 0 \in T, \A n \in 1..N : n - 1 \in T => n \in T
  PROVE  \A n \in 0..N : n \in T
<1> DEFINE U == T \cup {n \in Int : n > N}
<1>1. \A n \in Int : n >= 0 /\ n \in U => n + 1 \in U
  <2>1. SUFFICES ASSUME NEW n \in Int, n >= 0, n \in U, n + 1 <= N
                 PROVE  n + 1 \in T
    OBVIOUS
  <2>2. n + 1 \in 1..N /\ (n + 1) - 1 \in T
    BY <2>1
  <2> QED BY <2>2
<1>2. 0 \in U
  OBVIOUS
<1> HIDE DEF U
<1>3. \A n \in Int : n >= 0 => n \in U
  BY <1>1, <1>2, Induction
<1> QED BY <1>3 DEF U

(* f is what LET f[n \in 0..N] == IF n = 0 THEN start ELSE ... f[n - 1] ...*)
(* defines.                                                                *)
IsRecursive(f, N, start, step) ==
  f[0] = start /\ \A n \in 1..N : f[n] = step[<<f[n - 1], n>>]

(* Such a function exists.                                                 *)
LEMMA Recursion ==
  ASSUME NEW N \in Nat, NEW S, NEW start \in S, NEW step \in [S \X (1..N) -> S]
  PROVE  \E f \in [0..N -> S] : IsRecursive(f, N, start, step)
<1> DEFINE Defined(k) == \E f \in [0..k -> S] :
                           /\ f[0] = start
                           /\ \A n \in 1..k : f[n] = step[<<f[n - 1], n>>]
           T == {k \in Nat : k <= N => Defined(k)}
<1>1. 0 \in T
  <2>1. Defined(0)
    <3> DEFINE f == [n \in 0..0 |-> start]
    <3>1. f \in [0..0 -> S] /\ f[0] = start
      OBVIOUS
    <3>2. \A n \in 1..0 : f[n] = step[<<f[n - 1], n>>]
      OBVIOUS
    <3> HIDE DEF f
    <3> QED BY <3>1, <3>2
  <2> QED BY <2>1
<1>2. ASSUME NEW k \in Int, k >= 0, k \in T
      PROVE  k + 1 \in T
  <2>1. SUFFICES ASSUME k + 1 <= N
                 PROVE  Defined(k + 1)
    BY <1>2
  <2>2. PICK f \in [0..k -> S] :
          f[0] = start /\ \A n \in 1..k : f[n] = step[<<f[n - 1], n>>]
    BY <1>2, <2>1
  <2> DEFINE g == [n \in 0..(k + 1) |-> IF n <= k THEN f[n] ELSE step[<<f[k], k + 1>>]]
  <2>3. step[<<f[k], k + 1>>] \in S
    <3>1. f[k] \in S /\ k + 1 \in 1..N
      BY <1>2, <2>1
    <3> QED BY <3>1
  <2>4. g \in [0..(k + 1) -> S]
    BY <1>2, <2>3
  <2>5. g[0] = start
    BY <1>2, <2>2
  <2>6. ASSUME NEW n \in 1..(k + 1)
        PROVE  g[n] = step[<<g[n - 1], n>>]
    <3>1. n - 1 \in 0..(k + 1) /\ n \in 0..(k + 1) /\ n - 1 <= k /\ g[n - 1] = f[n - 1]
      BY <1>2
    <3>2. CASE n <= k
      <4>1. n \in 1..k
        BY <3>2
      <4> QED BY <2>2, <3>1, <3>2, <4>1
    <3>3. CASE ~ (n <= k)
      <4>1. n = k + 1 /\ n - 1 = k
        BY <1>2, <3>3
      <4> QED BY <3>1, <3>3, <4>1
    <3> QED BY <3>2, <3>3
  <2> HIDE DEF g
  <2> QED BY <2>4, <2>5, <2>6
<1>3. N \in T
  <2> HIDE DEF T
  <2>1. \A k \in Int : k >= 0 /\ k \in T => k + 1 \in T
    BY <1>2
  <2>2. \A k \in Int : k >= 0 => k \in T
    BY <1>1, <2>1, Induction
  <2> QED BY <2>2
<1>4. PICK f \in [0..N -> S] : f[0] = start /\ \A n \in 1..N : f[n] = step[<<f[n - 1], n>>]
  BY <1>3
<1> QED BY <1>4 DEF IsRecursive

(***************************************************************************)
(* What is picked.                                                         *)
(***************************************************************************)

(* What is picked from a sequence is as its recursive definition says.     *)
LEMMA PickedDefined ==
  ASSUME NEW seq, Len(seq) \in Nat, NEW positions, NEW R, \A i \in 1..Len(seq) : seq[i] \in R
  PROVE  /\ PickedUpTo(seq, positions)[0] = <<>>
         /\ \A n \in 1..Len(seq) : PickedUpTo(seq, positions)[n] =
              IF n \in positions THEN Append(PickedUpTo(seq, positions)[n - 1], seq[n])
              ELSE PickedUpTo(seq, positions)[n - 1]
         /\ \A n \in 0..Len(seq) : PickedUpTo(seq, positions)[n] \in Seq(R)
<1> DEFINE N == Len(seq)
           S == Seq(R)
           Next1(s, n) == IF n \in positions THEN Append(s, seq[n]) ELSE s
           step == [p \in S \X (1..N) |-> Next1(p[1], p[2])]
           P == PickedUpTo(seq, positions)
<1>1. \A s \in S, n \in 1..N : Next1(s, n) \in S
  <2>1. SUFFICES ASSUME NEW s \in S, NEW n \in 1..N
                 PROVE  Append(s, seq[n]) \in S
    OBVIOUS
  <2> QED BY <2>1, AppendProperties
<1>2. N \in Nat /\ <<>> \in S
  BY EmptySeq
<1>3. step \in [S \X (1..N) -> S]
  <2> HIDE DEF S, N, Next1
  <2> QED BY <1>1
<1>4. PICK f \in [0..N -> S] : IsRecursive(f, N, <<>>, step)
  <2> HIDE DEF step, S, N
  <2> QED BY <1>2, <1>3, Recursion
<1>5. ASSUME NEW n \in 1..N
      PROVE  n - 1 \in 0..N /\ f[n] = Next1(f[n - 1], n)
  <2>1. n - 1 \in 0..N
    BY <1>2
  <2>2. f[n - 1] \in S
    BY <1>4, <2>1
  <2>3. f[n] = step[<<f[n - 1], n>>]
    <3> HIDE DEF step, S, N
    <3> QED BY <1>4 DEF IsRecursive
  <2> HIDE DEF S, N, Next1
  <2> QED BY <2>1, <2>2, <2>3
<1>6. ASSUME NEW n \in 0..N
      PROVE  f[n] = IF n = 0 THEN <<>> ELSE Next1(f[n - 1], n)
  <2>1. n # 0 => n \in 1..N
    BY <1>2
  <2> HIDE DEF Next1
  <2> QED BY <1>4, <1>5, <2>1 DEF IsRecursive
<1>7. f = [n \in 0..N |-> IF n = 0 THEN <<>> ELSE Next1(f[n - 1], n)]
  <2> HIDE DEF Next1, S, N
  <2> QED BY <1>4, <1>6, SMTT(30)
<1>8. P = [n \in 0..N |-> IF n = 0 THEN <<>> ELSE Next1(P[n - 1], n)]
  <2>1. f = [n \in 0..N |-> IF n = 0 THEN <<>>
               ELSE IF n \in positions THEN Append(f[n - 1], seq[n]) ELSE f[n - 1]]
    BY <1>7
  <2> HIDE DEF S, Next1
  <2> QED BY <2>1, ZenonT(30) DEF PickedUpTo, Next1
<1> HIDE DEF P, Next1, N, S
<1>9. P[0] = <<>> /\ \A n \in 1..N : n - 1 \in 0..N /\ P[n] = Next1(P[n - 1], n)
  <2>1. P[0] = <<>>
    <3>1. 0 \in 0..N
      BY <1>2
    <3> QED BY <1>8, <3>1
  <2>2. ASSUME NEW n \in 1..N
        PROVE  n - 1 \in 0..N /\ P[n] = Next1(P[n - 1], n)
    <3>1. n \in 0..N /\ n # 0 /\ n - 1 \in 0..N
      BY <1>2
    <3> QED BY <1>8, <3>1
  <2> QED BY <2>1, <2>2
<1>10. \A n \in 0..N : P[n] \in S
  <2> DEFINE T == {n \in 0..N : P[n] \in S}
  <2>1. 0 \in T
    BY <1>2, <1>9
  <2>2. ASSUME NEW n \in 1..N, n - 1 \in T
        PROVE  n \in T
    <3>1. n \in 0..N /\ P[n - 1] \in S
      BY <1>2, <2>2
    <3> QED BY <1>1, <1>9, <3>1
  <2> HIDE DEF T
  <2>3. \A n \in 0..N : n \in T
    BY <1>2, <2>1, <2>2, InductionUpTo
  <2> QED BY <2>3 DEF T
<1> QED BY <1>9, <1>10 DEF P, N, S, Next1

(* No more is picked than there are positions, and all if all are picked.  *)
LEMMA PickedLen ==
  ASSUME NEW seq, Len(seq) \in Nat, NEW positions, NEW R, \A i \in 1..Len(seq) : seq[i] \in R
  PROVE  /\ Picked(seq, positions) \in Seq(R)
         /\ Len(Picked(seq, positions)) \in 0..Len(seq)
         /\ 1..Len(seq) \subseteq positions => Len(Picked(seq, positions)) = Len(seq)
<1> DEFINE N == Len(seq)
           P == PickedUpTo(seq, positions)
           All == 1..N \subseteq positions
           T == {n \in 0..N : Len(P[n]) \in 0..n /\ (All => Len(P[n]) = n)}
<1>1. N \in Nat
  OBVIOUS
<1>2. \A n \in 1..N : seq[n] \in R
  OBVIOUS
<1>3. /\ P[0] = <<>>
      /\ \A n \in 1..N : P[n] = IF n \in positions THEN Append(P[n - 1], seq[n]) ELSE P[n - 1]
      /\ \A n \in 0..N : P[n] \in Seq(R)
  BY PickedDefined
<1>4. \A n \in 1..N : All => n \in positions
  OBVIOUS
<1>5. Picked(seq, positions) = P[N]
  BY DEF Picked
<1> HIDE DEF P, N, All
<1>6. 0 \in T
  BY <1>1, <1>3, EmptySeq
<1>7. ASSUME NEW n \in 1..N, n - 1 \in T
      PROVE  n \in T
  <2>1. /\ n \in 0..N /\ n - 1 \in 0..N /\ P[n - 1] \in Seq(R) /\ Len(P[n - 1]) \in 0..(n - 1)
        /\ All => Len(P[n - 1]) = n - 1
    BY <1>1, <1>3, <1>7
  <2>2. CASE n \in positions
    <3>1. P[n] = Append(P[n - 1], seq[n])
      BY <1>3, <2>2
    <3>2. Len(P[n]) = Len(P[n - 1]) + 1
      BY <1>2, <2>1, <3>1, AppendProperties
    <3> QED BY <1>1, <2>1, <3>2
  <2>3. CASE n \notin positions
    <3>1. P[n] = P[n - 1] /\ ~All
      BY <1>3, <1>4, <2>3
    <3> QED BY <1>1, <2>1, <3>1
  <2> QED BY <2>2, <2>3
<1>8. \A n \in 0..N : n \in T
  <2> HIDE DEF T
  <2> QED BY <1>1, <1>6, <1>7, InductionUpTo
<1>9. N \in T /\ P[N] \in Seq(R)
  BY <1>1, <1>3, <1>8
<1> QED BY <1>5, <1>9 DEF N, All

(* Nothing is picked but what is at the positions.                         *)
LEMMA PickedAmong ==
  ASSUME NEW seq, Len(seq) \in Nat, NEW positions
  PROVE  Picked(seq, positions) \in Seq({seq[i] : i \in {k \in 1..Len(seq) : k \in positions}})
<1> DEFINE N == Len(seq)
           F == PickedUpTo(seq, positions)
           R == {seq[i] : i \in {k \in 1..Len(seq) : k \in positions}}
           T == {n \in 0..N : F[n] \in Seq(R)}
<1>1. /\ F[0] = <<>>
      /\ \A n \in 1..N : F[n] = IF n \in positions THEN Append(F[n - 1], seq[n]) ELSE F[n - 1]
  <2> DEFINE All == {seq[i] : i \in 1..N}
  <2>1. \A i \in 1..Len(seq) : seq[i] \in All
    OBVIOUS
  <2> HIDE DEF All
  <2>2. /\ F[0] = <<>>
        /\ \A n \in 1..Len(seq) : F[n] = IF n \in positions THEN Append(F[n - 1], seq[n]) ELSE F[n - 1]
        /\ \A n \in 0..Len(seq) : F[n] \in Seq(All)
    BY <2>1, PickedDefined
  <2> QED BY <2>2
<1>2. N \in Nat /\ \A n \in 1..N : n \in positions => seq[n] \in R
  OBVIOUS
<1>3. Picked(seq, positions) = F[N]
  BY DEF Picked
<1> HIDE DEF F, N, R
<1>4. 0 \in T
  <2>1. 0 \in 0..N /\ <<>> \in Seq(R)
    BY <1>2, EmptySeq
  <2> QED BY <1>1, <2>1
<1>5. ASSUME NEW n \in 1..N, n - 1 \in T
      PROVE  n \in T
  <2>1. n \in 0..N /\ F[n - 1] \in Seq(R)
    BY <1>2, <1>5
  <2>2. CASE n \in positions
    <3>1. F[n] = Append(F[n - 1], seq[n]) /\ seq[n] \in R
      BY <1>1, <1>2, <2>2
    <3>2. Append(F[n - 1], seq[n]) \in Seq(R)
      BY <2>1, <3>1, AppendProperties
    <3> QED BY <2>1, <3>1, <3>2
  <2>3. CASE n \notin positions
    BY <1>1, <2>1, <2>3
  <2> QED BY <2>2, <2>3
<1>6. \A n \in 0..N : n \in T
  <2> HIDE DEF T
  <2> QED BY <1>2, <1>4, <1>5, InductionUpTo
<1>7. N \in T
  BY <1>2, <1>6
<1> QED BY <1>3, <1>7 DEF R

(* An element more, at a position that is picked or not.                   *)
LEMMA PickedAppend ==
  ASSUME NEW R, NEW seq \in Seq(R), NEW e \in R, NEW P, NEW Q,
         \A i \in 1..Len(seq) : i \in Q <=> i \in P
  PROVE  Picked(Append(seq, e), Q) =
           IF Len(seq) + 1 \in Q THEN Append(Picked(seq, P), e) ELSE Picked(seq, P)
<1> DEFINE N    == Len(seq)
           more == Append(seq, e)
           F    == PickedUpTo(seq, P)
           G    == PickedUpTo(more, Q)
           T    == {n \in 0..N : F[n] = G[n]}
<1>1. /\ N \in Nat /\ more \in Seq(R) /\ Len(more) = N + 1 /\ more[N + 1] = e
      /\ \A n \in 1..N : more[n] = seq[n]
  BY AppendProperties, LenProperties
<1>2. /\ F[0] = <<>> /\ Picked(seq, P) = F[N]
      /\ \A n \in 1..N : F[n] = IF n \in P THEN Append(F[n - 1], seq[n]) ELSE F[n - 1]
  <2>1. Len(seq) \in Nat /\ \A i \in 1..Len(seq) : seq[i] \in R
    BY LenProperties, ElementOfSeq
  <2> QED BY <2>1, PickedDefined DEF Picked
<1>3. /\ G[0] = <<>> /\ Picked(more, Q) = G[N + 1]
      /\ \A n \in 1..(N + 1) : G[n] = IF n \in Q THEN Append(G[n - 1], more[n]) ELSE G[n - 1]
  <2>1. Len(more) = N + 1 /\ Len(more) \in Nat /\ more \in Seq(R)
    BY <1>1
  <2> HIDE DEF more, N
  <2>2. \A i \in 1..Len(more) : more[i] \in R
    BY <2>1
  <2> QED BY <2>1, <2>2, PickedDefined DEF Picked
<1>4. \A n \in 1..N : n \in Q <=> n \in P
  OBVIOUS
<1> HIDE DEF N, more, F, G
<1>5. 0 \in T
  BY <1>1, <1>2, <1>3
<1>6. ASSUME NEW n \in 1..N, n - 1 \in T
      PROVE  n \in T
  <2>1. n \in 1..(N + 1) /\ n \in 0..N /\ more[n] = seq[n] /\ F[n - 1] = G[n - 1]
    BY <1>1, <1>6
  <2> QED BY <1>2, <1>3, <1>4, <2>1
<1>7. \A n \in 0..N : n \in T
  <2> HIDE DEF T
  <2> QED BY <1>1, <1>5, <1>6, InductionUpTo
<1>8. N + 1 \in 1..(N + 1) /\ (N + 1) - 1 = N /\ F[N] = G[N]
  BY <1>1, <1>7
<1> QED BY <1>1, <1>2, <1>3, <1>8 DEF more, N

(* Nothing is picked if no position is, and only then.                     *)
LEMMA PickedNothing ==
  ASSUME NEW R, NEW seq \in Seq(R), NEW P
  PROVE  Picked(seq, P) = <<>> <=> \A i \in 1..Len(seq) : i \notin P
<1> DEFINE N == Len(seq)
           F == PickedUpTo(seq, P)
           T == {n \in 0..N : F[n] = <<>> <=> \A i \in 1..n : i \notin P}
<1>1. N \in Nat /\ \A i \in 1..N : seq[i] \in R
  BY LenProperties, ElementOfSeq
<1>2. /\ F[0] = <<>> /\ Picked(seq, P) = F[N]
      /\ \A n \in 1..N : F[n] = IF n \in P THEN Append(F[n - 1], seq[n]) ELSE F[n - 1]
      /\ \A n \in 0..N : F[n] \in Seq(R)
  BY <1>1, PickedDefined DEF Picked
<1> HIDE DEF F, N
<1>3. 0 \in T
  BY <1>1, <1>2
<1>4. ASSUME NEW n \in 1..N, n - 1 \in T
      PROVE  n \in T
  <2>1. n \in 0..N /\ n - 1 \in 0..N /\ F[n - 1] \in Seq(R) /\ seq[n] \in R
    BY <1>1, <1>2
  <2>2. F[n - 1] = <<>> <=> \A i \in 1..(n - 1) : i \notin P
    BY <1>4
  <2>3. Append(F[n - 1], seq[n]) # <<>>
    BY <2>1, AppendProperties
  <2>4. F[n] = <<>> <=> n \notin P /\ F[n - 1] = <<>>
    BY <1>2, <2>3
  <2>5. (\A i \in 1..n : i \notin P) <=> n \notin P /\ \A i \in 1..(n - 1) : i \notin P
    BY <1>1
  <2> QED BY <2>1, <2>2, <2>4, <2>5
<1>5. \A n \in 0..N : n \in T
  <2> HIDE DEF T
  <2> QED BY <1>1, <1>3, <1>4, InductionUpTo
<1> QED BY <1>1, <1>2, <1>5 DEF N

(* An element may be appended before or after.                             *)
LEMMA ConcatAppend ==
  ASSUME NEW R, NEW s \in Seq(R), NEW t \in Seq(R), NEW e \in R
  PROVE  s \o Append(t, e) = Append(s \o t, e)
<1>1. Append(t, e) = t \o <<e>> /\ <<e>> \in Seq(R)
  BY AppendIsConcat
<1>2. s \o t \in Seq(R)
  BY ConcatProperties
<1>3. Append(s \o t, e) = (s \o t) \o <<e>>
  BY <1>2, AppendIsConcat
<1>4. (s \o t) \o <<e>> = s \o (t \o <<e>>)
  BY <1>1, ConcatAssociative
<1> QED BY <1>1, <1>3, <1>4

(* Of four parts.                                                          *)
LEMMA ConcatFour ==
  ASSUME NEW S, NEW a \in Seq(S), NEW b \in Seq(S), NEW c \in Seq(S), NEW d \in Seq(S)
  PROVE  ((a \o b) \o c) \o d = a \o ((b \o c) \o d) /\ (b \o c) \o d \in Seq(S)
<1>1. b \o c \in Seq(S)
  BY ConcatProperties
<1>2. (b \o c) \o d \in Seq(S)
  BY <1>1, ConcatProperties
<1>3. (a \o b) \o c = a \o (b \o c)
  BY ConcatAssociative, SMTT(30)
<1>4. (a \o (b \o c)) \o d = a \o ((b \o c) \o d)
  BY <1>1, ConcatAssociative, SMTT(30)
<1> QED BY <1>2, <1>3, <1>4

(* The positions of P are those of U that follow the first m, up to n.     *)
Shifted(P, U, m, n) == \A i \in 1..n : m + i \in U <=> i \in P

(* What is picked from two sequences.                                      *)
LEMMA PickedConcat ==
  ASSUME NEW R, NEW s \in Seq(R), NEW t \in Seq(R), NEW P, NEW Q, NEW U,
         Shifted(P, U, 0, Len(s)), Shifted(Q, U, Len(s), Len(t))
  PROVE  Picked(s \o t, U) = Picked(s, P) \o Picked(t, Q)
<1> DEFINE M    == Len(s)
           N    == Len(t)
           both == s \o t
           F    == PickedUpTo(s, P)
           G    == PickedUpTo(t, Q)
           H    == PickedUpTo(both, U)
           T    == {n \in 0..M : H[n] = F[n]}
           V    == {n \in 0..N : H[M + n] = F[M] \o G[n]}
<1>1. /\ M \in Nat /\ N \in Nat /\ both \in Seq(R) /\ Len(both) = M + N
      /\ \A n \in 1..M : both[n] = s[n]
      /\ \A n \in 1..N : both[M + n] = t[n]
  BY ConcatProperties, LenProperties
<1>2. /\ F[0] = <<>> /\ Picked(s, P) = F[M]
      /\ \A n \in 1..M : F[n] = IF n \in P THEN Append(F[n - 1], s[n]) ELSE F[n - 1]
      /\ \A n \in 0..M : F[n] \in Seq(R)
  <2>1. Len(s) \in Nat /\ \A i \in 1..Len(s) : s[i] \in R
    BY LenProperties, ElementOfSeq
  <2> QED BY <2>1, PickedDefined DEF Picked
<1>3. /\ G[0] = <<>> /\ Picked(t, Q) = G[N]
      /\ \A n \in 1..N : G[n] = IF n \in Q THEN Append(G[n - 1], t[n]) ELSE G[n - 1]
      /\ \A n \in 0..N : G[n] \in Seq(R)
  <2>1. Len(t) \in Nat /\ \A i \in 1..Len(t) : t[i] \in R
    BY LenProperties, ElementOfSeq
  <2> QED BY <2>1, PickedDefined DEF Picked
<1>4. /\ H[0] = <<>> /\ Picked(both, U) = H[M + N]
      /\ \A n \in 1..(M + N) : H[n] = IF n \in U THEN Append(H[n - 1], both[n]) ELSE H[n - 1]
  <2>1. Len(both) = M + N /\ Len(both) \in Nat /\ both \in Seq(R)
    BY <1>1
  <2> HIDE DEF both, M, N
  <2>2. \A i \in 1..Len(both) : both[i] \in R
    BY <2>1
  <2> HIDE DEF H
  <2>3. /\ H[0] = <<>>
        /\ \A n \in 1..Len(both) : H[n] = IF n \in U THEN Append(H[n - 1], both[n]) ELSE H[n - 1]
    BY <2>1, <2>2, PickedDefined DEF H
  <2>4. Picked(both, U) = H[Len(both)]
    BY DEF Picked, H
  <2> QED BY <2>1, <2>3, <2>4
<1>5. /\ \A i \in 1..M : i \in U <=> i \in P
      /\ \A i \in 1..N : M + i \in U <=> i \in Q
      /\ \A i \in 1..N : t[i] \in R
  <2>1. \A i \in 1..M : 0 + i = i
    BY <1>1
  <2> QED BY <2>1, ElementOfSeq DEF Shifted
<1> HIDE DEF M, N, both, F, G, H
<1>6. 0 \in T
  BY <1>1, <1>2, <1>4
<1>7. ASSUME NEW n \in 1..M, n - 1 \in T
      PROVE  n \in T
  <2>1. n \in 1..(M + N) /\ n \in 0..M /\ both[n] = s[n] /\ H[n - 1] = F[n - 1]
    BY <1>1, <1>7
  <2> QED BY <1>2, <1>4, <1>5, <2>1
<1>8. \A n \in 0..M : n \in T
  <2> HIDE DEF T
  <2> QED BY <1>1, <1>6, <1>7, InductionUpTo
<1>9. M \in 0..M /\ H[M] = F[M] /\ F[M] \in Seq(R)
  <2>1. M \in 0..M
    BY <1>1
  <2> QED BY <1>2, <1>8, <2>1
<1>10. 0 \in V
  <2>1. F[M] \o G[0] = F[M]
    BY <1>3, <1>9, ConcatEmptySeq
  <2>2. 0 \in 0..N /\ M + 0 = M
    BY <1>1
  <2> QED BY <1>9, <2>1, <2>2
<1>11. ASSUME NEW n \in 1..N, n - 1 \in V
       PROVE  n \in V
  <2>0. n \in 0..N /\ n - 1 \in 0..N /\ M + n \in 1..(M + N) /\ (M + n) - 1 = M + (n - 1)
    BY <1>1
  <2>1. /\ n \in 0..N /\ n - 1 \in 0..N /\ M + n \in 1..(M + N) /\ (M + n) - 1 = M + (n - 1)
        /\ both[M + n] = t[n] /\ H[M + (n - 1)] = F[M] \o G[n - 1] /\ t[n] \in R
    <3>1. both[M + n] = t[n] /\ t[n] \in R
      BY <1>1, <1>5
    <3> QED BY <1>11, <2>0, <3>1
  <2>2. H[M + n] = IF n \in Q THEN Append(F[M] \o G[n - 1], t[n]) ELSE F[M] \o G[n - 1]
    BY <1>4, <1>5, <2>1
  <2>3. Append(F[M] \o G[n - 1], t[n]) = F[M] \o Append(G[n - 1], t[n])
    <3>1. G[n - 1] \in Seq(R)
      BY <1>3, <2>1
    <3>2. \A a \in Seq(R), b \in Seq(R), e \in R : a \o Append(b, e) = Append(a \o b, e)
      BY ConcatAppend
    <3>3. F[M] \in Seq(R) /\ t[n] \in R
      BY <1>9, <2>1
    <3> QED BY ONLY <3>1, <3>2, <3>3, Zenon
  <2>4. G[n] = IF n \in Q THEN Append(G[n - 1], t[n]) ELSE G[n - 1]
    BY <1>3
  <2> QED BY <2>1, <2>2, <2>3, <2>4
<1>12. \A n \in 0..N : n \in V
  <2> HIDE DEF V
  <2> QED BY <1>1, <1>10, <1>11, InductionUpTo
<1>13. N \in 0..N
  BY <1>1
<1>14. H[M + N] = F[M] \o G[N]
  BY <1>12, <1>13
<1> QED BY <1>2, <1>3, <1>4, <1>14 DEF both

(***************************************************************************)
(* What is concatenated.                                                   *)
(***************************************************************************)

(* The sequences one after the other, as the recursive definition says.    *)
LEMMA ConcatenatedDefined ==
  ASSUME NEW R, NEW seqs, Len(seqs) \in Nat, \A i \in 1..Len(seqs) : seqs[i] \in Seq(R)
  PROVE  /\ ConcatenatedUpTo(seqs)[0] = <<>>
         /\ \A n \in 1..Len(seqs) :
              ConcatenatedUpTo(seqs)[n] = ConcatenatedUpTo(seqs)[n - 1] \o seqs[n]
         /\ \A n \in 0..Len(seqs) : ConcatenatedUpTo(seqs)[n] \in Seq(R)
<1> DEFINE N == Len(seqs)
           S == Seq(R)
           step == [p \in S \X (1..N) |-> p[1] \o seqs[p[2]]]
           P == ConcatenatedUpTo(seqs)
<1>1. \A s \in S, n \in 1..N : s \o seqs[n] \in S
  BY ConcatProperties
<1>2. N \in Nat /\ <<>> \in S
  BY EmptySeq
<1>3. step \in [S \X (1..N) -> S]
  <2> HIDE DEF S, N
  <2> QED BY <1>1
<1>4. PICK f \in [0..N -> S] : IsRecursive(f, N, <<>>, step)
  <2> HIDE DEF step, S, N
  <2> QED BY <1>2, <1>3, Recursion
<1>5. ASSUME NEW n \in 1..N
      PROVE  n - 1 \in 0..N /\ f[n] = f[n - 1] \o seqs[n]
  <2>1. n - 1 \in 0..N
    BY <1>2
  <2>2. f[n - 1] \in S
    BY <1>4, <2>1
  <2>3. f[n] = step[<<f[n - 1], n>>]
    <3> HIDE DEF step, S, N
    <3> QED BY <1>4 DEF IsRecursive
  <2> HIDE DEF S, N
  <2> QED BY <2>1, <2>2, <2>3
<1>6. ASSUME NEW n \in 0..N
      PROVE  f[n] = IF n = 0 THEN <<>> ELSE f[n - 1] \o seqs[n]
  <2>1. n # 0 => n \in 1..N
    BY <1>2
  <2> QED BY <1>4, <1>5, <2>1 DEF IsRecursive
<1>7. f = [n \in 0..N |-> IF n = 0 THEN <<>> ELSE f[n - 1] \o seqs[n]]
  <2> HIDE DEF S, N
  <2> QED BY <1>4, <1>6, ZenonT(30)
<1>8. P = [n \in 0..N |-> IF n = 0 THEN <<>> ELSE P[n - 1] \o seqs[n]]
  <2> HIDE DEF S
  <2> QED BY <1>7, ZenonT(30) DEF ConcatenatedUpTo
<1> HIDE DEF P, N, S
<1>9. P[0] = <<>> /\ \A n \in 1..N : n - 1 \in 0..N /\ P[n] = P[n - 1] \o seqs[n]
  <2>1. P[0] = <<>>
    <3>1. 0 \in 0..N
      BY <1>2
    <3> QED BY <1>8, <3>1
  <2>2. ASSUME NEW n \in 1..N
        PROVE  n - 1 \in 0..N /\ P[n] = P[n - 1] \o seqs[n]
    <3>1. n \in 0..N /\ n # 0 /\ n - 1 \in 0..N
      BY <1>2
    <3> QED BY <1>8, <3>1
  <2> QED BY <2>1, <2>2
<1>10. \A n \in 0..N : P[n] \in S
  <2> DEFINE T == {n \in 0..N : P[n] \in S}
  <2>1. 0 \in T
    BY <1>2, <1>9
  <2>2. ASSUME NEW n \in 1..N, n - 1 \in T
        PROVE  n \in T
    <3>1. n \in 0..N /\ P[n - 1] \in S
      BY <1>2, <2>2
    <3> QED BY <1>1, <1>9, <3>1
  <2> HIDE DEF T
  <2>3. \A n \in 0..N : n \in T
    BY <1>2, <2>1, <2>2, InductionUpTo
  <2> QED BY <2>3 DEF T
<1> QED BY <1>9, <1>10 DEF P, N, S

LEMMA ConcatenatedTyped ==
  ASSUME NEW R, NEW seqs, Len(seqs) \in Nat, \A i \in 1..Len(seqs) : seqs[i] \in Seq(R)
  PROVE  Concatenated(seqs) \in Seq(R)
<1>1. Len(seqs) \in 0..Len(seqs)
  OBVIOUS
<1> QED BY <1>1, ConcatenatedDefined DEF Concatenated

(* One sequence more is put at the end.                                    *)
Prolongs(more, seqs, R) ==
  /\ Len(seqs) \in Nat /\ Len(more) = Len(seqs) + 1
  /\ \A i \in 1..Len(more) : more[i] \in Seq(R)
  /\ \A i \in 1..Len(seqs) : seqs[i] = more[i]

LEMMA ConcatenatedMore ==
  ASSUME NEW R, NEW seqs, NEW more, Prolongs(more, seqs, R)
  PROVE  Concatenated(more) = Concatenated(seqs) \o more[Len(more)]
<1> DEFINE N == Len(seqs)
           P == ConcatenatedUpTo(seqs)
           Q == ConcatenatedUpTo(more)
           T == {n \in 0..N : P[n] = Q[n]}
<1>a. /\ N \in Nat /\ Len(more) = N + 1
      /\ \A i \in 1..(N + 1) : more[i] \in Seq(R)
      /\ \A i \in 1..N : seqs[i] = more[i]
  BY DEF Prolongs
<1>1. /\ P[0] = <<>> /\ Concatenated(seqs) = P[N]
      /\ \A n \in 1..N : P[n] = P[n - 1] \o seqs[n]
  <2>1. Len(seqs) \in Nat /\ \A i \in 1..Len(seqs) : seqs[i] \in Seq(R)
    BY <1>a
  <2> QED BY <2>1, ConcatenatedDefined DEF Concatenated
<1>2. /\ Q[0] = <<>> /\ Concatenated(more) = Q[N + 1]
      /\ \A n \in 1..(N + 1) : Q[n] = Q[n - 1] \o more[n]
  <2>1. Len(more) \in Nat /\ \A i \in 1..Len(more) : more[i] \in Seq(R)
    BY <1>a
  <2>2. /\ Q[0] = <<>>
        /\ \A n \in 1..Len(more) : Q[n] = Q[n - 1] \o more[n]
    BY <2>1, ConcatenatedDefined
  <2> QED BY <1>a, <2>2 DEF Concatenated
<1> HIDE DEF P, Q
<1>3. 0 \in T
  BY <1>1, <1>2, <1>a
<1>4. ASSUME NEW n \in 1..N, n - 1 \in T
      PROVE  n \in T
  <2>1. n \in 1..(N + 1) /\ n \in 0..N /\ P[n - 1] = Q[n - 1]
    BY <1>4, <1>a
  <2> QED BY <1>1, <1>2, <1>a, <2>1
<1>5. \A n \in 0..N : n \in T
  <2> HIDE DEF T, N
  <2> QED BY <1>a, <1>3, <1>4, InductionUpTo
<1>6. N + 1 \in 1..(N + 1) /\ (N + 1) - 1 = N /\ P[N] = Q[N]
  BY <1>5, <1>a
<1> QED BY <1>1, <1>2, <1>6, <1>a

=============================================================================
