------------------------------ MODULE Recursion ------------------------------
(***************************************************************************)
(* Facts about functions defined by recursion on 0 .. N, induction by      *)
(* least counterexample, and sequences put together, for the proofs about  *)
(* algorithms.  A step of the recursion is given as a function, so that no *)
(* fact takes an operator.                                                 *)
(***************************************************************************)
EXTENDS Integers, SequencesExt, TLAPS, WellFoundedInduction, SequenceTheorems

\* A set of naturals that is not empty has a least element.
LEMMA LeastExists ==
    ASSUME NEW T, T \subseteq Nat, T # {}
    PROVE  \E n \in T : \A k \in T : n <= k
  <1>1. PICK n \in T : \A k \in T : ~(<<k, n>> \in OpToRel(<, Nat))
    BY NatLessThanWellFounded, WFMin
  <1>2. \A k \in T : ~(k < n)
    BY <1>1 DEF OpToRel
  <1>. QED
    BY <1>2

\* A set of numbers up to a bound has a greatest one.
LEMMA GreatestExists ==
    ASSUME NEW N \in Nat, NEW S, S \subseteq 0 .. N, S # {}
    PROVE  \E x \in S : \A y \in S : y <= x
  <1>. DEFINE T == {n \in Nat : N - n \in S}
  <1>1. T \subseteq Nat /\ T # {}
    <2>1. PICK s : s \in S
      OBVIOUS
    <2>2. N - s \in T
      BY <2>1
    <2>. QED
      BY <2>2
  <1>2. PICK x \in T : \A y \in T : x <= y
    <2>. HIDE DEF T
    <2>. QED
      BY <1>1, LeastExists
  <1>3. N - x \in S /\ \A y \in S : N - y \in T /\ x <= N - y
    BY <1>2
  <1>. QED
    BY <1>3

(***************************************************************************)
(* The set of the numbers up to a bound of which something holds is all of *)
(* them, if it holds of the first and of every next one.                   *)
(***************************************************************************)
LEMMA UpTo ==
    ASSUME NEW m \in Nat, NEW N \in Nat, NEW P \in SUBSET (m .. N),
           m <= N => m \in P, \A n \in m .. N - 1 : n \in P => n + 1 \in P
    PROVE  P = m .. N
  <1>. DEFINE Bad == (m .. N) \ P
  <1>1. CASE Bad = {}
    BY <1>1
  <1>2. CASE Bad # {}
    <2>1. Bad \subseteq Nat
      OBVIOUS
    <2>2. PICK n \in Bad : \A k \in Bad : n <= k
      <3>. HIDE DEF Bad
      <3>. QED
        BY <1>2, <2>1, LeastExists
    <2>3. n # m /\ n - 1 \in m .. N - 1
      BY <2>2
    <2>4. n - 1 \in P
      BY <2>2, <2>3
    <2>. QED
      BY <2>2, <2>3, <2>4
  <1>. QED
    BY <1>1, <1>2

\* f begins with e0 and takes the steps F, from each number to the next.
TakesSteps(f, N, e0, F) == f[0] = e0 /\ \A n \in 1 .. N : f[n] = F[n][f[n - 1]]

(***************************************************************************)
(* Recursion on 0 .. N defines a function: with a value to begin with, and *)
(* a step for each number, there is one that takes those steps.            *)
(***************************************************************************)
LEMMA RecursionDefines ==
    ASSUME NEW N \in Nat, NEW S, NEW e0 \in S, NEW F \in [1 .. N -> [S -> S]]
    PROVE  \E f \in [0 .. N -> S] : TakesSteps(f, N, e0, F)
  <1>. DEFINE Good(n, f) == f[0] = e0 /\ \A k \in 1 .. n : f[k] = F[k][f[k - 1]]
              P == {n \in 0 .. N : \E f \in [0 .. n -> S] : Good(n, f)}
  <1>1. 0 \in P
    <2>. DEFINE g == [k \in 0 .. 0 |-> e0]
    <2>1. g \in [0 .. 0 -> S] /\ Good(0, g)
      OBVIOUS
    <2>. HIDE DEF g, Good
    <2>. QED
      BY <2>1
  <1>2. ASSUME NEW n \in 0 .. N - 1, n \in P
        PROVE  n + 1 \in P
    <2>1. PICK f \in [0 .. n -> S] : Good(n, f)
      BY <1>2
    <2>. DEFINE g == [k \in 0 .. n + 1 |-> IF k = n + 1 THEN F[n + 1][f[n]] ELSE f[k]]
    <2>2. f[n] \in S /\ F[n + 1] \in [S -> S] /\ F[n + 1][f[n]] \in S
      BY <2>1
    <2>3. g \in [0 .. n + 1 -> S]
      BY <2>1, <2>2
    <2>4. Good(n + 1, g)
      <3>1. g[n + 1] = F[n + 1][f[n]] /\ g[n] = f[n] /\ g[0] = f[0]
        OBVIOUS
      <3>2. \A k \in 1 .. n : g[k] = f[k] /\ k - 1 \in 0 .. n /\ g[k - 1] = f[k - 1]
        OBVIOUS
      <3>3. f[0] = e0 /\ \A k \in 1 .. n : f[k] = F[k][f[k - 1]]
        BY <2>1
      <3>4. \A k \in 1 .. n + 1 : k \in 1 .. n \/ (k = n + 1 /\ k - 1 = n)
        OBVIOUS
      <3>. HIDE DEF g
      <3>. QED
        BY <3>1, <3>2, <3>3, <3>4
    <2>. HIDE DEF g, Good
    <2>. QED
      BY <2>3, <2>4
  <1>3. P = 0 .. N
    <2>. HIDE DEF P
    <2>1. P \in SUBSET (0 .. N)
      BY DEF P
    <2>. QED
      BY <1>1, <1>2, <2>1, UpTo
  <1>4. N \in P
    <2>. HIDE DEF P
    <2>. QED
      BY <1>3
  <1>. QED
    BY <1>4 DEF TakesSteps
\* Sequences put together in turn.
Grouped(T, a, b, c, d) ==
    /\ (a \o b) \o c = a \o (b \o c)
    /\ ((a \o b) \o c) \o d = a \o (b \o (c \o d))
    /\ a \o b \in Seq(T) /\ b \o c \in Seq(T) /\ a \o (b \o c) \in Seq(T)
    /\ b \o (c \o d) \in Seq(T)

\* They can be grouped from either end.
LEMMA Regroup ==
    ASSUME NEW T, NEW a \in Seq(T), NEW b \in Seq(T), NEW c \in Seq(T), NEW d \in Seq(T)
    PROVE  Grouped(T, a, b, c, d)
  <1>1. PICK x, y, z : x = a \o b /\ y = c \o d /\ z = b \o c
    BY Zenon
  <1>2. x \in Seq(T) /\ y \in Seq(T) /\ z \in Seq(T)
    BY <1>1, ConcatProperties
  <1>3. x \o c = a \o z
    BY <1>1, ConcatAssociative
  <1>4. (x \o c) \o d = x \o y
    <2>1. (x \o c) \o d = x \o (c \o d)
      BY <1>2, ConcatAssociative
    <2>. QED
      BY <1>1, <2>1, Zenon
  <1>5. x \o y = a \o (b \o y)
    BY <1>1, <1>2, ConcatAssociative
  <1>6. a \o z \in Seq(T) /\ b \o y \in Seq(T)
    BY <1>2, ConcatProperties
  <1>. QED
    BY <1>1, <1>2, <1>3, <1>4, <1>5, <1>6, Zenon DEF Grouped

\* A flattened sequence is put together from its parts in turn.
LEMMA FlattenSteps ==
    ASSUME NEW T, NEW ss \in Seq(Seq(T)), ss # <<>>
    PROVE  \E f \in [1 .. Len(ss) -> Seq(T)] :
              /\ f[1] = ss[1] /\ \A i \in 2 .. Len(ss) : f[i] = f[i - 1] \o ss[i]
              /\ FlattenSeq(ss) = f[Len(ss)]
  <1>. DEFINE N == Len(ss)
              Steps(f) == f = [i \in 1 .. N |-> IF i = 1 THEN ss[i] ELSE f[i - 1] \o ss[i]]
              S == Seq(T)
              Step(i, x) == x \o ss[i]
              F == [i \in 1 .. N |-> [x \in S |-> Step(i, x)]]
  <1>1. N \in Nat /\ N # 0 /\ \A i \in 1 .. N : ss[i] \in S
    OBVIOUS
  <1>2. \A x, y \in S : x \o y \in S /\ <<>> \o x = x
    BY ConcatProperties, ConcatEmptySeq
  <1>3. F \in [1 .. N -> [S -> S]] /\ <<>> \in S
    <2>1. \A i \in 1 .. N : \A x \in S : Step(i, x) \in S
      <3>. HIDE DEF S, N
      <3>. QED
        BY <1>1, <1>2
    <2>2. <<>> \in S
      OBVIOUS
    <2>. HIDE DEF N, S, Step
    <2>. QED
      BY <2>1, <2>2
  <1>. HIDE DEF N, S
  <1>4. PICK h \in [0 .. N -> S] : TakesSteps(h, N, <<>>, F)
    <2>. HIDE DEF F
    <2>. QED
      BY <1>1, <1>3, RecursionDefines, Zenon
  <1>5. h[0] = <<>> /\ \A i \in 1 .. N : h[i] = h[i - 1] \o ss[i] /\ h[i - 1] \in S
    <2>1. \A i \in 1 .. N : i - 1 \in 0 .. N
      BY <1>1
    <2>2. \A i \in 1 .. N : h[i] = F[i][h[i - 1]] /\ h[i - 1] \in S
      BY <1>4, <2>1, Zenon DEF TakesSteps
    <2>3. \A i \in 1 .. N : \A x \in S : F[i][x] = x \o ss[i]
      BY Zenon DEF S
    <2>4. h[0] = <<>>
      BY <1>4 DEF TakesSteps
    <2>. HIDE DEF F
    <2>. QED
      BY <2>2, <2>3, <2>4, Zenon
  <1>. DEFINE g == [i \in 1 .. N |-> h[i]]
  <1>6. /\ g[1] = ss[1] /\ \A i \in 2 .. N : g[i] = g[i - 1] \o ss[i]
        /\ g \in [1 .. N -> S]
    <2>1. 1 \in 1 .. N /\ \A i \in 2 .. N : i \in 1 .. N /\ i - 1 \in 1 .. N
      BY <1>1
    <2>2. h[1] = ss[1]
      <3>1. h[1] = h[1 - 1] \o ss[1]
        BY <1>5, <2>1, Zenon
      <3>2. 1 - 1 = 0 /\ ss[1] \in S
        BY <1>1, <2>1
      <3>3. h[1] = <<>> \o ss[1]
        BY <1>5, <3>1, <3>2, Zenon
      <3>. QED
        BY <1>2, <3>2, <3>3, Zenon
    <2>3. \A i \in 1 .. N : h[i] \in S
      BY <1>1, <1>4
    <2>. QED
      BY <1>5, <2>1, <2>2, <2>3, Zenon
  <1>7. Steps(g)
    <2>1. \A i \in 1 .. N : i # 1 => i \in 2 .. N
      BY <1>1
    <2>2. g = [i \in 1 .. N |-> g[i]]
      OBVIOUS
    <2>. HIDE DEF g
    <2>. QED
      BY <1>6, <2>1, <2>2, Zenon
  <1>. HIDE DEF g
  <1>8. Steps(CHOOSE f : Steps(f))
    <2>. HIDE DEF Steps
    <2>. QED
      BY <1>7
  <1>9. PICK f : f = (CHOOSE q : Steps(q)) /\ Steps(f)
    BY <1>8, Zenon
  <1>10. FlattenSeq(ss) = (CHOOSE q : Steps(q))[N]
    BY <1>1 DEF FlattenSeq, N
  <1>. HIDE DEF Steps
  <1>11. FlattenSeq(ss) = f[N]
    BY <1>9, <1>10, Zenon
  <1>12. /\ DOMAIN f = 1 .. N /\ f[1] = ss[1]
         /\ \A i \in 2 .. N : f[i] = f[i - 1] \o ss[i]
    <2>1. f = [i \in 1 .. N |-> IF i = 1 THEN ss[i] ELSE f[i - 1] \o ss[i]]
      BY <1>9, Zenon DEF Steps
    <2>2. 1 \in 1 .. N /\ \A i \in 2 .. N : i \in 1 .. N /\ i # 1
      BY <1>1
    <2>3. DOMAIN f = 1 .. N
      BY <2>1
    <2>4. \A i \in 1 .. N : f[i] = IF i = 1 THEN ss[i] ELSE f[i - 1] \o ss[i]
      BY <2>1, Zenon
    <2>. QED
      BY <2>2, <2>3, <2>4, Zenon
  <1>13. \A i \in 1 .. N : f[i] \in S
    <2>. DEFINE P == {i \in 1 .. N : f[i] \in S}
    <2>1. 1 \in P
      BY <1>1, <1>12
    <2>2. ASSUME NEW n \in 1 .. N - 1, n \in P
          PROVE  n + 1 \in P
      <3>0. PICK k : k = n + 1
        OBVIOUS
      <3>1. k \in 2 .. N /\ k - 1 = n /\ k \in 1 .. N
        BY <1>1, <3>0
      <3>2. f[k] = f[k - 1] \o ss[k]
        BY <1>12, <3>1, Zenon
      <3>3. f[n] \in S
        BY <2>2
      <3>4. f[k] \in S
        BY <1>1, <1>2, <3>1, <3>2, <3>3, Zenon
      <3>. QED
        BY <3>0, <3>1, <3>4
    <2>3. P = 1 .. N
      <3>. HIDE DEF P
      <3>1. P \in SUBSET (1 .. N)
        BY DEF P
      <3>. QED
        BY <1>1, <2>1, <2>2, <3>1, UpTo, Zenon
    <2>. QED
      BY <2>3
  <1>14. f \in [1 .. N -> S]
    <2>1. f = [i \in 1 .. N |-> f[i]]
      BY <1>9, <1>12, Zenon DEF Steps
    <2>. QED
      BY <1>13, <2>1
  <1>. QED
    BY <1>11, <1>12, <1>14, Zenon DEF N, S

\* One more part is put at the end.
LEMMA FlattenOneMore ==
    ASSUME NEW T, NEW ss \in Seq(Seq(T)), NEW x \in Seq(T)
    PROVE  /\ FlattenSeq(Append(ss, x)) = FlattenSeq(ss) \o x
           /\ FlattenSeq(ss) \in Seq(T) /\ FlattenSeq(Append(ss, x)) \in Seq(T)
  <1>. DEFINE N == Len(ss)
              S == Seq(T)
              tt == Append(ss, x)
  <1>1. /\ tt \in Seq(S) /\ tt # <<>> /\ Len(tt) = N + 1 /\ tt[N + 1] = x
        /\ \A i \in 1 .. N : tt[i] = ss[i]
    BY AppendProperties
  <1>2. N \in Nat /\ \A u, v \in S : u \o v \in S /\ <<>> \o u = u
    BY ConcatProperties, ConcatEmptySeq
  <1>. HIDE DEF tt
  <1>3. PICK g \in [1 .. N + 1 -> S] :
           /\ g[1] = tt[1] /\ \A i \in 2 .. N + 1 : g[i] = g[i - 1] \o tt[i]
           /\ FlattenSeq(tt) = g[N + 1]
    <2>1. tt \in Seq(Seq(T)) /\ Len(tt) = N + 1
      BY <1>1
    <2>2. \E g \in [1 .. Len(tt) -> S] :
             /\ g[1] = tt[1] /\ \A i \in 2 .. Len(tt) : g[i] = g[i - 1] \o tt[i]
             /\ FlattenSeq(tt) = g[Len(tt)]
      BY <1>1, <2>1, FlattenSteps, Zenon
    <2>. HIDE DEF N, S
    <2>. QED
      BY <2>1, <2>2, Zenon
  <1>4. CASE ss = <<>>
    <2>1. N = 0 /\ FlattenSeq(ss) = <<>> /\ <<>> \in S
      BY <1>4 DEF FlattenSeq
    <2>2. FlattenSeq(tt) = x
      BY <1>1, <1>3, <2>1
    <2>. QED
      BY <1>2, <2>1, <2>2 DEF tt, S
  <1>5. CASE ss # <<>>
    <2>1. PICK f \in [1 .. N -> S] :
             /\ f[1] = ss[1] /\ \A i \in 2 .. N : f[i] = f[i - 1] \o ss[i]
             /\ FlattenSeq(ss) = f[N]
      BY <1>5, FlattenSteps, Zenon
    <2>0. N # 0
      BY <1>5
    <2>. HIDE DEF N, S
    <2>2. \A i \in 1 .. N : g[i] = f[i]
      <3>. DEFINE P == {i \in 1 .. N : g[i] = f[i]}
      <3>1. 1 \in P
        BY <1>1, <1>2, <1>3, <2>0, <2>1
      <3>2. ASSUME NEW n \in 1 .. N - 1, n \in P
            PROVE  n + 1 \in P
        <4>0. PICK k : k = n + 1
          OBVIOUS
        <4>1. k \in 2 .. N /\ k - 1 = n /\ k \in 1 .. N /\ k \in 2 .. N + 1
          BY <1>2, <4>0
        <4>2. f[k] = f[k - 1] \o ss[k] /\ g[k] = g[k - 1] \o tt[k]
          BY <1>3, <2>1, <4>1, Zenon
        <4>3. f[n] = g[n]
          BY <3>2
        <4>4. f[k] = g[k]
          BY <1>1, <4>1, <4>2, <4>3, Zenon
        <4>. QED
          BY <4>0, <4>1, <4>4
      <3>3. P = 1 .. N
        <4>. HIDE DEF P
        <4>1. P \in SUBSET (1 .. N)
          BY DEF P
        <4>. QED
          BY <1>2, <2>0, <3>1, <3>2, <4>1, UpTo, Zenon
      <3>. QED
        BY <3>3
    <2>3. g[N + 1] = g[N] \o x
      <3>0. PICK k : k = N + 1
        OBVIOUS
      <3>1. k \in 2 .. N + 1 /\ k - 1 = N
        BY <1>2, <2>0, <3>0
      <3>2. g[k] = g[k - 1] \o tt[k]
        BY <1>3, <3>1, Zenon
      <3>. QED
        BY <1>1, <3>0, <3>1, <3>2, Zenon
    <2>4. N \in 1 .. N /\ N + 1 \in 1 .. N + 1
      BY <1>2, <2>0
    <2>5. g[N] = f[N] /\ f[N] \in S /\ g[N + 1] \in S
      BY <1>3, <2>1, <2>2, <2>4
    <2>. QED
      BY <1>3, <2>1, <2>3, <2>5 DEF tt, S
  <1>. QED
    BY <1>4, <1>5

\* A flattened sequence begins with its first part.
LEMMA FlattenFirst ==
    ASSUME NEW T, NEW ss \in Seq(Seq(T)), ss # <<>>
    PROVE  FlattenSeq(ss) = ss[1] \o FlattenSeq(Tail(ss))
  <1>. DEFINE S == Seq(T)
              N == Len(ss)
  <1>1. N \in Nat /\ N # 0 /\ \A i \in 1 .. N : ss[i] \in S
    OBVIOUS
  <1>2. PICK tt : tt = Tail(ss)
    BY Zenon
  <1>3. tt \in Seq(S) /\ Len(tt) = N - 1 /\ \A i \in 1 .. N - 1 : tt[i] = ss[i + 1]
    <2>1. ss \in Seq(S)
      OBVIOUS
    <2>. HIDE DEF S
    <2>. QED
      BY <1>2, <2>1, HeadTailProperties
  <1>4. PICK f \in [1 .. N -> S] :
           /\ f[1] = ss[1] /\ \A i \in 2 .. N : f[i] = f[i - 1] \o ss[i]
           /\ FlattenSeq(ss) = f[N]
    BY FlattenSteps, Zenon
  <1>5. CASE N = 1
    <2>1. tt = <<>> /\ FlattenSeq(<<>>) = <<>>
      <3>1. FlattenSeq(<<>>) = <<>>
        BY DEF FlattenSeq
      <3>2. Len(tt) = 0
        BY <1>3, <1>5
      <3>3. tt = <<>>
        <4>. HIDE DEF S
        <4>. QED
          BY <1>3, <3>2
      <3>. QED
        BY <3>1, <3>3
    <2>2. ss[1] \in S
      BY <1>1, <1>5
    <2>3. ss[1] \o <<>> = ss[1]
      BY <2>2, ConcatEmptySeq
    <2>. QED
      BY <1>2, <1>4, <1>5, <2>1, <2>3, Zenon
  <1>6. CASE N # 1
    <2>1. PICK g \in [1 .. N - 1 -> S] :
             /\ g[1] = tt[1] /\ \A i \in 2 .. N - 1 : g[i] = g[i - 1] \o tt[i]
             /\ FlattenSeq(tt) = g[N - 1]
      <3>1. tt # <<>>
        BY <1>1, <1>3, <1>6
      <3>2. tt \in Seq(Seq(T))
        BY <1>3
      <3>3. \E g \in [1 .. Len(tt) -> Seq(T)] :
               /\ g[1] = tt[1] /\ \A i \in 2 .. Len(tt) : g[i] = g[i - 1] \o tt[i]
               /\ FlattenSeq(tt) = g[Len(tt)]
        BY <3>1, <3>2, FlattenSteps, Zenon
      <3>. HIDE DEF N
      <3>. QED
        BY <1>3, <3>3, Zenon DEF S
    <2>. DEFINE P == {i \in 1 .. N - 1 : f[i + 1] = ss[1] \o g[i]}
    <2>. HIDE DEF N, S
    <2>2. 1 \in P
      <3>1. PICK j : j = 1 + 1
        OBVIOUS
      <3>2. j \in 2 .. N /\ j - 1 = 1 /\ 1 \in 1 .. N - 1
        BY <1>1, <1>6, <3>1
      <3>3. f[j] = f[j - 1] \o ss[j] /\ tt[1] = ss[1 + 1]
        BY <1>3, <1>4, <3>2, Zenon
      <3>4. f[j] = ss[1] \o g[1]
        BY <1>4, <2>1, <3>1, <3>2, <3>3, Zenon
      <3>. QED
        BY <3>1, <3>2, <3>4
    <2>3. ASSUME NEW n \in 1 .. (N - 1) - 1, n \in P
          PROVE  n + 1 \in P
      <3>1. PICK j, k : j = n + 1 /\ k = n + 1 + 1
        OBVIOUS
      <3>2. /\ j \in 2 .. N - 1 /\ j - 1 = n /\ k \in 2 .. N /\ k - 1 = n + 1 /\ k = j + 1
            /\ j \in 1 .. N - 1 /\ n \in 1 .. N - 1 /\ 1 \in 1 .. N
        BY <1>1, <3>1
      <3>3. f[k] = f[k - 1] \o ss[k] /\ g[j] = g[j - 1] \o tt[j] /\ tt[j] = ss[j + 1]
        BY <1>3, <1>4, <2>1, <3>2, Zenon
      <3>4. f[n + 1] = ss[1] \o g[n]
        BY <2>3
      <3>5. f[k] = (ss[1] \o g[n]) \o tt[j] /\ g[j] = g[n] \o tt[j]
        BY <3>2, <3>3, <3>4, Zenon
      <3>6. ss[1] \in S /\ g[n] \in S /\ tt[j] \in S
        <4>1. ss[k] \in S /\ tt[j] = ss[k]
          BY <1>1, <3>2, <3>3
        <4>. QED
          BY <1>1, <2>1, <3>2, <4>1
      <3>7. (ss[1] \o g[n]) \o tt[j] = ss[1] \o (g[n] \o tt[j])
        <4>1. ss[1] \in Seq(T) /\ g[n] \in Seq(T) /\ tt[j] \in Seq(T)
          BY <3>6, Zenon DEF S
        <4>2. PICK x, y, z : x = ss[1] /\ y = g[n] /\ z = tt[j]
          OBVIOUS
        <4>3. x \in Seq(T) /\ y \in Seq(T) /\ z \in Seq(T)
          BY <4>1, <4>2, Zenon
        <4>4. (x \o y) \o z = x \o (y \o z)
          BY <4>3, ConcatAssociative
        <4>. QED
          BY <4>2, <4>4, Zenon
      <3>8. f[k] = ss[1] \o g[j]
        BY <3>5, <3>7, Zenon
      <3>. QED
        BY <3>1, <3>2, <3>8, Zenon
    <2>4. P = 1 .. N - 1
      <3>. HIDE DEF P
      <3>1. P \in SUBSET (1 .. N - 1)
        BY DEF P
      <3>2. N - 1 \in Nat /\ 1 \in Nat
        BY <1>1
      <3>. QED
        BY <2>2, <2>3, <3>1, <3>2, UpTo, Zenon
    <2>5. N - 1 \in P /\ (N - 1) + 1 = N
      <3>. HIDE DEF P
      <3>1. N - 1 \in 1 .. N - 1 /\ (N - 1) + 1 = N
        BY <1>1, <1>6
      <3>. QED
        BY <2>4, <3>1, Zenon
    <2>. QED
      BY <1>2, <1>4, <2>1, <2>5, Zenon
  <1>. QED
    BY <1>5, <1>6

\* The next token of what is left, and what is left after it.
LEMMA TakeOne ==
    ASSUME NEW T, NEW s \in Seq(T), NEW p \in 1 .. Len(s) + 1, NEW a \in T,
           NEW z \in Seq(T), SubSeq(s, p, Len(s)) = <<a>> \o z
    PROVE  p \in 1 .. Len(s) /\ s[p] = a /\ SubSeq(s, p + 1, Len(s)) = z
  <1>1. Len(s) \in Nat /\ <<a>> \in Seq(T) /\ Len(z) \in Nat /\ Len(<<a>>) = 1
    OBVIOUS
  <1>2. PICK u : u = <<a>> \o z
    BY Zenon
  <1>3. u \in Seq(T) /\ Len(u) = 1 + Len(z) /\ u[1] = a
    <2>1. /\ u \in Seq(T) /\ Len(u) = Len(<<a>>) + Len(z)
          /\ \A i \in 1 .. Len(<<a>>) + Len(z) :
                u[i] = IF i <= Len(<<a>>) THEN (<<a>>)[i] ELSE z[i - Len(<<a>>)]
      BY <1>1, <1>2, ConcatProperties
    <2>2. 1 \in 1 .. Len(<<a>>) + Len(z) /\ (<<a>>)[1] = a
      BY <1>1
    <2>. QED
      BY <1>1, <2>1, <2>2
  <1>4. p # Len(s) + 1
    <2>. SUFFICES ASSUME p = Len(s) + 1
                  PROVE  FALSE
      OBVIOUS
    <2>1. SubSeq(s, p, Len(s)) = <<>>
      BY <1>1, SubSeqEmpty
    <2>. QED
      BY <1>1, <1>2, <1>3, <2>1
  <1>5. p \in 1 .. Len(s) /\ Len(s) \in p .. Len(s)
    BY <1>1, <1>4
  <1>6. PICK v : v = SubSeq(s, p + 1, Len(s))
    BY Zenon
  <1>7. u = <<s[p]>> \o v
    BY <1>2, <1>5, <1>6, SubSeqRecursiveFirst, Zenon
  <1>8. v \in Seq(T) /\ s[p] \in T
    <2>1. p + 1 \in Int /\ Len(s) \in Int /\ \A i \in p + 1 .. Len(s) : s[i] \in T
      BY <1>5
    <2>. QED
      BY <1>5, <1>6, <2>1, SubSeqProperties
  <1>9. s[p] = a
    <2>1. <<s[p]>> \in Seq(T) /\ Len(<<s[p]>>) = 1 /\ (<<s[p]>>)[1] = s[p] /\ Len(v) \in Nat
      BY <1>8
    <2>2. \A i \in 1 .. Len(<<s[p]>>) + Len(v) :
             u[i] = IF i <= Len(<<s[p]>>) THEN (<<s[p]>>)[i] ELSE v[i - Len(<<s[p]>>)]
      BY <1>7, <1>8, <2>1, ConcatProperties
    <2>. QED
      BY <1>3, <2>1, <2>2
  <1>10. <<a>> \o v = <<a>> \o z
    BY <1>2, <1>7, <1>9
  <1>11. v = z
    BY <1>1, <1>8, <1>10, ConcatSimplifications, Zenon
  <1>. QED
    BY <1>5, <1>6, <1>9, <1>11

=============================================================================
