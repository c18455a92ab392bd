---------------------------- MODULE NaturalSets ----------------------------
(***************************************************************************)
(* Induction over natural numbers by sets: what is to be shown of every    *)
(* number is a set, so that its steps need no operator as a parameter.     *)
(* Then what it shows of recursions, and of sequences one after the other. *)
(***************************************************************************)
EXTENDS Integers, SequencesExt, SequenceTheorems, WellFoundedInduction, TLAPS

\* A set of numbers has a least one.
LEMMA LeastNumber ==
    ASSUME NEW T, T \subseteq Nat, T # {}
    PROVE  \E x \in T : \A y \in T : x <= y
<1>1. PICK x \in T : \A y \in T : ~(<<y, x>> \in OpToRel(<, Nat))
  BY NatLessThanWellFounded, WFMin, Zenon
<1>2. \A y \in T : ~(y < x)
  BY <1>1 DEF OpToRel
<1> QED
  BY <1>2

\* A set of numbers up to a bound has a greatest one.
LEMMA GreatestNumber ==
    ASSUME NEW k \in Nat, NEW T, T \subseteq 0..k, T # {}
    PROVE  \E x \in T : \A y \in T : y <= x
<1> DEFINE D == {n \in 0..k : k - n \in T}
<1>1. D \subseteq Nat /\ D # {}
  <2> PICK t \in T : TRUE
    OBVIOUS
  <2>1. k - t \in 0..k /\ k - (k - t) = t
    OBVIOUS
  <2>2. k - t \in D /\ \A n \in D : n \in Nat
    BY <2>1
  <2> HIDE DEF D
  <2> QED
    BY <2>2
<1>2. PICK d \in D : \A e \in D : d <= e
  <2> HIDE DEF D
  <2> QED
    BY <1>1, LeastNumber
<1>3. ASSUME NEW y \in T PROVE y <= k - d
  <2>1. k - y \in 0..k /\ k - (k - y) = y
    OBVIOUS
  <2>2. k - y \in D /\ d \in 0..k
    BY <2>1
  <2>3. d <= k - y
    BY <1>2, <2>2
  <2> QED
    BY <2>2, <2>3
<1> QED
  BY <1>3

\* What holds of 0, and of n + 1 when it holds of n, holds up to any bound.
LEMMA SetInduction ==
    ASSUME NEW k \in Nat, NEW S, 0 \in S, \A n \in 0..(k - 1) : n \in S => n + 1 \in S
    PROVE  0..k \subseteq S
<1> DEFINE T == {n \in 0..k : n \notin S}
<1> SUFFICES ASSUME T # {} PROVE FALSE
  OBVIOUS
<1>1. PICK x \in T : \A y \in T : x <= y
  <2>1. T \subseteq Nat
    OBVIOUS
  <2> HIDE DEF T
  <2> QED
    BY <2>1, LeastNumber
<1>2. x - 1 \in 0..(k - 1)
  OBVIOUS
<1>3. x - 1 \in S
  BY <1>1, <1>2
<1>4. (x - 1) + 1 \in S
  BY <1>2, <1>3
<1> QED
  BY <1>2, <1>4

\* What holds of k when it holds of all the numbers between k and N holds of all.
LEMMA DownwardInduction ==
    ASSUME NEW N \in Nat, NEW S,
           \A k \in 1..N : (\A j \in (k + 1)..N : j \in S) => k \in S
    PROVE  1..N \subseteq S
<1> DEFINE T == {k \in 1..N : k \notin S}
<1> SUFFICES ASSUME T # {} PROVE FALSE
  OBVIOUS
<1>1. PICK x \in T : \A y \in T : y <= x
  <2>1. T \subseteq 0..N
    OBVIOUS
  <2> HIDE DEF T
  <2> QED
    BY <2>1, GreatestNumber
<1>2. x \in 1..N /\ x \notin S
  OBVIOUS
<1>3. ASSUME NEW j \in (x + 1)..N PROVE j \in S
  <2>1. j \in 1..N /\ ~(j <= x)
    BY <1>2
  <2> QED
    BY <1>1, <2>1
<1> QED
  BY <1>2, <1>3

\* f is what a recursion makes of base: step[n] takes the value at n - 1 to
\* the value at n.
Solves(f, k, X, base, step) ==
    /\ f \in [0..k -> X]
    /\ f[0] = base /\ \A n \in 1..k : f[n] = step[n][f[n - 1]]

\* Every recursion over 0..k has a solution.
LEMMA Recursion ==
    ASSUME NEW k \in Nat, NEW X, NEW base \in X, NEW step \in [1..k -> [X -> X]]
    PROVE  \E f : Solves(f, k, X, base, step)
<1> DEFINE Until(f, m) == Solves(f, m, X, base, step)
           S == {m \in 0..k : \E f : Until(f, m)}
<1> USE DEF Solves
<1>1. 0 \in S
  <2> DEFINE f == [n \in 0..0 |-> base]
  <2>1. Until(f, 0) /\ 0 \in 0..k
    OBVIOUS
  <2> HIDE DEF f, Until
  <2> QED
    BY <2>1
<1>2. ASSUME NEW m \in 0..(k - 1), m \in S
      PROVE  m + 1 \in S
  <2>1. PICK f : Until(f, m)
    BY <1>2
  <2>2. m + 1 \in 1..k /\ m \in 0..m /\ f[m] \in X /\ step[m + 1][f[m]] \in X
    BY <2>1
  <2> DEFINE g == [n \in 0..(m + 1) |-> IF n <= m THEN f[n] ELSE step[m + 1][f[m]]]
  <2>3. g \in [0..(m + 1) -> X] /\ g[0] = base
    BY <2>1, <2>2
  <2>4. ASSUME NEW n \in 1..(m + 1) PROVE g[n] = step[n][g[n - 1]]
    <3>1. CASE n <= m
      <4>1. n \in 1..m /\ n \in 0..(m + 1) /\ n - 1 \in 0..(m + 1) /\ n - 1 <= m
        BY <3>1
      <4>2. g[n] = f[n] /\ g[n - 1] = f[n - 1]
        BY <3>1, <4>1
      <4> QED
        BY <2>1, <4>1, <4>2
    <3>2. CASE n = m + 1
      <4>1. n \in 0..(m + 1) /\ n - 1 \in 0..(m + 1) /\ n - 1 = m /\ ~(n <= m)
        BY <3>2
      <4> QED
        BY <3>2, <4>1
    <3> QED
      BY <3>1, <3>2
  <2> HIDE DEF g
  <2>5. Until(g, m + 1) /\ m + 1 \in 0..k
    BY <2>2, <2>3, <2>4
  <2> HIDE DEF Until
  <2> QED
    BY <2>5
<1>3. k \in S
  <2>1. 0..k \subseteq S
    <3> HIDE DEF S
    <3> QED
      BY <1>1, <1>2, SetInduction
  <2> QED
    BY <2>1
<1> HIDE DEF Solves
<1> QED
  BY <1>3

\* f is what a recursion makes that goes from k to jump[k], further up, until it
\* stays where it is.
Climbs(f, N, X, jump, base, step) ==
    /\ f \in [1..N -> X]
    /\ \A k \in 1..N : f[k] = IF jump[k] = k THEN base[k] ELSE step[k][f[jump[k]]]

\* Every such recursion has a solution.
LEMMA Climbing ==
    ASSUME NEW N \in Nat, NEW X, NEW jump \in [1..N -> 1..N], \A k \in 1..N : jump[k] >= k,
           NEW base \in [1..N -> X], NEW step \in [1..N -> [X -> X]]
    PROVE  \E f : Climbs(f, N, X, jump, base, step)
<1> DEFINE Here(f, k) == f[k] = IF jump[k] = k THEN base[k] ELSE step[k][f[jump[k]]]
           From(f, m) == f \in [1..N -> X] /\ \A k \in 1..N : k > N - m => Here(f, k)
           S == {m \in 0..N : \E f : From(f, m)}
<1>1. 0 \in S
  <2>1. From(base, 0) /\ 0 \in 0..N
    OBVIOUS
  <2> HIDE DEF From
  <2> QED
    BY <2>1
<1>2. ASSUME NEW m \in 0..(N - 1), m \in S PROVE m + 1 \in S
  <2>1. PICK f : From(f, m)
    BY <1>2
  <2> DEFINE at == N - m
  <2>2. at \in 1..N /\ jump[at] \in 1..N
    OBVIOUS
  <2> DEFINE x == IF jump[at] = at THEN base[at] ELSE step[at][f[jump[at]]]
  <2>3. x \in X
    BY <2>1, <2>2
  <2> DEFINE g == [f EXCEPT ![at] = x]
  <2> HIDE DEF x
  <2>4. g \in [1..N -> X] /\ g[at] = x /\ \A k \in 1..N : k # at => g[k] = f[k]
    BY <2>1, <2>2, <2>3
  <2>5. ASSUME NEW k \in 1..N, k > N - (m + 1) PROVE Here(g, k)
    <3> HIDE DEF g
    <3>1. CASE k = at
      <4>1. jump[at] # at => g[jump[at]] = f[jump[at]]
        BY <2>2, <2>4
      <4> QED
        BY <2>4, <3>1, <4>1 DEF x
    <3>2. CASE k # at
      <4>1. k > N - m /\ jump[k] \in 1..N /\ jump[k] >= k
        BY <2>5, <3>2
      <4>2. jump[k] # at
        BY <4>1
      <4> QED
        BY <2>1, <2>4, <3>2, <4>1, <4>2
    <3> QED
      BY <3>1, <3>2
  <2> HIDE DEF g
  <2>6. From(g, m + 1) /\ m + 1 \in 0..N
    BY <2>4, <2>5
  <2> HIDE DEF From
  <2> QED
    BY <2>6
<1>3. N \in S
  <2>1. 0..N \subseteq S
    <3> HIDE DEF S
    <3> QED
      BY <1>1, <1>2, SetInduction
  <2>2. N \in 0..N
    OBVIOUS
  <2> HIDE DEF S
  <2> QED
    BY <2>1, <2>2
<1>4. PICK f : From(f, N)
  <2> HIDE DEF From
  <2> QED
    BY <1>3
<1>5. Climbs(f, N, X, jump, base, step)
  BY <1>4 DEF Climbs
<1> QED
  BY <1>5

-----------------------------------------------------------------------------
(* Sequences of sequences, one after the other.                            *)

\* f[i] is what the first i of them make.
Concats(f, s, X) ==
  /\ f \in [0..Len(s) -> Seq(X)]
  /\ f[0] = <<>> /\ \A i \in 1..Len(s) : f[i] = f[i - 1] \o s[i]

\* There is such an f.
LEMMA ConcatsExist ==
  ASSUME NEW X, NEW s \in Seq(Seq(X))
  PROVE  \E f : Concats(f, s, X)
<1> DEFINE Y == Seq(X)
           step == [i \in 1..Len(s) |-> [y \in Y |-> y \o s[i]]]
<1>1. ASSUME NEW i \in 1..Len(s), NEW y \in Y PROVE y \o s[i] \in Y
  <2>1. s[i] \in Seq(X)
    OBVIOUS
  <2> QED
    BY <2>1, ConcatProperties
<1>2. step \in [1..Len(s) -> [Y -> Y]]
  <2> HIDE DEF Y
  <2> QED
    BY <1>1
<1>3. Len(s) \in Nat /\ <<>> \in Y
  OBVIOUS
<1>4. PICK f : Solves(f, Len(s), Y, <<>>, step)
  <2> HIDE DEF Y, step
  <2>1. \E f : Solves(f, Len(s), Y, <<>>, step)
    BY <1>2, <1>3, Recursion
  <2> QED
    BY <2>1
<1>5. ASSUME NEW i \in 1..Len(s) PROVE f[i] = f[i - 1] \o s[i]
  <2>1. i - 1 \in 0..Len(s)
    BY <1>3
  <2>2. f[i - 1] \in Y /\ f[i] = step[i][f[i - 1]]
    BY <1>4, <2>1 DEF Solves
  <2> HIDE DEF Y
  <2> QED
    BY <2>2
<1>6. Concats(f, s, X)
  <2> HIDE DEF step
  <2> QED
    BY <1>4, <1>5 DEF Solves, Concats
<1> QED
  BY <1>6

\* FlattenSeq puts them one after the other.
LEMMA FlattenIs ==
  ASSUME NEW X, NEW s \in Seq(Seq(X)), NEW f, Concats(f, s, X)
  PROVE  FlattenSeq(s) = f[Len(s)] /\ FlattenSeq(s) \in Seq(X)
<1> DEFINE N == Len(s)
           Flattens(g) == g = [i \in 1..N |-> IF i = 1 THEN s[i] ELSE g[i - 1] \o s[i]]
<1>1. N \in Nat /\ f[N] \in Seq(X)
  BY DEF Concats
<1>2. CASE N = 0
  <2>1. s = <<>>
    BY <1>2
  <2> QED
    BY <1>1, <1>2, <2>1 DEF FlattenSeq, Concats
<1>3. CASE N # 0
  <2> DEFINE h == [i \in 1..N |-> f[i]]
  <2>1. Flattens(h)
    <3>1. ASSUME NEW i \in 1..N PROVE h[i] = IF i = 1 THEN s[i] ELSE h[i - 1] \o s[i]
      <4>1. f[i] = f[i - 1] \o s[i] /\ s[i] \in Seq(X)
        BY ElementOfSeq DEF Concats
      <4>2. CASE i = 1
        <5>1. f[0] = <<>> /\ i - 1 = 0 /\ h[i] = f[i]
          BY <4>2 DEF Concats
        <5>2. f[i] = <<>> \o s[i]
          BY <4>1, <5>1
        <5>3. <<>> \o s[i] = s[i]
          BY <4>1, ConcatEmptySeq
        <5> QED
          BY <4>2, <5>1, <5>2, <5>3
      <4>3. CASE i # 1
        <5>1. i - 1 \in 1..N
          BY <1>1, <4>3
        <5> QED
          BY <4>1, <4>3, <5>1
      <4> QED
        BY <4>2, <4>3
    <3>2. h = [i \in 1..N |-> h[i]]
      OBVIOUS
    <3> HIDE DEF h
    <3> QED
      BY <3>1, <3>2
  <2> DEFINE flatten == CHOOSE g : Flattens(g)
  <2>2. Flattens(flatten)
    <3> HIDE DEF Flattens
    <3> QED
      BY <2>1
  <2>3. FlattenSeq(s) = flatten[N]
    BY <1>3 DEF FlattenSeq
  <2> HIDE DEF flatten
  <2> DEFINE S == {i \in 0..N : i = 0 \/ flatten[i] = f[i]}
  <2>4. 0 \in S
    BY <1>1
  <2>5. ASSUME NEW i \in 0..(N - 1), i \in S PROVE i + 1 \in S
    <3>1. i + 1 \in 1..N /\ i + 1 \in 0..N /\ (i + 1) - 1 = i
      BY <1>1
    <3>2. f[i + 1] = f[(i + 1) - 1] \o s[i + 1] /\ s[i + 1] \in Seq(X)
      BY <3>1, ElementOfSeq DEF Concats
    <3>3. CASE i = 0
      <4>2. i + 1 = 1 /\ (i + 1) - 1 = 0 /\ f[0] = <<>>
        BY <3>3 DEF Concats
      <4>0. f[1] = <<>> \o s[1] /\ s[1] \in Seq(X) /\ 1 \in 1..N
        BY <3>1, <3>2, <4>2
      <4>1. flatten[1] = s[1] /\ f[1] = s[1]
        BY <2>2, <4>0, ConcatEmptySeq
      <4> QED
        BY <3>1, <3>3, <4>1
    <3>4. CASE i # 0
      <4>1. flatten[i] = f[i] /\ i + 1 # 1
        BY <2>5, <3>4
      <4>2. flatten[i + 1] = flatten[i] \o s[i + 1]
        BY <2>2, <3>1, <4>1
      <4> QED
        BY <3>1, <3>2, <4>1, <4>2
    <3> QED
      BY <3>3, <3>4
  <2>6. 0..N \subseteq S
    <3> HIDE DEF S, N
    <3> QED
      BY <1>1, <2>4, <2>5, SetInduction
  <2> QED
    BY <1>1, <1>3, <2>3, <2>6
<1> QED
  BY <1>2, <1>3

\* It makes a sequence of the same elements.
LEMMA FlattenTyped ==
  ASSUME NEW X, NEW s \in Seq(Seq(X))
  PROVE  FlattenSeq(s) \in Seq(X)
BY ConcatsExist, FlattenIs

\* Of no sequence it makes the empty one.
LEMMA FlattenEmpty == FlattenSeq(<<>>) = <<>>
BY DEF FlattenSeq

\* Of one sequence it makes that one.
LEMMA FlattenOne ==
  ASSUME NEW X, NEW x \in Seq(X)
  PROVE  FlattenSeq(<<x>>) = x
<1> DEFINE s == <<x>>
<1>1. s \in Seq(Seq(X)) /\ Len(s) = 1 /\ s[1] = x
  OBVIOUS
<1>2. PICK f : Concats(f, s, X)
  <2> HIDE DEF s
  <2> QED
    BY <1>1, ConcatsExist
<1>3. f[1] = x
  <2>1. f[0] = <<>> /\ f[1] = f[0] \o s[1]
    <3> HIDE DEF s
    <3>1. 1 \in 1..Len(s) /\ 1 - 1 = 0
      BY <1>1
    <3>2. f[1] = f[1 - 1] \o s[1] /\ f[0] = <<>>
      BY <1>2, <3>1 DEF Concats
    <3> QED
      BY <3>1, <3>2
  <2> QED
    BY <1>1, <2>1, ConcatEmptySeq
<1>4. FlattenSeq(s) = f[Len(s)]
  <2> HIDE DEF s
  <2> QED
    BY <1>1, <1>2, FlattenIs
<1> QED
  BY <1>1, <1>3, <1>4

\* Where the parentheses stand makes no difference.
Associates(X) == \A a, b, c \in Seq(X) : (a \o b) \o c = a \o (b \o c)

\* This is so of all sequences.
LEMMA Associative ==
  ASSUME NEW X
  PROVE  Associates(X)
BY ConcatAssociative DEF Associates

\* u is s and, behind it, t.
Behind(u, s, t, M, N) == (\A i \in 1..M : u[i] = s[i]) /\ (\A i \in 1..N : u[M + i] = t[i])

\* f adds up the sequences of s, from its value at 0 on.
Adds(f, s, N) == \A i \in 1..N : f[i] = f[i - 1] \o s[i]

\* Two sequences, one behind the other.
Joined(a, b) == a \o b

\* f, g and h add up s, t and the two.
AddUp(X, M, N, s, t, u, f, g, h) ==
  /\ f \in [0..M -> Seq(X)] /\ g \in [0..N -> Seq(X)] /\ t \in [1..N -> Seq(X)]
  /\ h[0] = f[0] /\ g[0] = <<>> /\ Behind(u, s, t, M, N)
  /\ Adds(f, s, M) /\ Adds(g, t, N) /\ Adds(h, u, M + N)

\* What adds up the two goes on from s where t begins.
LEMMA Continues ==
  ASSUME NEW X, NEW M \in Nat, NEW N \in Nat, NEW s, NEW t, NEW u, NEW f, NEW g, NEW h,
         AddUp(X, M, N, s, t, u, f, g, h)
  PROVE  h[M] = f[M] /\ h[M + N] = Joined(f[M], g[N])
<1> USE DEF AddUp
<1>1. ASSUME NEW i \in 0..(M - 1), h[i] = f[i] PROVE h[i + 1] = f[i + 1]
  <2>1. i + 1 \in 1..M /\ (i + 1) - 1 = i /\ i + 1 \in 1..(M + N)
    OBVIOUS
  <2>2. f[i + 1] = f[i] \o s[i + 1]
    BY <2>1 DEF Adds
  <2>3. h[i + 1] = h[i] \o u[i + 1]
    BY <2>1 DEF Adds
  <2>4. u[i + 1] = s[i + 1]
    BY <2>1 DEF Behind
  <2> QED
    BY <1>1, <2>2, <2>3, <2>4
<1>2. h[M] = f[M]
  <2> DEFINE S == {i \in 0..M : h[i] = f[i]}
  <2>1. 0 \in S
    OBVIOUS
  <2>2. ASSUME NEW i \in 0..(M - 1), i \in S PROVE i + 1 \in S
    <3>1. i + 1 \in 0..M
      OBVIOUS
    <3> QED
      BY <1>1, <2>2, <3>1
  <2>3. 0..M \subseteq S
    <3> HIDE DEF S
    <3> QED
      BY <2>1, <2>2, SetInduction
  <2> QED
    BY <2>3
<1>3. f[M] \in Seq(X)
  OBVIOUS
<1>4. ASSUME NEW i \in 0..(N - 1), h[M + i] = f[M] \o g[i]
      PROVE  h[M + (i + 1)] = f[M] \o g[i + 1]
  <2>1. i + 1 \in 1..N /\ (i + 1) - 1 = i /\ i \in 0..N
        /\ M + (i + 1) \in 1..(M + N) /\ (M + (i + 1)) - 1 = M + i
    OBVIOUS
  <2>2. g[i + 1] = g[i] \o t[i + 1]
    BY <2>1 DEF Adds
  <2>3. h[M + (i + 1)] = h[M + i] \o u[M + (i + 1)]
    BY <2>1 DEF Adds
  <2>4. u[M + (i + 1)] = t[i + 1]
    BY <2>1 DEF Behind
  <2>5. g[i] \in Seq(X) /\ t[i + 1] \in Seq(X)
    BY <2>1
  <2>6. (f[M] \o g[i]) \o t[i + 1] = f[M] \o (g[i] \o t[i + 1])
    <3>1. Associates(X)
      BY Associative
    <3> QED
      BY <1>3, <2>5, <3>1, Zenon DEF Associates
  <2> QED
    BY <1>4, <2>2, <2>3, <2>4, <2>6
<1>5. h[M + N] = f[M] \o g[N]
  <2> DEFINE S == {i \in 0..N : h[M + i] = f[M] \o g[i]}
  <2>1. 0 \in S
    <3>1. f[M] \o <<>> = f[M] /\ M + 0 = M /\ 0 \in 0..N
      BY <1>3, ConcatEmptySeq
    <3>2. h[M + 0] = f[M] \o g[0]
      BY <1>2, <3>1
    <3> QED
      BY <3>1, <3>2
  <2>2. ASSUME NEW i \in 0..(N - 1), i \in S PROVE i + 1 \in S
    <3>1. i + 1 \in 0..N
      OBVIOUS
    <3> QED
      BY <1>4, <2>2, <3>1
  <2>3. 0..N \subseteq S
    <3> HIDE DEF S
    <3> QED
      BY <2>1, <2>2, SetInduction
  <2>4. N \in 0..N
    OBVIOUS
  <2> QED
    BY <2>3, <2>4
<1> QED
  BY <1>2, <1>5 DEF Joined

\* Two sequences of sequences, one behind the other.
LEMMA FlattenConcat ==
  ASSUME NEW X, NEW s \in Seq(Seq(X)), NEW t \in Seq(Seq(X))
  PROVE  FlattenSeq(s \o t) = FlattenSeq(s) \o FlattenSeq(t)
<1> DEFINE u == s \o t
           M == Len(s)
           N == Len(t)
<1>1. M \in Nat /\ N \in Nat /\ u \in Seq(Seq(X)) /\ Len(u) = M + N
  BY ConcatProperties
<1>2. Behind(u, s, t, M, N)
  BY DEF Behind
<1>3. t \in [1..N -> Seq(X)]
  BY LenProperties
<1> HIDE DEF u
<1>4. PICK f : Concats(f, s, X)
  BY ConcatsExist
<1>5. PICK g : Concats(g, t, X)
  BY ConcatsExist
<1>6. PICK h : Concats(h, u, X)
  BY <1>1, ConcatsExist
<1>7. FlattenSeq(s) = f[M]
  BY <1>4, FlattenIs
<1>8. FlattenSeq(t) = g[N]
  BY <1>5, FlattenIs
<1>9. FlattenSeq(u) = h[M + N]
  BY <1>1, <1>6, FlattenIs
<1>10. f \in [0..M -> Seq(X)] /\ f[0] = <<>> /\ Adds(f, s, M)
  BY <1>4 DEF Concats, Adds
<1>11. g \in [0..N -> Seq(X)] /\ g[0] = <<>> /\ Adds(g, t, N)
  BY <1>5 DEF Concats, Adds
<1>12. h[0] = <<>> /\ Adds(h, u, M + N)
  BY <1>1, <1>6 DEF Concats, Adds
<1> HIDE DEF M, N
<1>13. h[M + N] = Joined(f[M], g[N])
  <2>1. h[0] = f[0] /\ g[0] = <<>>
    BY <1>10, <1>11, <1>12
  <2>2. f \in [0..M -> Seq(X)]
    BY <1>10
  <2>3. g \in [0..N -> Seq(X)]
    BY <1>11
  <2>4. M \in Nat
    BY <1>1
  <2>5. N \in Nat
    BY <1>1
  <2>6. Adds(f, s, M)
    BY <1>10
  <2>7. Adds(g, t, N)
    BY <1>11
  <2>8. Adds(h, u, M + N)
    BY <1>12
  <2>9. AddUp(X, M, N, s, t, u, f, g, h)
    BY <1>2, <1>3, <2>1, <2>2, <2>3, <2>6, <2>7, <2>8 DEF AddUp
  <2> QED
    BY <2>4, <2>5, <2>9, Continues
<1>14. h[M + N] = f[M] \o g[N]
  BY <1>13 DEF Joined
<1> QED
  BY <1>7, <1>8, <1>9, <1>14 DEF u

\* Nothing and nothing is nothing.
LEMMA FlattenBlank ==
  ASSUME NEW s \in Seq({<<>>})
  PROVE  FlattenSeq(s) = <<>>
<1>1. s \in Seq(Seq({}))
  <2>1. {<<>>} \subseteq Seq({})
    OBVIOUS
  <2> QED
    BY <2>1, SeqMonotonic
<1>2. FlattenSeq(s) \in Seq({})
  BY <1>1, FlattenTyped
<1> QED
  BY <1>2

\* What g makes of each element of s.
Mapped(g, s) == [i \in DOMAIN s |-> g[s[i]]]

\* A sequence of what g makes.
LEMMA MappedTyped ==
  ASSUME NEW A, NEW X, NEW g, \A a \in A : g[a] \in X, NEW s \in Seq(A)
  PROVE  Mapped(g, s) \in Seq(X)
<1>1. s \in [1..Len(s) -> A] /\ Len(s) \in Nat
  BY LenProperties
<1>2. Mapped(g, s) \in [1..Len(s) -> X]
  BY <1>1 DEF Mapped
<1> QED
  BY <1>1, <1>2, IsASeq

\* As many of them.
LEMMA MappedLength ==
  ASSUME NEW A, NEW g, NEW s \in Seq(A)
  PROVE  Len(Mapped(g, s)) = Len(s)
<1> DEFINE X == {g[a] : a \in A}
<1>1. Mapped(g, s) \in Seq(X)
  BY MappedTyped
<1>2. DOMAIN Mapped(g, s) = 1..Len(s) /\ Len(s) \in Nat
  BY LenProperties DEF Mapped
<1> QED
  BY <1>1, <1>2, LenProperties

\* Two sequences, one behind the other.
LEMMA MappedConcat ==
  ASSUME NEW A, NEW g, NEW s \in Seq(A), NEW t \in Seq(A)
  PROVE  Mapped(g, s \o t) = Mapped(g, s) \o Mapped(g, t)
<1> DEFINE X == {g[a] : a \in A}
<1>1. s \o t \in Seq(A) /\ Len(s \o t) = Len(s) + Len(t)
  BY ConcatProperties
<1>2. /\ Mapped(g, s) \in Seq(X) /\ Mapped(g, t) \in Seq(X) /\ Mapped(g, s \o t) \in Seq(X)
      /\ Len(Mapped(g, s)) = Len(s) /\ Len(Mapped(g, t)) = Len(t)
      /\ Len(Mapped(g, s \o t)) = Len(s) + Len(t)
  <2>1. Mapped(g, s) \in Seq(X) /\ Mapped(g, t) \in Seq(X) /\ Mapped(g, s \o t) \in Seq(X)
    <3>1. \A a \in A : g[a] \in X
      OBVIOUS
    <3> HIDE DEF X
    <3> QED
      BY <1>1, <3>1, MappedTyped
  <2>2. Len(Mapped(g, s)) = Len(s)
    BY MappedLength
  <2>3. Len(Mapped(g, t)) = Len(t)
    BY MappedLength
  <2>4. Len(Mapped(g, s \o t)) = Len(s \o t)
    BY <1>1, MappedLength
  <2> QED
    BY <1>1, <2>1, <2>2, <2>3, <2>4
<1>3. /\ Mapped(g, s) \o Mapped(g, t) \in Seq(X)
      /\ Len(Mapped(g, s) \o Mapped(g, t)) = Len(s) + Len(t)
  <2>1. Mapped(g, s) \in Seq(X) /\ Mapped(g, t) \in Seq(X)
    BY <1>2
  <2>2. /\ Mapped(g, s) \o Mapped(g, t) \in Seq(X)
        /\ Len(Mapped(g, s) \o Mapped(g, t)) = Len(Mapped(g, s)) + Len(Mapped(g, t))
    BY <2>1, ConcatProperties
  <2> QED
    BY <1>2, <2>2
<1>4. ASSUME NEW i \in 1..(Len(s) + Len(t))
      PROVE  Mapped(g, s \o t)[i] = (Mapped(g, s) \o Mapped(g, t))[i]
  <2>1. Mapped(g, s \o t)[i] = g[(s \o t)[i]]
    BY <1>1 DEF Mapped
  <2>2. CASE i <= Len(s)
    <3>1. i \in 1..Len(s) /\ (s \o t)[i] = s[i]
      BY <2>2, ConcatProperties
    <3>2. (Mapped(g, s) \o Mapped(g, t))[i] = Mapped(g, s)[i]
      BY <1>2, <2>2, ConcatProperties
    <3>3. Mapped(g, s)[i] = g[s[i]]
      BY <3>1 DEF Mapped
    <3> QED
      BY <2>1, <3>1, <3>2, <3>3
  <2>3. CASE ~(i <= Len(s))
    <3>1. i - Len(s) \in 1..Len(t) /\ (s \o t)[i] = t[i - Len(s)]
      BY <2>3, ConcatProperties
    <3>2. (Mapped(g, s) \o Mapped(g, t))[i] = Mapped(g, t)[i - Len(s)]
      BY <1>2, <2>3, ConcatProperties
    <3>3. Mapped(g, t)[i - Len(s)] = g[t[i - Len(s)]]
      BY <3>1 DEF Mapped
    <3> QED
      BY <2>1, <3>1, <3>2, <3>3
  <2> QED
    BY <2>2, <2>3
<1> QED
  BY <1>2, <1>3, <1>4, SeqEqual

\* g makes sequences.
MakesSeqs(g, A, X) == \A a \in A : g[a] \in Seq(X)

\* What g makes of each element, one after the other.
LEMMA FlattenMapped ==
  ASSUME NEW A, NEW X, NEW g, MakesSeqs(g, A, X), NEW s \in Seq(A), NEW t \in Seq(A)
  PROVE  FlattenSeq(Mapped(g, s \o t)) = FlattenSeq(Mapped(g, s)) \o FlattenSeq(Mapped(g, t))
<1>1. Mapped(g, s) \in Seq(Seq(X)) /\ Mapped(g, t) \in Seq(Seq(X))
  BY MappedTyped DEF MakesSeqs
<1>2. Mapped(g, s \o t) = Mapped(g, s) \o Mapped(g, t)
  BY MappedConcat
<1>3. FlattenSeq(Mapped(g, s) \o Mapped(g, t)) =
        FlattenSeq(Mapped(g, s)) \o FlattenSeq(Mapped(g, t))
  BY <1>1, FlattenConcat
<1> QED
  BY <1>2, <1>3

\* A sequence of what the sequences are made of.
LEMMA FlattenMappedTyped ==
  ASSUME NEW A, NEW X, NEW g, MakesSeqs(g, A, X), NEW s \in Seq(A)
  PROVE  FlattenSeq(Mapped(g, s)) \in Seq(X)
<1>1. Mapped(g, s) \in Seq(Seq(X))
  BY MappedTyped DEF MakesSeqs
<1> QED
  BY <1>1, FlattenTyped

\* Of one element.
LEMMA FlattenMappedOne ==
  ASSUME NEW A, NEW X, NEW g, MakesSeqs(g, A, X), NEW a \in A
  PROVE  FlattenSeq(Mapped(g, <<a>>)) = g[a]
<1>1. Mapped(g, <<a>>) = <<g[a]>> /\ g[a] \in Seq(X)
  BY DEF Mapped, MakesSeqs
<1> QED
  BY <1>1, FlattenOne

\* A sequence in two parts.
LEMMA SubSeqParts ==
  ASSUME NEW X, NEW s \in Seq(X), NEW k \in 1..(Len(s) + 1), NEW m \in k..(Len(s) + 1)
  PROVE  SubSeq(s, k, m - 1) \o SubSeq(s, m, Len(s)) = SubSeq(s, k, Len(s))
<1>1. m - 1 \in (k - 1)..Len(s) /\ Len(s) \in (m - 1)..Len(s) /\ (m - 1) + 1 = m
  BY LenProperties
<1>2. SubSeq(s, k, m - 1) \o SubSeq(s, (m - 1) + 1, Len(s)) = SubSeq(s, k, Len(s))
  BY <1>1, ConcatAdjacentSubSeq
<1> QED
  BY <1>1, <1>2
=============================================================================
