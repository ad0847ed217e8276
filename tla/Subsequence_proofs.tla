------------------------- MODULE Subsequence_proofs -------------------------
(***************************************************************************)
(* What Subsequence returns, for sequences of any length.                  *)
(*                                                                         *)
(* Both facts are proved by induction in the form of a least               *)
(* counterexample: a non-empty set of naturals has a least element         *)
(* (LeastNat), which follows from the well-foundedness of < and takes a    *)
(* set, not an operator.                                                   *)
(***************************************************************************)
EXTENDS Subsequence, SequenceTheorems, WellFoundedInduction, TLAPS

\* The set of elements of a sequence.
Elems(q) == {q[i] : i \in 1..Len(q)}

(* A non-empty set of natural numbers has a least element.                   *)
LEMMA LeastNat ==
    ASSUME NEW T \in SUBSET Nat, T # {}
    PROVE  \E x \in T : \A y \in T : x <= y
<1> DEFINE R == {ss \in Nat \X Nat : ss[1] < ss[2]}
<1>1. IsWellFoundedOn(R, Nat)
    BY NatLessThanWellFounded DEF OpToRel
<1>2. PICK x \in T : \A y \in T : <<y, x>> \notin R
    <2> HIDE DEF R
    <2>1. QED
        BY <1>1, WFMin
<1>3. ASSUME NEW y \in T
      PROVE  x <= y
  <2>1. <<y, x>> \in Nat \X Nat /\ <<y, x>> \notin R
      BY <1>2
  <2>2. ~(y < x)
      BY <2>1
  <2>3. QED
      BY <2>2
<1>4. QED
    BY <1>3

(* Induction up to N, for a set that holds the numbers with some property.    *)
LEMMA InductionUpTo ==
    ASSUME NEW N \in Nat, NEW G, 0 \in G,
           \A n \in 1..N : n - 1 \in G => n \in G
    PROVE  \A n \in 0..N : n \in G
<1> DEFINE Bad == {n \in 0..N : n \notin G}
<1>1. ASSUME Bad # {}
      PROVE  FALSE
  <2>1. Bad \in SUBSET Nat
      OBVIOUS
  <2> HIDE DEF Bad
  <2>2. PICK n \in Bad : \A y \in Bad : n <= y
      BY <1>1, <2>1, LeastNat
  <2>3. n \in 0..N /\ n \notin G /\ n # 0
      BY <2>2 DEF Bad
  <2>4. n - 1 \in 0..N /\ ~(n <= n - 1) /\ n \in 1..N
      BY <2>3
  <2>5. n - 1 \in G
      BY <2>2, <2>4 DEF Bad
  <2>6. QED
      BY <2>3, <2>4, <2>5
<1>2. QED
    BY <1>1

-----------------------------------------------------------------------------
(* Elements of the empty sequence, of a sequence with one element more, and   *)
(* of head and tail.                                                         *)
LEMMA EmptyElems == Elems(<<>>) = {}
BY DEF Elems

(* Append adds one element, behind the others.                               *)
LEMMA AppendElems ==
    ASSUME NEW M, NEW q \in Seq(M), NEW x \in M
    PROVE  /\ Append(q, x) \in Seq(M) /\ Len(Append(q, x)) = Len(q) + 1 /\ Len(q) \in Nat
           /\ \A i \in 1..Len(q) : Append(q, x)[i] = q[i]
           /\ Append(q, x)[Len(q) + 1] = x
           /\ Elems(Append(q, x)) = Elems(q) \union {x}
<1> DEFINE a == Append(q, x)
           L == Len(q)
<1>1. /\ a \in Seq(M) /\ Len(a) = L + 1 /\ L \in Nat
      /\ \A i \in 1..L : a[i] = q[i]
      /\ a[L + 1] = x
    BY AppendProperties, LenProperties
<1> HIDE DEF a, L
<1>2. \A i : i \in 1..Len(a) <=> i \in 1..L \/ i = L + 1
    BY <1>1
<1>3. \A y : (\E i \in 1..Len(a) : y = a[i]) <=> y = x \/ \E i \in 1..L : y = q[i]
    BY <1>1, <1>2, Zenon
<1>4. Elems(a) = Elems(q) \union {x}
    BY <1>3, Zenon DEF Elems, L
<1>5. QED
    BY <1>1, <1>4 DEF a, L

(* A sequence that is not empty has a head and a tail, and its elements are   *)
(* these.                                                                    *)
LEMMA HeadTailElems ==
    ASSUME NEW M, NEW q \in Seq(M), q # <<>>
    PROVE  /\ Head(q) \in M /\ Tail(q) \in Seq(M)
           /\ Len(q) \in Nat \ {0} /\ Len(Tail(q)) = Len(q) - 1
           /\ Elems(q) = {Head(q)} \union Elems(Tail(q))
<1>1. /\ Len(q) \in Nat \ {0} /\ Head(q) = q[1] /\ Head(q) \in M
      /\ Tail(q) \in Seq(M) /\ Len(Tail(q)) = Len(q) - 1
      /\ \A i \in 1..Len(Tail(q)) : Tail(q)[i] = q[i + 1]
    BY HeadTailProperties, EmptySeq, LenProperties
<1>2. ASSUME NEW i \in 1..Len(q)
      PROVE  q[i] = Head(q) \/ \E j \in 1..Len(Tail(q)) : q[i] = Tail(q)[j]
  <2>1. CASE i = 1
      BY <1>1, <2>1
  <2>2. CASE i # 1
    <3>1. i - 1 \in 1..Len(Tail(q)) /\ (i - 1) + 1 = i
        BY <1>1, <2>2
    <3>2. QED
        BY <1>1, <3>1
  <2>3. QED
      BY <2>1, <2>2
<1>3. ASSUME NEW j \in 1..Len(Tail(q))
      PROVE  \E i \in 1..Len(q) : Tail(q)[j] = q[i]
  <2>1. j + 1 \in 1..Len(q)
      BY <1>1
  <2>2. QED
      BY <1>1, <2>1
<1>4. 1 \in 1..Len(q)
    BY <1>1
<1>5. \A x : x \in Elems(q) <=> x = Head(q) \/ x \in Elems(Tail(q))
    BY <1>1, <1>2, <1>3, <1>4 DEF Elems
<1>6. QED
    BY <1>1, <1>5

-----------------------------------------------------------------------------
(* The recursion of Subsequence has a solution.                              *)
LEMMA SubsequenceDefined ==
    ASSUME NEW M, NEW s \in Seq(M), NEW S
    PROVE  \E f : /\ f = [i \in 0..Len(s) |->
                            IF i = 0 THEN <<>>
                            ELSE IF s[i] \in S THEN Append(f[i - 1], s[i])
                            ELSE f[i - 1]]
                  /\ Subsequence(s, S) = f[Len(s)]
<1> DEFINE N == Len(s)
           Step(f, i) == IF i = 0 THEN <<>>
                         ELSE IF s[i] \in S THEN Append(f[i - 1], s[i])
                         ELSE f[i - 1]
           Up(f, n) == f = [i \in 0..n |-> Step(f, i)]
           Bad == {n \in 0..N : ~\E f : Up(f, n)}
<1>1. N \in Nat
    BY LenProperties
<1>2. ASSUME Bad # {}
      PROVE  FALSE
  <2>1. PICK n \in Bad : \A y \in Bad : n <= y
    <3>1. Bad \in SUBSET Nat
        BY <1>1
    <3> HIDE DEF Bad
    <3>2. QED
        BY <1>2, <3>1, LeastNat
  <2>2. n \in 0..N /\ ~\E f : Up(f, n)
      OBVIOUS
  <2>3. CASE n = 0
    <3>1. Up([i \in 0..0 |-> <<>>], 0)
        OBVIOUS
    <3>2. QED
        BY <2>2, <2>3, <3>1
  <2>4. CASE n # 0
    <3>1. n - 1 \in 0..N /\ ~(n <= n - 1)
        BY <1>1, <2>2, <2>4
    <3>2. PICK f : Up(f, n - 1)
        BY <2>1, <3>1
    <3> DEFINE g == [i \in 0..n |-> IF i = n THEN Step(f, n) ELSE f[i]]
    <3>3. \A i \in 0..(n - 1) : f[i] = Step(f, i)
        BY <3>2
    <3>4. \A i \in 0..n : Step(g, i) = Step(f, i)
        BY <1>1, <2>2
    <3>5. \A i \in 0..n : g[i] = Step(g, i)
        BY <1>1, <2>2, <3>3, <3>4
    <3>6. Up(g, n)
      <4> HIDE DEF Step
      <4>1. QED
          BY <3>5
    <3>7. QED
        BY <2>2, <3>6
  <2>5. QED
      BY <2>3, <2>4
<1>3. \E f : Up(f, N)
  <2>1. N \in 0..N
      BY <1>1
  <2>2. N \notin Bad
      BY <1>2, Zenon
  <2> HIDE DEF Up
  <2>3. QED
      BY <2>1, <2>2
<1>4. Up((CHOOSE f : Up(f, N)), N)
    BY <1>3
<1>5. Subsequence(s, S) = (CHOOSE f : Up(f, N))[N]
    BY DEF Subsequence
<1>6. QED
    BY <1>4, <1>5

(* The result is a sequence of elements of s, and has exactly those of them   *)
(* that are in S.                                                            *)
LEMMA SubsequenceElems ==
    ASSUME NEW M, NEW s \in Seq(M), NEW S
    PROVE  /\ Subsequence(s, S) \in Seq(M)
           /\ Elems(Subsequence(s, S)) = Elems(s) \intersect S
<1> DEFINE N == Len(s)
           Has(q, x) == \E k \in 1..Len(q) : q[k] = x
           Good(q, n) == /\ q \in Seq(M)
                         /\ \A x : Has(q, x) <=> x \in S /\ \E j \in 1..n : s[j] = x
<1>1. N \in Nat /\ \A j \in 1..N : s[j] \in M
    BY LenProperties, ElementOfSeq
<1>2. PICK f : /\ \A i \in 0..N : f[i] = IF i = 0 THEN <<>>
                                         ELSE IF s[i] \in S THEN Append(f[i - 1], s[i])
                                         ELSE f[i - 1]
               /\ Subsequence(s, S) = f[N]
    BY SubsequenceDefined
<1> DEFINE Bad == {n \in 0..N : ~Good(f[n], n)}
<1>3. ASSUME Bad # {}
      PROVE  FALSE
  <2>1. PICK n \in Bad : \A y \in Bad : n <= y
    <3>1. Bad \in SUBSET Nat
        BY <1>1
    <3> HIDE DEF Bad
    <3>2. QED
        BY <1>3, <3>1, LeastNat
  <2>2. n \in 0..N /\ ~Good(f[n], n)
      OBVIOUS
  <2>3. CASE n = 0
    <3>1. f[n] = <<>> /\ <<>> \in Seq(M) /\ Len(<<>>) = 0
        BY <1>2, <2>2, <2>3
    <3>2. QED
        BY <2>2, <2>3, <3>1
  <2>4. CASE n # 0
    <3>1. n - 1 \in 0..N /\ ~(n <= n - 1) /\ n \in 1..N
        BY <1>1, <2>2, <2>4
    <3>2. Good(f[n - 1], n - 1)
        BY <2>1, <3>1
    <3>3. \A x : (\E j \in 1..n : s[j] = x) <=> s[n] = x \/ \E j \in 1..(n - 1) : s[j] = x
        BY <3>1
    <3>4. CASE s[n] \in S
      <4>1. f[n] = Append(f[n - 1], s[n])
        <5>1. n \in 0..N /\ n # 0
            BY <2>2, <2>4
        <5>2. QED
            BY <1>2, <3>4, <5>1, Zenon
      <4>2. f[n - 1] \in Seq(M) /\ s[n] \in M
          BY <1>1, <3>1, <3>2
      <4>3. /\ f[n] \in Seq(M) /\ Len(f[n]) = Len(f[n - 1]) + 1 /\ Len(f[n - 1]) \in Nat
            /\ f[n][Len(f[n - 1]) + 1] = s[n]
            /\ \A k \in 1..Len(f[n - 1]) : f[n][k] = f[n - 1][k]
          BY <4>1, <4>2, AppendProperties, LenProperties
      <4>4. \A x : Has(f[n], x) <=> Has(f[n - 1], x) \/ x = s[n]
        <5> DEFINE L == Len(f[n - 1])
        <5>1. \A k : k \in 1..Len(f[n]) <=> k \in 1..L \/ k = L + 1
            BY <4>3
        <5> HIDE DEF L
        <5>2. f[n][L + 1] = s[n] /\ \A k \in 1..L : f[n][k] = f[n - 1][k]
            BY <4>3 DEF L
        <5>3. \A x : Has(f[n], x) <=> x = s[n] \/ \E k \in 1..L : f[n - 1][k] = x
            BY <5>1, <5>2, Zenon
        <5>4. QED
            BY <5>3, Zenon DEF L
      <4>5. QED
          BY <2>2, <3>2, <3>3, <3>4, <4>3, <4>4
    <3>5. CASE s[n] \notin S
      <4>1. f[n] = f[n - 1]
          BY <1>2, <3>1, <3>5
      <4>2. QED
          BY <2>2, <3>2, <3>3, <3>5, <4>1
    <3>6. QED
        BY <3>4, <3>5
  <2>5. QED
      BY <2>3, <2>4
<1>4. Good(f[N], N)
    BY <1>1, <1>3
<1> DEFINE q == f[N]
<1>5. q \in Seq(M) /\ \A x : Has(q, x) <=> x \in S /\ \E j \in 1..N : s[j] = x
    BY <1>4, Zenon
<1>6. q = Subsequence(s, S)
    BY <1>2, Zenon
<1> HIDE DEF q
<1>7. \A x : x \in Elems(q) <=> \E k \in 1..Len(q) : q[k] = x
    BY Zenon DEF Elems
<1>8. \A x : x \in Elems(s) <=> \E j \in 1..N : s[j] = x
    BY Zenon DEF Elems
<1>9. Elems(q) = Elems(s) \intersect S
  <2>1. ASSUME NEW x
        PROVE  x \in Elems(q) <=> x \in Elems(s) /\ x \in S
    <3>1. Has(q, x) <=> x \in S /\ \E j \in 1..N : s[j] = x
        BY <1>5, Zenon
    <3>2. QED
        BY <1>7, <1>8, <3>1, Zenon
  <2>2. QED
      BY <2>1
<1>10. QED
    BY <1>5, <1>6, <1>9

(* A longer sequence with nothing more of S has the same subsequence.          *)
LEMMA SubsequenceExtended ==
    ASSUME NEW M, NEW s \in Seq(M), NEW t \in Seq(M), NEW S,
           Len(s) <= Len(t),
           \A i \in 1..Len(s) : t[i] = s[i],
           \A i \in 1..Len(t) : i > Len(s) => t[i] \notin S
    PROVE  Subsequence(t, S) = Subsequence(s, S)
<1> DEFINE L == Len(s)
           N == Len(t)
           cut(n) == IF n <= L THEN n ELSE L
<1>1. L \in Nat /\ N \in Nat /\ L <= N
    BY LenProperties
<1>2. PICK f : /\ f = [i \in 0..L |-> IF i = 0 THEN <<>>
                                      ELSE IF s[i] \in S THEN Append(f[i - 1], s[i]) ELSE f[i - 1]]
               /\ Subsequence(s, S) = f[L]
    BY SubsequenceDefined
<1>3. PICK g : /\ g = [i \in 0..N |-> IF i = 0 THEN <<>>
                                      ELSE IF t[i] \in S THEN Append(g[i - 1], t[i]) ELSE g[i - 1]]
               /\ Subsequence(t, S) = g[N]
    BY SubsequenceDefined
<1>4. \A i \in 0..L : f[i] = IF i = 0 THEN <<>>
                             ELSE IF s[i] \in S THEN Append(f[i - 1], s[i]) ELSE f[i - 1]
    BY <1>2
<1>5. \A i \in 0..N : g[i] = IF i = 0 THEN <<>>
                             ELSE IF t[i] \in S THEN Append(g[i - 1], t[i]) ELSE g[i - 1]
    BY <1>3
<1> DEFINE G == {n \in 0..N : g[n] = f[cut(n)]}
<1> HIDE DEF L, N
<1>6. 0 \in G
    BY <1>1, <1>4, <1>5
<1>7. ASSUME NEW n \in 1..N, n - 1 \in G
      PROVE  n \in G
  <2>1. n \in 0..N /\ n # 0 /\ g[n - 1] = f[cut(n - 1)]
      BY <1>1, <1>7
  <2>2. g[n] = IF t[n] \in S THEN Append(g[n - 1], t[n]) ELSE g[n - 1]
      BY <1>5, <2>1
  <2>3. CASE n <= L
    <3>1. n \in 0..L /\ n \in 1..L /\ cut(n) = n /\ cut(n - 1) = n - 1
        BY <1>1, <2>1, <2>3
    <3>2. t[n] = s[n]
        BY <3>1 DEF L
    <3>3. f[n] = IF s[n] \in S THEN Append(f[n - 1], s[n]) ELSE f[n - 1]
        BY <1>4, <2>1, <3>1
    <3>4. QED
        BY <2>1, <2>2, <3>1, <3>2, <3>3
  <2>4. CASE n > L
    <3>1. cut(n) = L /\ cut(n - 1) = L
        BY <1>1, <2>1, <2>4
    <3>2. t[n] \notin S
        BY <2>4 DEF L, N
    <3>3. QED
        BY <2>1, <2>2, <3>1, <3>2
  <2>5. QED
      BY <1>1, <2>1, <2>3, <2>4
<1>8. \A n \in 0..N : n \in G
  <2> HIDE DEF G
  <2> QED BY <1>1, <1>6, <1>7, InductionUpTo
<1>9. N \in 0..N /\ cut(N) = L
    BY <1>1
<1>10. g[N] = f[L]
    BY <1>8, <1>9
<1>11. QED
    BY <1>2, <1>3, <1>10 DEF L, N

(* One element more.                                                         *)
LEMMA SubsequenceAppend ==
    ASSUME NEW M, NEW s \in Seq(M), NEW x \in M, NEW S, x \in S
    PROVE  Subsequence(Append(s, x), S) = Append(Subsequence(s, S), x)
<1> DEFINE L == Len(s)
           t == Append(s, x)
           N == Len(t)
<1>1. L \in Nat /\ N = L + 1 /\ t \in Seq(M) /\ t[N] = x /\ \A i \in 1..L : t[i] = s[i]
    BY AppendElems
<1>2. PICK f : /\ f = [i \in 0..L |-> IF i = 0 THEN <<>>
                                      ELSE IF s[i] \in S THEN Append(f[i - 1], s[i]) ELSE f[i - 1]]
               /\ Subsequence(s, S) = f[L]
    BY SubsequenceDefined
<1> HIDE DEF t
<1>3. PICK g : /\ g = [i \in 0..N |-> IF i = 0 THEN <<>>
                                      ELSE IF t[i] \in S THEN Append(g[i - 1], t[i]) ELSE g[i - 1]]
               /\ Subsequence(t, S) = g[N]
    BY <1>1, SubsequenceDefined
<1> HIDE DEF L, N
<1>4. \A i \in 0..L : f[i] = IF i = 0 THEN <<>>
                             ELSE IF s[i] \in S THEN Append(f[i - 1], s[i]) ELSE f[i - 1]
    BY <1>2
<1>5. \A i \in 0..N : g[i] = IF i = 0 THEN <<>>
                             ELSE IF t[i] \in S THEN Append(g[i - 1], t[i]) ELSE g[i - 1]
    BY <1>3
<1> DEFINE G == {n \in 0..L : g[n] = f[n]}
<1>6. 0 \in G
    BY <1>1, <1>4, <1>5
<1>7. ASSUME NEW n \in 1..L, n - 1 \in G
      PROVE  n \in G
  <2>1. n \in 0..L /\ n \in 0..N /\ n # 0 /\ g[n - 1] = f[n - 1] /\ t[n] = s[n]
      BY <1>1, <1>7
  <2>2. g[n] = f[n]
      BY <1>4, <1>5, <2>1
  <2>3. QED
      BY <2>1, <2>2
<1>8. \A n \in 0..L : n \in G
  <2> HIDE DEF G
  <2> QED BY <1>1, <1>6, <1>7, InductionUpTo
<1>9. N \in 0..N /\ N # 0 /\ N - 1 = L /\ L \in 0..L
    BY <1>1
<1>10. g[N] = Append(g[L], x) /\ g[L] = f[L]
    BY <1>1, <1>5, <1>8, <1>9
<1>11. QED
    BY <1>2, <1>3, <1>10 DEF t

(* Nothing is left out of a sequence of elements of S.                        *)
LEMMA SubsequenceAll ==
    ASSUME NEW S, NEW s \in Seq(S)
    PROVE  Subsequence(s, S) = s
<1> DEFINE N == Len(s)
<1>1. N \in Nat /\ \A i \in 1..N : s[i] \in S
    BY LenProperties, ElementOfSeq
<1>2. PICK f : /\ f = [i \in 0..N |-> IF i = 0 THEN <<>>
                                      ELSE IF s[i] \in S THEN Append(f[i - 1], s[i]) ELSE f[i - 1]]
               /\ Subsequence(s, S) = f[N]
    BY SubsequenceDefined
<1> HIDE DEF N
<1>3. \A i \in 0..N : f[i] = IF i = 0 THEN <<>>
                             ELSE IF s[i] \in S THEN Append(f[i - 1], s[i]) ELSE f[i - 1]
    BY <1>2
<1> DEFINE Good(q, n) == q \in Seq(S) /\ Len(q) = n /\ \A i \in 1..n : q[i] = s[i]
           G == {n \in 0..N : Good(f[n], n)}
<1>4. 0 \in G
  <2>0. 0 \in 0..N
      BY <1>1
  <2>1. f[0] = <<>>
      BY <1>3, <2>0, Zenon
  <2>2. <<>> \in Seq(S) /\ Len(<<>>) = 0 /\ \A i \in 1..0 : <<>>[i] = s[i]
      BY EmptySeq
  <2>3. Good(f[0], 0)
      BY <2>1, <2>2, Zenon
  <2>4. QED
      BY <2>0, <2>3, Zenon
<1>5. ASSUME NEW n \in 1..N, n - 1 \in G
      PROVE  n \in G
  <2>1. n \in 0..N /\ n # 0 /\ Good(f[n - 1], n - 1) /\ s[n] \in S
      BY <1>1, <1>5
  <2>2. f[n] = Append(f[n - 1], s[n])
      BY <1>3, <2>1
  <2>3. /\ f[n] \in Seq(S) /\ Len(f[n]) = (n - 1) + 1
        /\ \A i \in 1..(n - 1) : f[n][i] = f[n - 1][i]
        /\ f[n][(n - 1) + 1] = s[n]
      BY <2>1, <2>2, AppendElems
  <2>4. \A i \in 1..n : i \in 1..(n - 1) \/ i = n
      BY <2>1
  <2>5. (n - 1) + 1 = n
      BY <2>1
  <2>6. Good(f[n], n)
      BY <2>1, <2>3, <2>4, <2>5
  <2>7. QED
      BY <2>1, <2>6
<1>6. \A n \in 0..N : n \in G
  <2> HIDE DEF G
  <2> QED BY <1>1, <1>4, <1>5, InductionUpTo
<1>7. Good(f[N], N)
    BY <1>1, <1>6
<1>8. f[N] = s
    BY <1>7, SeqEqual DEF N
<1>9. QED
    BY <1>2, <1>8 DEF N

(* An element behind the list that is not in S is passed over.               *)
LEMMA SubsequenceSkip ==
    ASSUME NEW M, NEW s \in Seq(M), NEW x \in M, NEW S, x \notin S
    PROVE  Subsequence(Append(s, x), S) = Subsequence(s, S)
<1> DEFINE t == Append(s, x)
<1>1. /\ t \in Seq(M) /\ Len(t) = Len(s) + 1 /\ Len(s) \in Nat /\ t[Len(s) + 1] = x
      /\ \A i \in 1..Len(s) : t[i] = s[i]
    BY AppendElems
<1> HIDE DEF t
<1>2. Len(s) <= Len(t) /\ \A i \in 1..Len(t) : i > Len(s) => i = Len(s) + 1
    BY <1>1
<1>3. \A i \in 1..Len(t) : i > Len(s) => t[i] \notin S
    BY <1>1, <1>2
<1>4. Subsequence(t, S) = Subsequence(s, S)
    BY <1>1, <1>2, <1>3, SubsequenceExtended
<1>5. QED
    BY <1>4 DEF t

(* Taking S and then a part T of it is taking T.                             *)
LEMMA SubsequenceTwice ==
    ASSUME NEW M, NEW s \in Seq(M), NEW S, NEW T, T \subseteq S
    PROVE  Subsequence(Subsequence(s, S), T) = Subsequence(s, T)
<1> DEFINE N == Len(s)
<1>1. N \in Nat /\ \A i \in 1..N : s[i] \in M
    BY LenProperties, ElementOfSeq
<1>2. PICK f : /\ f = [i \in 0..N |-> IF i = 0 THEN <<>>
                                      ELSE IF s[i] \in S THEN Append(f[i - 1], s[i]) ELSE f[i - 1]]
               /\ Subsequence(s, S) = f[N]
    BY SubsequenceDefined
<1>3. PICK g : /\ g = [i \in 0..N |-> IF i = 0 THEN <<>>
                                      ELSE IF s[i] \in T THEN Append(g[i - 1], s[i]) ELSE g[i - 1]]
               /\ Subsequence(s, T) = g[N]
    BY SubsequenceDefined
<1> HIDE DEF N
<1>4. \A i \in 0..N : f[i] = IF i = 0 THEN <<>>
                             ELSE IF s[i] \in S THEN Append(f[i - 1], s[i]) ELSE f[i - 1]
    BY <1>2
<1>5. \A i \in 0..N : g[i] = IF i = 0 THEN <<>>
                             ELSE IF s[i] \in T THEN Append(g[i - 1], s[i]) ELSE g[i - 1]
    BY <1>3
<1> DEFINE Good(n) == f[n] \in Seq(M) /\ Subsequence(f[n], T) = g[n]
           G == {n \in 0..N : Good(n)}
<1>6. 0 \in G
  <2>1. 0 \in 0..N
      BY <1>1
  <2>2. f[0] = <<>> /\ g[0] = <<>>
      BY <1>4, <1>5, <2>1
  <2>3. <<>> \in Seq(M) /\ <<>> \in Seq(T)
      BY EmptySeq
  <2>4. Subsequence(<<>>, T) = <<>>
      BY <2>3, SubsequenceAll
  <2>5. QED
      BY <2>1, <2>2, <2>3, <2>4
<1>7. ASSUME NEW n \in 1..N, n - 1 \in G
      PROVE  n \in G
  <2>1. n \in 0..N /\ n # 0 /\ f[n - 1] \in Seq(M) /\ Subsequence(f[n - 1], T) = g[n - 1] /\ s[n] \in M
      BY <1>1, <1>7
  <2>2. f[n] = IF s[n] \in S THEN Append(f[n - 1], s[n]) ELSE f[n - 1]
      BY <1>4, <2>1
  <2>3. g[n] = IF s[n] \in T THEN Append(g[n - 1], s[n]) ELSE g[n - 1]
      BY <1>5, <2>1
  <2>4. Append(f[n - 1], s[n]) \in Seq(M)
      BY <2>1, AppendElems
  <2>5. CASE s[n] \in T
    <3>1. Subsequence(Append(f[n - 1], s[n]), T) = Append(Subsequence(f[n - 1], T), s[n])
        BY <2>1, <2>5, SubsequenceAppend
    <3>2. f[n] = Append(f[n - 1], s[n]) /\ g[n] = Append(g[n - 1], s[n])
        BY <2>2, <2>3, <2>5
    <3>3. QED
        BY <2>1, <2>4, <3>1, <3>2
  <2>6. CASE s[n] \notin T
    <3>1. Subsequence(Append(f[n - 1], s[n]), T) = Subsequence(f[n - 1], T)
        BY <2>1, <2>6, SubsequenceSkip
    <3>2. g[n] = g[n - 1]
        BY <2>3, <2>6
    <3>3. QED
        BY <2>1, <2>2, <2>4, <3>1, <3>2
  <2>7. QED
      BY <2>5, <2>6
<1>8. \A n \in 0..N : n \in G
  <2> HIDE DEF G
  <2> QED BY <1>1, <1>6, <1>7, InductionUpTo
<1>9. Good(N)
    BY <1>1, <1>8
<1>10. QED
    BY <1>2, <1>3, <1>9

=============================================================================
