--------------------------- MODULE HttpRequestProofs ---------------------------
(***************************************************************************)
(* Proofs about the parser, for every set of inputs and every way to cut   *)
(* them: its state is that of the whole input.                             *)
(*                                                                         *)
(* The ends of the lines are the newlines in order of rank; that they are  *)
(* in order and all there is a matter of counting, and nothing needs an    *)
(* induction over the text.                                                *)
(***************************************************************************)
EXTENDS HttpRequest, FiniteSetTheorems, SequenceTheorems, TLAPS

-----------------------------------------------------------------------------
(* Finite sets of numbers *)

\* The ranks of n numbers are 1 to n, in their order.
LEMMA RankIsBijection ==
  ASSUME NEW n \in Nat, NEW S, S \subseteq 1 .. n
  PROVE  /\ IsFiniteSet(S) /\ Cardinality(S) \in Nat
         /\ \A i \in S : Rank(S, i) \in 1 .. Cardinality(S)
         /\ \A i, j \in S : i < j => Rank(S, i) < Rank(S, j)
         /\ \A k \in 1 .. Cardinality(S) : \E i \in S : Rank(S, i) = k
<1> DEFINE N == Cardinality(S)
           Upto(i) == {j \in S : j <= i}
           r == [i \in S |-> Rank(S, i)]
<1>1. IsFiniteSet(S) /\ N \in Nat
  <2>1. IsFiniteSet(1 .. n) /\ S \in SUBSET (1 .. n)
    BY FS_Interval
  <2>2. IsFiniteSet(S)
    BY <2>1, FS_Subset
  <2> QED BY <2>2, FS_CardinalityType
<1>2. \A i \in S : IsFiniteSet(Upto(i)) /\ Cardinality(Upto(i)) \in Nat /\ Cardinality(Upto(i)) <= N
  BY <1>1, FS_Subset, FS_CardinalityType
<1>3. \A i \in S : Rank(S, i) \in 1 .. N
  <2> SUFFICES ASSUME NEW i \in S PROVE Cardinality(Upto(i)) \in 1 .. N
    BY DEF Rank
  <2>1. i \in Upto(i)
    BY SMT
  <2>2. Cardinality(Upto(i)) # 0
    BY <1>2, <2>1, FS_EmptySet
  <2> QED BY <1>1, <1>2, <2>2, SMT
<1>4. ASSUME NEW i \in S, NEW j \in S, i < j
      PROVE  Rank(S, i) < Rank(S, j)
  <2>1. Upto(i) \subseteq Upto(j) /\ j \in Upto(j) /\ j \notin Upto(i)
    <3>1. (\A k \in S : k <= i => k <= j) /\ j <= j /\ ~ (j <= i)
      BY <1>4, SMT
    <3> QED BY <3>1
  <2>2. Cardinality(Upto(i)) <= Cardinality(Upto(j)) /\ Cardinality(Upto(i)) # Cardinality(Upto(j))
    BY <1>2, <2>1, FS_Subset
  <2> QED BY <1>2, <2>2, SMT DEF Rank
<1>5. r \in Injection(S, 1 .. N)
  <2>1. r \in [S -> 1 .. N]
    BY <1>3
  <2>2. ASSUME NEW i \in S, NEW j \in S, r[i] = r[j] PROVE i = j
    <3>1. i \in Int /\ j \in Int /\ Rank(S, i) = Rank(S, j) /\ Rank(S, i) \in Int /\ Rank(S, j) \in Int
      BY <1>3, <2>2
    <3> QED BY <1>4, <3>1, SMT
  <2> QED BY <2>1, <2>2 DEF Injection, IsInjective
<1>6. r \in Surjection(S, 1 .. N)
  <2>1. IsFiniteSet(1 .. N) /\ Cardinality(1 .. N) = N
    BY <1>1, FS_Interval, SMT
  <2> QED BY <1>5, <2>1, FS_Injection
<1>7. \A k \in 1 .. N : \E i \in S : Rank(S, i) = k
  BY <1>6 DEF Surjection
<1> QED BY <1>1, <1>3, <1>4, <1>7

\* A set of numbers with an upper bound has a greatest one.
LEMMA MaxOfBounded ==
  ASSUME NEW n \in Nat, NEW S, S \subseteq 1 .. n, S # {}
  PROVE  Max(S) \in S /\ \A i \in S : Max(S) >= i
<1> DEFINE N == Cardinality(S)
<1>1. /\ IsFiniteSet(S) /\ N \in Nat
      /\ \A i \in S : Rank(S, i) \in 1 .. N
      /\ \A i, j \in S : i < j => Rank(S, i) < Rank(S, j)
      /\ \A k \in 1 .. N : \E i \in S : Rank(S, i) = k
  BY RankIsBijection
<1>2. PICK m \in S : Rank(S, m) = N
  <2>1. N # 0
    BY <1>1, FS_EmptySet
  <2>2. N \in 1 .. N
    BY <1>1, <2>1, SMT
  <2> QED BY <1>1, <2>2
<1>3. \A i \in S : m >= i
  <2> SUFFICES ASSUME NEW i \in S, m < i PROVE FALSE
    BY SMT
  <2>1. Rank(S, m) < Rank(S, i) /\ Rank(S, i) \in 1 .. N
    BY <1>1
  <2> QED BY <1>1, <1>2, <2>1, SMT
<1> QED BY <1>3 DEF Max

-----------------------------------------------------------------------------
(* Parts of sequences *)

\* A part of a sequence, element by element.
LEMMA PartOf ==
  ASSUME NEW s \in Seq(Tokens), NEW a \in Nat, a > 0, NEW b \in Nat, a - 1 <= b, b <= Len(s)
  PROVE  /\ SubSeq(s, a, b) \in Seq(Tokens) /\ Len(SubSeq(s, a, b)) = b - a + 1
         /\ DOMAIN SubSeq(s, a, b) = 1 .. b - a + 1
         /\ \A i \in 1 .. b - a + 1 : SubSeq(s, a, b)[i] = s[a + i - 1]
BY SMT

\* Sequences with the same elements are the same.
LEMMA SameElements ==
  ASSUME NEW s \in Seq(Tokens), NEW t \in Seq(Tokens), Len(s) = Len(t),
         \A i \in 1 .. Len(s) : s[i] = t[i]
  PROVE  s = t
BY SMT

\* What comes after p, element by element.
LEMMA RestOf ==
  ASSUME NEW s \in Seq(Tokens), NEW p \in 0 .. Len(s)
  PROVE  LET r == SubSeq(s, p + 1, Len(s))
         IN  /\ r \in Seq(Tokens) /\ Len(r) = Len(s) - p /\ DOMAIN r = 1 .. Len(s) - p
             /\ \A i \in 1 .. Len(s) - p : r[i] = s[p + i] /\ r[i] \in Tokens
BY SMT

\* A part of what comes after p.
LEMMA PartOfRest ==
  ASSUME NEW s \in Seq(Tokens), NEW p \in 0 .. Len(s), NEW a \in Nat, a > 0,
         NEW b \in Nat, a - 1 <= b, b <= Len(s) - p
  PROVE  SubSeq(SubSeq(s, p + 1, Len(s)), a, b) = SubSeq(s, p + a, p + b)
<1> DEFINE r == SubSeq(s, p + 1, Len(s))
           x == SubSeq(r, a, b)
           y == SubSeq(s, p + a, p + b)
<1>1. Len(s) \in Nat /\ p \in Nat /\ p <= Len(s)
  BY SMT
<1>2. r \in Seq(Tokens) /\ Len(r) = Len(s) - p /\ \A i \in 1 .. Len(s) - p : r[i] = s[p + i]
  BY RestOf
<1> HIDE DEF r
<1>3. x \in Seq(Tokens) /\ Len(x) = b - a + 1 /\ \A i \in 1 .. b - a + 1 : x[i] = r[a + i - 1]
  BY <1>1, <1>2, PartOf
<1>4. /\ y \in Seq(Tokens) /\ Len(y) = b - a + 1
      /\ \A i \in 1 .. b - a + 1 : y[i] = s[p + a + i - 1]
  BY <1>1, SMT
<1> HIDE DEF x, y
<1>5. \A i \in 1 .. b - a + 1 : x[i] = y[i]
  <2> SUFFICES ASSUME NEW i \in 1 .. b - a + 1 PROVE r[a + i - 1] = s[p + a + i - 1]
    BY <1>3, <1>4
  <2>1. a + i - 1 \in 1 .. Len(s) - p /\ p + (a + i - 1) = p + a + i - 1
    BY <1>1, SMT
  <2>2. r[a + i - 1] = s[p + (a + i - 1)]
    BY <1>2, <2>1
  <2> QED BY <2>1, <2>2
<1>6. x = y
  BY <1>3, <1>4, <1>5, SameElements
<1> QED BY <1>6 DEF x, y, r

\* A part of a sequence is the same part of a longer one.
LEMMA PartOfLonger ==
  ASSUME NEW s \in Seq(Tokens), NEW t \in Seq(Tokens), NEW a \in Nat, a > 0,
         NEW b \in Nat, a - 1 <= b, b <= Len(s)
  PROVE  SubSeq(s \o t, a, b) = SubSeq(s, a, b)
<1> DEFINE x == SubSeq(s \o t, a, b)
           y == SubSeq(s, a, b)
<1>1. /\ s \o t \in Seq(Tokens) /\ Len(s) \in Nat /\ b <= Len(s \o t)
      /\ \A i \in 1 .. Len(s) : (s \o t)[i] = s[i]
  BY SMT
<1>2. x \in Seq(Tokens) /\ Len(x) = b - a + 1 /\ \A i \in 1 .. b - a + 1 : x[i] = (s \o t)[a + i - 1]
  BY <1>1, PartOf
<1>3. y \in Seq(Tokens) /\ Len(y) = b - a + 1 /\ \A i \in 1 .. b - a + 1 : y[i] = s[a + i - 1]
  BY <1>1, PartOf
<1>4. \A i \in 1 .. b - a + 1 : a + i - 1 \in 1 .. Len(s)
  BY <1>1, SMT
<1> HIDE DEF x, y
<1>5. x = y
  BY <1>1, <1>2, <1>3, <1>4, SameElements
<1> QED BY <1>5 DEF x, y

-----------------------------------------------------------------------------
(* The ends of lines *)

\* They are the newlines, in order.
LEMMA EndsFacts ==
  ASSUME NEW s \in Seq(Tokens)
  PROVE  /\ Len(s) \in Nat /\ Len(Ends(s)) \in Nat /\ Len(Ends(s)) = Cardinality(Newlines(s))
         /\ \A k \in 1 .. Len(Ends(s)) : /\ Ends(s)[k] \in 1 .. Len(s) /\ s[Ends(s)[k]] = "nl"
                                         /\ Rank(Newlines(s), Ends(s)[k]) = k
         /\ \A j, k \in 1 .. Len(Ends(s)) : j < k => Ends(s)[j] < Ends(s)[k]
         /\ \A i \in 1 .. Len(s) : s[i] = "nl" => \E k \in 1 .. Len(Ends(s)) : Ends(s)[k] = i
<1> DEFINE N == Newlines(s)
<1>1. Len(s) \in Nat /\ N \subseteq 1 .. Len(s) /\ DOMAIN s = 1 .. Len(s)
  BY DEF Newlines
<1>2. /\ Cardinality(N) \in Nat
      /\ \A i \in N : Rank(N, i) \in 1 .. Cardinality(N)
      /\ \A i, j \in N : i < j => Rank(N, i) < Rank(N, j)
      /\ \A k \in 1 .. Cardinality(N) : \E i \in N : Rank(N, i) = k
  BY <1>1, RankIsBijection
<1> HIDE DEF N
<1>3. Ends(s) = [k \in 1 .. Cardinality(N) |-> CHOOSE i \in N : Rank(N, i) = k]
  BY DEF Ends, N
<1>4. \A k \in 1 .. Cardinality(N) : Ends(s)[k] \in N /\ Rank(N, Ends(s)[k]) = k
  BY <1>2, <1>3
<1>5. Len(Ends(s)) = Cardinality(N)
  <2>1. Ends(s) \in [1 .. Cardinality(N) -> N]
    BY <1>2, <1>3, <1>4
  <2>2. Ends(s) \in Seq(N)
    BY <1>2, <2>1, SMT
  <2> QED BY <1>2, <2>1, <2>2, SMT
<1>6. \A i, j \in N : i \in Int /\ (Rank(N, i) = Rank(N, j) => i = j)
  BY <1>1, <1>2, SMT
<1>7. \A j, k \in 1 .. Len(Ends(s)) : j < k => Ends(s)[j] < Ends(s)[k]
  <2> SUFFICES ASSUME NEW j \in 1 .. Len(Ends(s)), NEW k \in 1 .. Len(Ends(s)), j < k
               PROVE  Ends(s)[j] < Ends(s)[k]
    OBVIOUS
  <2> DEFINE a == Ends(s)[j]
             b == Ends(s)[k]
  <2>1. a \in N /\ b \in N /\ Rank(N, a) = j /\ Rank(N, b) = k
    BY <1>4, <1>5
  <2> HIDE DEF a, b
  <2>2. a \in Int /\ b \in Int /\ ~ (b < a) /\ a # b
    BY <1>2, <1>5, <1>6, <2>1, SMT
  <2>3. a < b
    BY <2>2, SMT
  <2> QED BY <2>3 DEF a, b
<1>8. \A i \in N : \E k \in 1 .. Len(Ends(s)) : Ends(s)[k] = i
  <2> SUFFICES ASSUME NEW i \in N PROVE \E k \in 1 .. Len(Ends(s)) : Ends(s)[k] = i
    OBVIOUS
  <2>1. Rank(N, i) \in 1 .. Cardinality(N)
    BY <1>2
  <2>2. Ends(s)[Rank(N, i)] = i
    BY <1>4, <1>6, <2>1
  <2> QED BY <1>5, <2>1, <2>2
<1>9. \A i : i \in N <=> i \in 1 .. Len(s) /\ s[i] = "nl"
  BY <1>1 DEF N, Newlines
<1> QED BY <1>1, <1>2, <1>4, <1>5, <1>7, <1>8, <1>9 DEF N

\* Lines begin and end in the text.
LEMMA EndsInText ==
  ASSUME NEW s \in Seq(Tokens)
  PROVE  /\ \A k \in 0 .. Len(Ends(s)) : EndOf(s, k) \in 0 .. Len(s)
         /\ \A k \in 1 .. Len(Ends(s)) : /\ EndOf(s, k - 1) < EndOf(s, k)
                                         /\ EndOf(s, k) \in 1 .. Len(s)
                                         /\ EndOf(s, k) = Ends(s)[k]
<1>1. \A k \in 1 .. Len(Ends(s)) : EndOf(s, k) = Ends(s)[k] /\ Ends(s)[k] \in 1 .. Len(s)
  BY EndsFacts, SMT DEF EndOf
<1>2. \A k \in 1 .. Len(Ends(s)) : EndOf(s, k - 1) < EndOf(s, k)
  BY <1>1, EndsFacts, SMT DEF EndOf
<1>3. EndOf(s, 0) = 0
  BY DEF EndOf
<1>4. \A k \in 0 .. Len(Ends(s)) : k = 0 \/ k \in 1 .. Len(Ends(s))
  BY EndsFacts, SMT
<1>5. Len(s) \in Nat
  BY EndsFacts
<1>6. \A k \in 0 .. Len(Ends(s)) : EndOf(s, k) \in 0 .. Len(s)
  BY <1>1, <1>3, <1>4, <1>5, SMT
<1> QED BY <1>1, <1>2, <1>6

\* More text at the end does not change the lines there are.
LEMMA EndsOfLonger ==
  ASSUME NEW s \in Seq(Tokens), NEW t \in Seq(Tokens)
  PROVE  /\ s \o t \in Seq(Tokens) /\ Len(Ends(s)) <= Len(Ends(s \o t))
         /\ \A k \in 1 .. Len(Ends(s)) : Ends(s \o t)[k] = Ends(s)[k]
<1> DEFINE u == s \o t
<1>1. /\ u \in Seq(Tokens) /\ Len(u) = Len(s) + Len(t) /\ Len(s) \in Nat /\ Len(t) \in Nat
      /\ \A i \in 1 .. Len(s) : u[i] = s[i]
  BY SMT
<1> HIDE DEF u
<1>2. Newlines(s) = Newlines(u) \cap 1 .. Len(s) /\ Newlines(u) \subseteq 1 .. Len(u)
  BY <1>1, SMT DEF Newlines
<1>3. Len(Ends(s)) <= Len(Ends(u))
  <2>1. IsFiniteSet(Newlines(u))
    BY <1>1, <1>2, RankIsBijection, SMT
  <2>2. Newlines(s) \in SUBSET Newlines(u)
    BY <1>2
  <2>3. Cardinality(Newlines(s)) <= Cardinality(Newlines(u))
    BY <2>1, <2>2, FS_Subset
  <2> QED BY <1>1, <2>3, EndsFacts
<1>4. ASSUME NEW k \in 1 .. Len(Ends(s)) PROVE Ends(u)[k] = Ends(s)[k]
  <2> DEFINE i == Ends(s)[k]
  <2>1. i \in 1 .. Len(s) /\ s[i] = "nl" /\ Rank(Newlines(s), i) = k
    BY EndsFacts
  <2> HIDE DEF i
  <2>2. i \in 1 .. Len(u) /\ u[i] = "nl"
    BY <1>1, <2>1, SMT
  <2>3. Rank(Newlines(u), i) = k
    <3>1. {j \in Newlines(u) : j <= i} = {j \in Newlines(s) : j <= i}
      BY <1>1, <1>2, <2>1, SMT
    <3> QED BY <2>1, <3>1 DEF Rank
  <2>4. PICK l \in 1 .. Len(Ends(u)) : Ends(u)[l] = i
    BY <1>1, <2>2, EndsFacts
  <2>5. l = k
    BY <1>1, <2>3, <2>4, EndsFacts
  <2> QED BY <2>4, <2>5 DEF i
<1> QED BY <1>1, <1>3, <1>4 DEF u

LEMMA LinesOfLonger ==
  ASSUME NEW s \in Seq(Tokens), NEW t \in Seq(Tokens)
  PROVE  /\ \A k \in 0 .. Len(Ends(s)) : EndOf(s \o t, k) = EndOf(s, k)
         /\ \A k \in 1 .. Len(Ends(s)) : /\ LineOf(s \o t, k) = LineOf(s, k)
                                         /\ GoodLine(s \o t, k) <=> GoodLine(s, k)
<1>1. Len(s) \in Nat /\ Len(Ends(s)) \in Nat
  BY EndsFacts
<1>2. \A k \in 0 .. Len(Ends(s)) : EndOf(s \o t, k) = EndOf(s, k)
  BY <1>1, EndsOfLonger, SMT DEF EndOf
<1>3. ASSUME NEW k \in 1 .. Len(Ends(s)) PROVE LineOf(s \o t, k) = LineOf(s, k)
  <2>1. k - 1 \in 0 .. Len(Ends(s)) /\ k \in 0 .. Len(Ends(s))
    BY <1>1, SMT
  <2> DEFINE a == EndOf(s, k - 1) + 1
             b == EndOf(s, k) - 1
  <2>2. a \in Nat /\ a > 0 /\ b \in Nat /\ a - 1 <= b /\ b <= Len(s)
    BY <1>1, <2>1, EndsInText, SMT
  <2> HIDE DEF a, b
  <2>3. SubSeq(s \o t, a, b) = SubSeq(s, a, b)
    BY <2>2, PartOfLonger
  <2> QED BY <1>2, <2>1, <2>3 DEF LineOf, a, b
<1>4. \A k \in 1 .. Len(Ends(s)) : GoodLine(s \o t, k) <=> GoodLine(s, k)
  BY <1>1, <1>3, SMT DEF GoodLine
<1> QED BY <1>2, <1>3, <1>4

\* The first newline after m lines is the end of line m + 1.
LEMMA NextEnd ==
  ASSUME NEW s \in Seq(Tokens), NEW m \in 0 .. Len(Ends(s)), NEW p, p = EndOf(s, m),
         NEW i \in 1 .. Len(s), s[i] = "nl", i > p
  PROVE  /\ m < Len(Ends(s))
         /\ Ends(s)[m + 1] <= i
<1> DEFINE L == Len(s)
           N == Len(Ends(s))
           E == Ends(s)
<1>1. L \in Nat /\ N \in Nat /\ m \in Nat /\ i \in Nat /\ m <= N
  BY EndsFacts, SMT
<1>2. PICK k \in 1 .. N : E[k] = i
  BY EndsFacts
<1>3. ASSUME k <= m PROVE FALSE
  <2>1. m \in 1 .. N /\ m # 0 /\ k \in Nat
    BY <1>1, <1>3, SMT
  <2>2. p = E[m] /\ E[m] \in 1 .. L
    BY <2>1, EndsFacts DEF EndOf
  <2>3. k < m => E[k] < E[m]
    BY <2>1, EndsFacts
  <2> HIDE DEF E, L, N
  <2> QED BY <1>1, <1>2, <1>3, <2>1, <2>2, <2>3, SMT
<1>4. m + 1 \in 1 .. N /\ m < N /\ (m + 1 < k \/ m + 1 = k)
  <2> HIDE DEF N
  <2> QED BY <1>1, <1>3, SMT
<1>5. E[m + 1] \in 1 .. L /\ (m + 1 < k => E[m + 1] < E[k])
  BY <1>4, EndsFacts
<1>6. E[m + 1] <= i
  <2> HIDE DEF E, L, N
  <2> QED BY <1>1, <1>2, <1>4, <1>5, SMT
<1> QED BY <1>4, <1>6

\* What find and substr see in the rest of the input after m lines.
LEMMA NextLine ==
  ASSUME fed \in Seq(Tokens), NEW m \in 0 .. Len(Ends(fed)),
         buffer = SubSeq(fed, EndOf(fed, m) + 1, Len(fed))
  PROVE  /\ buffer \in Seq(Tokens) /\ (HasLine <=> m < Len(Ends(fed)))
         /\ HasLine => /\ CurrentLine = LineOf(fed, m + 1) /\ CurrentLine \in Line
                       /\ AfterLine = SubSeq(fed, EndOf(fed, m + 1) + 1, Len(fed))
<1> DEFINE p == EndOf(fed, m)
           L == Len(fed)
           N == Len(Ends(fed))
           E == Ends(fed)
           e == E[m + 1] - p
<1>1. L \in Nat /\ N \in Nat /\ p \in Nat /\ p <= L /\ m \in Nat /\ m <= N
  BY EndsFacts, EndsInText, SMT
<1>2. /\ buffer \in Seq(Tokens) /\ Len(buffer) = L - p
      /\ DOMAIN buffer = 1 .. L - p
      /\ \A i \in 1 .. L - p : buffer[i] = fed[p + i] /\ buffer[i] \in Tokens
  <2>1. p \in 0 .. Len(fed)
    BY <1>1, SMT
  <2> QED BY <2>1, RestOf
<1> HIDE DEF p, L, N, E
<1>3. ASSUME NEW i \in DOMAIN buffer, buffer[i] = "nl"
      PROVE  m < N /\ E[m + 1] <= p + i
  <2>1. p + i \in 1 .. L /\ fed[p + i] = "nl" /\ p + i > p
    <3>1. p + i \in 1 .. L /\ p + i > p
      <4>1. i \in 1 .. L - p
        BY <1>2
      <4> HIDE DEF e
      <4> QED BY <1>1, <4>1, SMT
    <3> QED BY <1>2, <1>3, <3>1
  <2> QED BY <2>1, NextEnd DEF p, L, N, E
<1>4. ASSUME m < N
      PROVE  /\ e \in Nat /\ e > 0 /\ e <= L - p /\ e \in DOMAIN buffer /\ buffer[e] = "nl"
             /\ p + e = EndOf(fed, m + 1)
  <2>1. m + 1 \in 1 .. N /\ (m + 1) - 1 = m /\ m + 1 # 0
    BY <1>1, <1>4, SMT
  <2>2. E[m + 1] \in 1 .. L /\ fed[E[m + 1]] = "nl" /\ E[m + 1] > p /\ EndOf(fed, m + 1) = E[m + 1]
    BY <2>1, EndsFacts, EndsInText DEF N, E, L, p
  <2>3. e \in 1 .. L - p /\ p + e = E[m + 1]
    BY <1>1, <2>2, SMT
  <2>4. e \in Nat /\ e > 0 /\ e <= L - p
    BY <1>1, <2>3, SMT
  <2> HIDE DEF e
  <2> QED BY <1>2, <2>2, <2>3, <2>4
<1>5. HasLine <=> m < N
  BY <1>3, <1>4 DEF HasLine
<1>6. ASSUME m < N PROVE LineEnd = e
  <2> DEFINE D == {i \in DOMAIN buffer : buffer[i] = "nl"}
  <2>1. e \in D /\ E[m + 1] \in Int
    <3>1. e \in D
      BY <1>4, <1>6
    <3>2. m + 1 \in 1 .. N
      BY <1>1, <1>6, SMT
    <3>3. E[m + 1] \in Int
      BY <3>2, EndsFacts DEF N, E
    <3> QED BY <3>1, <3>3
  <2>2. ASSUME NEW i \in D PROVE i \in Int /\ e <= i
    <3>1. i \in Int /\ E[m + 1] <= p + i
      BY <1>2, <1>3
    <3> QED BY <1>1, <2>1, <3>1, SMT
  <2>3. e \in Int
    BY <2>1, <2>2
  <2> HIDE DEF D, e
  <2>4. \A x \in D : (\A i \in D : x <= i) => x = e
    <3> SUFFICES ASSUME NEW x \in D, \A i \in D : x <= i PROVE x = e
      OBVIOUS
    <3>1. x <= e /\ e <= x /\ x \in Int
      BY <2>1, <2>2
    <3> QED BY <2>3, <3>1, SMT
  <2>5. Min(D) = e
    BY <2>1, <2>2, <2>4 DEF Min
  <2> QED BY <2>5 DEF LineEnd, D
<1>7. ASSUME m < N
      PROVE  /\ CurrentLine = LineOf(fed, m + 1) /\ CurrentLine \in Line
             /\ AfterLine = SubSeq(fed, EndOf(fed, m + 1) + 1, L)
  <2>1. /\ e \in Nat /\ e > 0 /\ e <= L - p /\ LineEnd = e /\ p + e = EndOf(fed, m + 1)
        /\ \A i \in 1 .. e - 1 : i \in 1 .. L - p /\ buffer[i] # "nl"
    <3>1. /\ e \in Nat /\ e > 0 /\ e <= L - p /\ LineEnd = e /\ p + e = EndOf(fed, m + 1)
      BY <1>4, <1>6, <1>7
    <3>2. ASSUME NEW i \in 1 .. e - 1 PROVE i \in 1 .. L - p /\ buffer[i] # "nl"
      <4>1. i \in 1 .. L - p /\ p + i < p + e /\ m + 1 # 0
        BY <1>1, <3>1, SMT
      <4>2. E[m + 1] = p + e
        BY <3>1, <4>1 DEF EndOf, E
      <4>3. buffer[i] = "nl" => p + e <= p + i
        BY <1>2, <1>3, <4>1, <4>2
      <4>4. ~ (p + e <= p + i)
        <5> HIDE DEF e
        <5> QED BY <1>1, <3>1, <4>1, SMT
      <4> QED BY <4>1, <4>3, <4>4
    <3> QED BY <3>1, <3>2
  <2> HIDE DEF e
  <2>2. /\ p \in 0 .. L /\ e - 1 \in Nat /\ 1 - 1 <= e - 1 /\ e - 1 <= L - p
        /\ p + (e - 1) = (p + e) - 1 /\ e + 1 \in Nat /\ e + 1 > 0 /\ (e + 1) - 1 <= L - p
        /\ L - p \in Nat /\ p + (e + 1) = p + e + 1 /\ p + (L - p) = L /\ 1 > 0
        /\ (m + 1) - 1 = m /\ L - p <= L - p
    BY <1>1, <2>1, SMT
  <2>3. buffer = SubSeq(fed, p + 1, Len(fed))
    BY DEF p
  <2>4. CurrentLine = SubSeq(buffer, 1, e - 1)
    BY <2>1 DEF CurrentLine
  <2>5. CurrentLine = SubSeq(fed, p + 1, (p + e) - 1)
    BY <2>2, <2>3, <2>4, PartOfRest DEF L
  <2>6. AfterLine = SubSeq(buffer, e + 1, L - p)
    BY <1>2, <2>1 DEF AfterLine
  <2>7. AfterLine = SubSeq(fed, p + e + 1, L)
    <3>1. SubSeq(SubSeq(fed, p + 1, Len(fed)), e + 1, L - p) = SubSeq(fed, p + (e + 1), p + (L - p))
      BY <2>2, PartOfRest DEF L
    <3> QED BY <2>2, <2>3, <2>6, <3>1
  <2>8. CurrentLine \in Line
    <3>1. /\ CurrentLine \in Seq(Tokens) /\ Len(CurrentLine) = e - 1
          /\ \A i \in 1 .. e - 1 : CurrentLine[i] = buffer[i]
      <4>1. 1 \in Nat /\ e - 1 <= Len(buffer) /\ (e - 1) - 1 + 1 = e - 1
        BY <1>2, <2>2
      <4>2. \A i \in 1 .. e - 1 : 1 + i - 1 = i
        OBVIOUS
      <4>3. /\ SubSeq(buffer, 1, e - 1) \in Seq(Tokens)
            /\ Len(SubSeq(buffer, 1, e - 1)) = (e - 1) - 1 + 1
            /\ \A i \in 1 .. (e - 1) - 1 + 1 : SubSeq(buffer, 1, e - 1)[i] = buffer[1 + i - 1]
        BY <1>2, <2>2, <4>1, PartOf
      <4> QED BY <2>4, <4>1, <4>2, <4>3
    <3>2. \A i \in 1 .. e - 1 : CurrentLine[i] \in Tokens \ {"nl"}
      BY <1>2, <2>1, <3>1
    <3> QED BY <2>1, <3>1, <3>2, SMT DEF Line
  <2>9. CurrentLine = LineOf(fed, m + 1)
    <3> DEFINE a == EndOf(fed, (m + 1) - 1)
               b == EndOf(fed, m + 1)
    <3>1. a = p /\ b = p + e
      BY <2>1, <2>2 DEF p
    <3>2. LineOf(fed, m + 1) = SubSeq(fed, a + 1, b - 1)
      BY DEF LineOf
    <3> HIDE DEF a, b
    <3> QED BY <2>5, <3>1, <3>2
  <2> QED BY <2>1, <2>7, <2>8, <2>9
<1> QED BY <1>2, <1>5, <1>7 DEF N, L

\* A text with more text at the end, element by element.
LEMMA Longer ==
  ASSUME NEW s \in Seq(Tokens), NEW t \in Seq(Tokens)
  PROVE  /\ s \o t \in Seq(Tokens) /\ Len(s \o t) = Len(s) + Len(t)
         /\ Len(s) \in Nat /\ Len(t) \in Nat
         /\ \A i \in 1 .. Len(s) : (s \o t)[i] = s[i]
         /\ \A i \in Len(s) + 1 .. Len(s) + Len(t) : (s \o t)[i] = t[i - Len(s)]
BY SMT

\* A rest of a text, with more text at the end.
LEMMA RestOfLonger ==
  ASSUME NEW s \in Seq(Tokens), NEW t \in Seq(Tokens), NEW p \in 0 .. Len(s)
  PROVE  SubSeq(s, p + 1, Len(s)) \o t = SubSeq(s \o t, p + 1, Len(s \o t))
<1> DEFINE r == SubSeq(s, p + 1, Len(s))
           u == s \o t
           x == SubSeq(u, p + 1, Len(u))
<1>1. /\ r \in Seq(Tokens) /\ Len(r) = Len(s) - p
      /\ \A i \in 1 .. Len(s) - p : r[i] = s[p + i]
  BY RestOf
<1>2. /\ u \in Seq(Tokens) /\ Len(u) = Len(s) + Len(t) /\ Len(s) \in Nat /\ Len(t) \in Nat
      /\ \A i \in 1 .. Len(s) : u[i] = s[i]
      /\ \A i \in Len(s) + 1 .. Len(s) + Len(t) : u[i] = t[i - Len(s)]
  BY Longer
<1> HIDE DEF r, u
<1>3. p \in Nat /\ p <= Len(s) /\ p \in 0 .. Len(u)
  BY <1>2, SMT
<1>4. /\ x \in Seq(Tokens) /\ Len(x) = Len(u) - p
      /\ \A i \in 1 .. Len(u) - p : x[i] = u[p + i]
  BY <1>2, <1>3, RestOf
<1>5. /\ r \o t \in Seq(Tokens) /\ Len(r \o t) = Len(r) + Len(t)
      /\ \A i \in 1 .. Len(r) : (r \o t)[i] = r[i]
      /\ \A i \in Len(r) + 1 .. Len(r) + Len(t) : (r \o t)[i] = t[i - Len(r)]
  BY <1>1, Longer
<1> HIDE DEF x
<1>6. ASSUME NEW i \in 1 .. Len(u) - p PROVE (r \o t)[i] = x[i]
  <2>1. CASE i <= Len(s) - p
    <3>1. i \in 1 .. Len(s) - p /\ p + i \in 1 .. Len(s)
      BY <1>2, <1>3, <2>1, SMT
    <3> QED BY <1>1, <1>2, <1>4, <1>5, <3>1
  <2>2. CASE ~ (i <= Len(s) - p)
    <3>1. /\ i \in Len(r) + 1 .. Len(r) + Len(t) /\ p + i \in Len(s) + 1 .. Len(s) + Len(t)
          /\ (p + i) - Len(s) = i - Len(r)
      BY <1>1, <1>2, <1>3, <2>2, SMT
    <3> QED BY <1>2, <1>4, <1>5, <3>1
  <2> QED BY <2>1, <2>2
<1>7. Len(r \o t) = Len(x) /\ Len(r \o t) = Len(u) - p
  BY <1>1, <1>2, <1>3, <1>4, <1>5, SMT
<1>8. r \o t = x
  BY <1>4, <1>5, <1>6, <1>7, SameElements
<1> QED BY <1>8 DEF r, x, u

\* A Content-Length is a number.
LEMMA ContentLengthIsNat ==
  ASSUME NEW ls \in Seq(Line)
  PROVE  ContentLength(ls) \in Nat
<1> DEFINE D == {i \in 2 .. Len(ls) : DeclaresLength(ls[i])}
<1>1. Len(ls) \in Nat /\ D \subseteq 1 .. Len(ls)
  BY SMT
<1>2. ASSUME D # {} PROVE Lengths[ls[Max(D)][1]] \in Nat
  <2>1. Max(D) \in D
    BY <1>1, <1>2, MaxOfBounded
  <2> HIDE DEF D
  <2>2. ls[Max(D)][1] \in DOMAIN Lengths
    BY <2>1 DEF DeclaresLength, D
  <2> QED BY <2>2 DEF Lengths
<1> QED BY <1>2 DEF ContentLength

-----------------------------------------------------------------------------
(* The inductive invariant *)

\* A parser that was given nothing.
Fresh == /\ rest \in Seq(Tokens) /\ fed = <<>> /\ inCall = FALSE /\ buffer = <<>>
         /\ state = "requestLine" /\ lines = <<>> /\ body = <<>>

LEMMA FreshInv == Fresh => IInv
<1> SUFFICES ASSUME Fresh PROVE IInv
  OBVIOUS
<1> USE DEF Fresh
<1>1. <<>> \in Seq(Tokens) /\ Len(<<>>) = 0 /\ <<>> \in Seq(Line)
  OBVIOUS
<1>2. Len(Ends(fed)) = 0
  <2>1. Len(Ends(fed)) \in Nat /\ \A k \in 1 .. Len(Ends(fed)) : Ends(fed)[k] \in 1 .. 0
    BY <1>1, EndsFacts
  <2>2. 1 \notin 1 .. Len(Ends(fed))
    BY <2>1, SMT
  <2> QED BY <2>1, <2>2, SMT
<1>3. Taken = 0
  BY <1>1, SMT DEF Taken
<1>4. TypeOK
  BY <1>1 DEF TypeOK
<1>5. BufferIsRest
  <2>1. SubSeq(fed, 0 + 1, Len(fed)) = <<>>
    BY <1>1, SMT
  <2> QED BY <1>2, <1>3, <2>1, SMT DEF BufferIsRest, EndOf
<1>6. LinesAreInput /\ StateFollowsLines /\ AllLinesTaken /\ DoneHasBody
  BY <1>1, <1>2, <1>3, SMT DEF LinesAreInput, StateFollowsLines, AllLinesTaken, DoneHasBody
<1> QED BY <1>4, <1>5, <1>6 DEF IInv

\* What the invariant says of lengths.
LEMMA InvLengths ==
  ASSUME IInv
  PROVE  /\ fed \in Seq(Tokens) /\ Len(fed) \in Nat
         /\ Len(lines) \in Nat /\ Len(Ends(fed)) \in Nat
         /\ Taken \in 0 .. Len(Ends(fed)) /\ Taken \in {Len(lines), Len(lines) + 1}
         /\ Len(lines) <= Len(Ends(fed))
         /\ EndOf(fed, Taken) \in 0 .. Len(fed)
         /\ (lines = <<>> <=> Len(lines) = 0)
<1>1. /\ fed \in Seq(Tokens) /\ Len(lines) \in Nat /\ Taken <= Len(Ends(fed))
      /\ (lines = <<>> <=> Len(lines) = 0)
  BY SMT DEF IInv, TypeOK, BufferIsRest
<1>2. Taken \in {Len(lines), Len(lines) + 1}
  BY <1>1, SMT DEF Taken
<1>3. Len(fed) \in Nat /\ Len(Ends(fed)) \in Nat
  BY <1>1, EndsFacts
<1>4. Taken \in 0 .. Len(Ends(fed)) /\ Len(lines) <= Len(Ends(fed))
  BY <1>1, <1>2, <1>3, SMT
<1> QED BY <1>1, <1>2, <1>3, <1>4, EndsInText

\* parse() is given more: the lines there were stay what they were.
LEMMA CallStep ==
  ASSUME IInv, NEW n \in 0 .. Len(rest), Call(n)
  PROVE  IInv'
<1> DEFINE t == SubSeq(rest, 1, n)
           L == Len(lines)
           N == Len(Ends(fed))
<1>1. /\ t \in Seq(Tokens) /\ rest' \in Seq(Tokens)
  BY SMT DEF IInv, TypeOK, Call
<1>2. /\ fed' = fed \o t /\ buffer' = buffer \o t /\ inCall' = TRUE
      /\ UNCHANGED <<state, lines, body>> /\ Taken' = Taken
  BY DEF Call, Taken
<1> HIDE DEF t
<1>3. /\ fed \in Seq(Tokens) /\ L \in Nat /\ N \in Nat /\ Taken \in 0 .. N /\ L <= N
      /\ Taken \in {L, L + 1} /\ EndOf(fed, Taken) \in 0 .. Len(fed)
  BY InvLengths
<1>4. /\ fed' \in Seq(Tokens) /\ N <= Len(Ends(fed'))
      /\ \A k \in 0 .. N : EndOf(fed', k) = EndOf(fed, k)
      /\ \A k \in 1 .. N : /\ LineOf(fed', k) = LineOf(fed, k)
                           /\ GoodLine(fed', k) <=> GoodLine(fed, k)
  BY <1>1, <1>2, <1>3, EndsOfLonger, LinesOfLonger
<1>5. Len(Ends(fed')) \in Nat
  BY <1>4, EndsFacts
<1>6. TypeOK'
  <2>1. buffer' \in Seq(Tokens)
    BY <1>1, <1>2 DEF IInv, TypeOK
  <2> QED BY <1>1, <1>2, <1>4, <2>1 DEF IInv, TypeOK
<1>7. BufferIsRest'
  <2>1. Taken' <= Len(Ends(fed'))
    BY <1>2, <1>3, <1>4, <1>5, SMT
  <2>2. buffer = SubSeq(fed, EndOf(fed, Taken) + 1, Len(fed))
    BY DEF IInv, BufferIsRest
  <2>3. buffer \o t = SubSeq(fed \o t, EndOf(fed, Taken) + 1, Len(fed \o t))
    BY <1>1, <1>3, <2>2, RestOfLonger
  <2> QED BY <1>2, <1>3, <1>4, <2>1, <2>3 DEF BufferIsRest
<1>8. LinesAreInput'
  <2>1. \A k \in 1 .. L : k \in 1 .. N
    BY <1>3, SMT
  <2> QED BY <1>2, <1>4, <2>1 DEF IInv, LinesAreInput
<1>9. StateFollowsLines'
  <2>1. state \in {"body", "done"} => L + 1 \in 1 .. N
    BY <1>3, SMT DEF Taken
  <2>2. state = "error" => L + 1 \in 1 .. N /\ L < Len(Ends(fed'))
    BY <1>3, <1>4, <1>5, SMT DEF IInv, StateFollowsLines
  <2> QED BY <1>2, <1>4, <2>1, <2>2 DEF IInv, StateFollowsLines
<1>10. AllLinesTaken'
  BY <1>2 DEF AllLinesTaken
<1>11. DoneHasBody'
  <2> SUFFICES ASSUME state = "done" PROVE DoneHasBody'
    BY <1>2 DEF DoneHasBody
  <2> DEFINE from == EndOf(fed, L + 1)
             c == ContentLength(lines)
  <2>1. from + c <= Len(fed) /\ body = SubSeq(fed, from + 1, from + c) /\ c \in Nat
    BY ContentLengthIsNat DEF IInv, TypeOK, DoneHasBody
  <2>2. L + 1 \in 0 .. N /\ from \in Nat /\ Len(fed) \in Nat
    BY <1>3, EndsInText, SMT DEF Taken
  <2>3. EndOf(fed', L + 1) = from
    BY <1>4, <2>2
  <2> HIDE DEF from, c
  <2>4. SubSeq(fed \o t, from + 1, from + c) = SubSeq(fed, from + 1, from + c)
    <3>1. /\ from + 1 \in Nat /\ from + 1 > 0 /\ from + c \in Nat /\ (from + 1) - 1 <= from + c
      BY <2>1, <2>2, SMT
    <3> QED BY <1>1, <1>3, <2>1, <3>1, PartOfLonger
  <2>5. from + c <= Len(fed')
    <3>1. Len(fed \o t) = Len(fed) + Len(t) /\ Len(t) \in Nat
      BY <1>1, <1>3, SMT
    <3> QED BY <1>2, <2>1, <2>2, <3>1, SMT
  <2> QED BY <1>2, <2>1, <2>3, <2>4, <2>5 DEF DoneHasBody, from, c
<1> QED BY <1>6, <1>7, <1>8, <1>9, <1>10, <1>11 DEF IInv

\* The next line, for a parser that reads the request line or a header.
LEMMA LineNow ==
  ASSUME IInv, state \in {"requestLine", "header"}
  PROVE  /\ Taken = Len(lines) /\ (HasLine <=> Len(lines) < Len(Ends(fed)))
         /\ HasLine => /\ CurrentLine = LineOf(fed, Len(lines) + 1) /\ CurrentLine \in Line
                       /\ AfterLine = SubSeq(fed, EndOf(fed, Len(lines) + 1) + 1, Len(fed))
                       /\ AfterLine \in Seq(Tokens) /\ Len(lines) + 1 \in 1 .. Len(Ends(fed))
         /\ GoodLine(fed, Len(lines) + 1) <=>
              IF state = "requestLine" THEN GoodRequestLine(LineOf(fed, Len(lines) + 1))
                                       ELSE GoodHeaderLine(LineOf(fed, Len(lines) + 1))
<1> DEFINE m == Len(lines)
           N == Len(Ends(fed))
<1>1. /\ Taken = m /\ m \in 0 .. N /\ m \in Nat /\ N \in Nat /\ fed \in Seq(Tokens)
      /\ state = "requestLine" => m = 0
      /\ state = "header" => m # 0
  <2>1. Taken = m + 0
    BY DEF Taken
  <2>2. (lines = <<>> <=> m = 0) /\ m \in Nat /\ Taken \in 0 .. N /\ N \in Nat /\ fed \in Seq(Tokens)
    BY InvLengths
  <2>3. Taken = m
    BY <2>1, <2>2, SMT
  <2> QED BY <2>2, <2>3 DEF IInv, StateFollowsLines
<1>2. buffer = SubSeq(fed, EndOf(fed, m) + 1, Len(fed))
  BY <1>1 DEF IInv, BufferIsRest
<1>3. /\ HasLine <=> m < N
      /\ HasLine => /\ CurrentLine = LineOf(fed, m + 1) /\ CurrentLine \in Line
                    /\ AfterLine = SubSeq(fed, EndOf(fed, m + 1) + 1, Len(fed))
  BY <1>1, <1>2, NextLine
<1>4. HasLine => m + 1 \in 1 .. N /\ m + 1 \in 0 .. N
  BY <1>1, <1>3, SMT
<1>5. HasLine => AfterLine \in Seq(Tokens)
  BY <1>1, <1>3, <1>4, EndsInText, RestOf
<1>6. (m = 0 => m + 1 = 1 /\ LineOf(fed, m + 1) = LineOf(fed, 1)) /\ (m # 0 => m + 1 # 1)
  BY <1>1, SMT
<1> QED BY <1>1, <1>3, <1>4, <1>5, <1>6 DEF GoodLine

\* A line is taken: it was good, and is the next of the input.
LEMMA AcceptStep ==
  ASSUME IInv, inCall, state \in {"requestLine", "header"}, HasLine,
         GoodLine(fed, Len(lines) + 1), AcceptLine("header")
  PROVE  IInv'
<1> DEFINE m == Len(lines)
           N == Len(Ends(fed))
<1>1. /\ m \in Nat /\ N \in Nat /\ m + 1 \in 1 .. N /\ CurrentLine = LineOf(fed, m + 1)
      /\ CurrentLine \in Line /\ AfterLine \in Seq(Tokens)
      /\ AfterLine = SubSeq(fed, EndOf(fed, m + 1) + 1, Len(fed))
  BY InvLengths, LineNow
<1>2. /\ lines' = Append(lines, CurrentLine) /\ buffer' = AfterLine /\ state' = "header"
      /\ UNCHANGED <<rest, fed, inCall, body>>
  BY DEF AcceptLine
<1>3. /\ lines \in Seq(Line) /\ lines' \in Seq(Line) /\ Len(lines') = m + 1
      /\ \A k \in 1 .. m : lines'[k] = lines[k]
      /\ lines'[m + 1] = CurrentLine /\ lines' # <<>>
  <2>1. lines \in Seq(Line)
    BY DEF IInv, TypeOK
  <2> QED BY <1>1, <1>2, <2>1, SMT
<1>4. Taken' = m + 1
  <2>1. Taken' = Len(lines') + 0
    BY <1>2 DEF Taken
  <2> QED BY <1>1, <1>3, <2>1, SMT
<1>5. TypeOK'
  BY <1>1, <1>2, <1>3 DEF IInv, TypeOK
<1>6. BufferIsRest'
  <2>1. m + 1 <= N
    BY <1>1, SMT
  <2> QED BY <1>1, <1>2, <1>4, <2>1 DEF BufferIsRest
<1>7. LinesAreInput'
  <2>1. ASSUME NEW k \in 1 .. m + 1 PROVE k \in 1 .. m \/ k = m + 1
    BY <1>1, SMT
  <2> QED BY <1>1, <1>2, <1>3, <2>1 DEF IInv, LinesAreInput
<1>8. StateFollowsLines' /\ AllLinesTaken' /\ DoneHasBody'
  BY <1>2, <1>3 DEF StateFollowsLines, AllLinesTaken, DoneHasBody
<1> QED BY <1>5, <1>6, <1>7, <1>8 DEF IInv

\* The next line is not good, nor the empty line after the headers.
LEMMA FailStep ==
  ASSUME IInv, state \in {"requestLine", "header"}, HasLine,
         ~ GoodLine(fed, Len(lines) + 1), state = "header" => CurrentLine # <<>>, Fail
  PROVE  IInv'
<1>1. /\ Len(lines) < Len(Ends(fed)) /\ CurrentLine = LineOf(fed, Len(lines) + 1)
      /\ Taken = Len(lines)
  BY LineNow
<1>2. state' = "error" /\ inCall' = FALSE /\ UNCHANGED <<rest, fed, buffer, lines, body>>
  BY DEF Fail
<1>3. Taken' = Taken
  <2>1. Taken = Len(lines) + 0 /\ Taken' = Len(lines) + 0
    BY <1>2 DEF Taken
  <2> QED BY <2>1
<1>4. TypeOK' /\ BufferIsRest' /\ LinesAreInput'
  BY <1>2, <1>3 DEF IInv, TypeOK, BufferIsRest, LinesAreInput
<1>5. lines # <<>> => LineOf(fed, Len(lines) + 1) # <<>>
  BY <1>1 DEF IInv, StateFollowsLines
<1>6. StateFollowsLines' /\ AllLinesTaken' /\ DoneHasBody'
  BY <1>1, <1>2, <1>5 DEF StateFollowsLines, AllLinesTaken, DoneHasBody
<1> QED BY <1>4, <1>6 DEF IInv

\* The empty line after the headers.
LEMMA BlankStep == ASSUME IInv, ParseBlankLine PROVE IInv'
<1> DEFINE m == Len(lines)
<1>1. /\ m \in Nat /\ m + 1 \in 1 .. Len(Ends(fed)) /\ Len(Ends(fed)) \in Nat
      /\ LineOf(fed, m + 1) = <<>> /\ AfterLine \in Seq(Tokens) /\ lines # <<>>
      /\ AfterLine = SubSeq(fed, EndOf(fed, m + 1) + 1, Len(fed))
  BY InvLengths, LineNow DEF ParseBlankLine, Parsing, IInv, StateFollowsLines
<1>2. /\ state' = "body" /\ buffer' = AfterLine /\ inCall' = FALSE
      /\ UNCHANGED <<rest, fed, lines, body>>
  BY DEF ParseBlankLine
<1>3. Taken' = m + 1 /\ m + 1 <= Len(Ends(fed))
  BY <1>1, <1>2, SMT DEF Taken
<1>4. TypeOK' /\ BufferIsRest' /\ LinesAreInput'
  BY <1>1, <1>2, <1>3 DEF IInv, TypeOK, BufferIsRest, LinesAreInput
<1>5. StateFollowsLines' /\ AllLinesTaken' /\ DoneHasBody'
  BY <1>1, <1>2 DEF StateFollowsLines, AllLinesTaken, DoneHasBody
<1> QED BY <1>4, <1>5 DEF IInv

\* parse() returns and leaves everything as it is.
LEMMA ReturnStep == ASSUME IInv, AwaitLine \/ AwaitBody \/ Ignore PROVE IInv'
<1>1. /\ inCall' = FALSE /\ UNCHANGED <<rest, fed, buffer, state, lines, body>>
      /\ state \in {"requestLine", "header"} => ~ HasLine
  BY DEF AwaitLine, AwaitBody, Ignore, Return, Parsing
<1>2. Taken' = Taken
  BY <1>1 DEF Taken
<1>3. ASSUME state \in {"requestLine", "header"} PROVE Taken = Len(Ends(fed))
  <2>1. /\ Taken = Len(lines) /\ ~ (Len(lines) < Len(Ends(fed))) /\ Len(lines) \in Nat
        /\ Len(lines) <= Len(Ends(fed)) /\ Len(Ends(fed)) \in Nat
    BY <1>1, <1>3, LineNow, InvLengths
  <2> QED BY <2>1, SMT
<1>4. TypeOK' /\ BufferIsRest' /\ LinesAreInput' /\ StateFollowsLines' /\ DoneHasBody'
  BY <1>1, <1>2 DEF IInv, TypeOK, BufferIsRest, LinesAreInput, StateFollowsLines, DoneHasBody
<1>5. AllLinesTaken'
  BY <1>1, <1>2, <1>3 DEF AllLinesTaken
<1> QED BY <1>4, <1>5 DEF IInv

\* The body is what follows the empty line, as long as it was announced.
LEMMA BodyStep == ASSUME IInv, ParseBody PROVE IInv'
<1> DEFINE m == Len(lines)
           from == EndOf(fed, m + 1)
           c == ContentLength(lines)
<1>1. /\ state = "body" /\ Len(buffer) >= c /\ body' = SubSeq(buffer, 1, c)
      /\ state' = "done" /\ inCall' = FALSE /\ UNCHANGED <<rest, fed, buffer, lines>>
  BY DEF ParseBody, Parsing, BodyArrived
<1>2. Taken = m + 1 /\ Taken' = m + 1
  BY <1>1 DEF Taken
<1>3. /\ fed \in Seq(Tokens) /\ from \in 0 .. Len(fed) /\ Len(fed) \in Nat /\ c \in Nat
      /\ buffer = SubSeq(fed, from + 1, Len(fed))
  BY <1>2, InvLengths, ContentLengthIsNat DEF IInv, TypeOK, BufferIsRest
<1>4. Len(buffer) = Len(fed) - from /\ buffer \in Seq(Tokens)
  BY <1>3, RestOf
<1> HIDE DEF from, c
<1>5. c <= Len(fed) - from /\ from + c <= Len(fed) /\ 1 - 1 <= c /\ c <= Len(buffer)
  BY <1>1, <1>3, <1>4, SMT
<1>6. body' = SubSeq(fed, from + 1, from + c) /\ body' \in Seq(Tokens)
  <2>1. 1 \in Nat /\ 1 > 0
    OBVIOUS
  <2>2. SubSeq(SubSeq(fed, from + 1, Len(fed)), 1, c) = SubSeq(fed, from + 1, from + c)
    BY <1>3, <1>5, <2>1, PartOfRest
  <2>3. SubSeq(buffer, 1, c) \in Seq(Tokens)
    BY <1>3, <1>4, <1>5, <2>1, PartOf
  <2> QED BY <1>1, <1>3, <2>2, <2>3
<1>7. TypeOK' /\ BufferIsRest' /\ LinesAreInput' /\ StateFollowsLines' /\ AllLinesTaken'
  BY <1>1, <1>2, <1>6 DEF IInv, TypeOK, BufferIsRest, LinesAreInput, StateFollowsLines,
     AllLinesTaken
<1>8. DoneHasBody'
  BY <1>1, <1>5, <1>6 DEF DoneHasBody, from, c
<1> QED BY <1>7, <1>8 DEF IInv

\* A turn of the loop of parse().
LEMMA TurnStep == ASSUME IInv, Turn PROVE IInv'
<1>1. CASE ParseRequestLine
  <2>1. inCall /\ state = "requestLine" /\ HasLine
    BY <1>1 DEF ParseRequestLine, Parsing
  <2>2. GoodRequestLine(CurrentLine) <=> GoodLine(fed, Len(lines) + 1)
    BY <2>1, LineNow
  <2> QED BY <1>1, <2>1, <2>2, AcceptStep, FailStep DEF ParseRequestLine
<1>2. CASE ParseHeaderLine
  <2>1. inCall /\ state = "header" /\ HasLine /\ CurrentLine # <<>>
    BY <1>2 DEF ParseHeaderLine, Parsing
  <2>2. GoodHeaderLine(CurrentLine) <=> GoodLine(fed, Len(lines) + 1)
    BY <2>1, LineNow
  <2> QED BY <1>2, <2>1, <2>2, AcceptStep, FailStep DEF ParseHeaderLine
<1> QED BY <1>1, <1>2, BlankStep, ReturnStep, BodyStep DEF Turn

\* Nothing that the parser owns has changed.
LEMMA InvUnchanged == ASSUME IInv, UNCHANGED vars PROVE IInv'
BY DEF IInv, vars, TypeOK, BufferIsRest, LinesAreInput, StateFollowsLines, AllLinesTaken,
   DoneHasBody, Taken

\* The invariant holds in every state of the parser.
THEOREM ParserInvariant == Spec => []IInv
<1>1. Init => IInv
  <2> SUFFICES ASSUME Init PROVE IInv
    OBVIOUS
  <2>1. rest \in Seq(Tokens)
    BY HttpRequestAssumption DEF Init, HttpRequestAssumption
  <2> QED BY <2>1, FreshInv DEF Init, Fresh
<1>2. ASSUME IInv, [Next]_vars PROVE IInv'
  <2>1. CASE Turn
    BY <1>2, <2>1, TurnStep
  <2>2. CASE Reset
    <3>1. Fresh'
      BY <1>2, <2>2 DEF Reset, IInv, TypeOK, Fresh
    <3> QED BY <3>1, FreshInv, PTL
  <2>3. ASSUME NEW n \in 1 .. Len(rest), Call(n) PROVE IInv'
    <3>1. n \in 0 .. Len(rest)
      BY <2>3, SMT
    <3> QED BY <1>2, <2>3, <3>1, CallStep
  <2>4. CASE UNCHANGED vars
    BY <1>2, <2>4, InvUnchanged
  <2> QED BY <1>2, <2>1, <2>2, <2>3, <2>4 DEF Next
<1> QED BY <1>1, <1>2, PTL DEF Spec

\* Every variable of the parser keeps its type.
THEOREM ParserTypeCorrect == Spec => []TypeOK
<1>1. IInv => TypeOK
  BY DEF IInv
<1> QED BY <1>1, ParserInvariant, PTL

-----------------------------------------------------------------------------
(* The whole input *)

\* Between two calls the lines accepted are all of the input, or are followed by one
\* that is not good.
LEMMA LinesAreGoodLines ==
  ASSUME IInv, ~ inCall
  PROVE  /\ Len(lines) = GoodLines(fed)
         /\ \/ /\ state \in {"requestLine", "header"} /\ Len(lines) = Len(Ends(fed))
            \/ /\ state \in {"body", "done", "error"} /\ Len(lines) # Len(Ends(fed))
               /\ ~ GoodLine(fed, Len(lines) + 1)
<1> DEFINE m == Len(lines)
           N == Len(Ends(fed))
           G == {n \in 0 .. N : \A k \in 1 .. n : GoodLine(fed, k)}
<1>1. /\ m \in Nat /\ N \in Nat /\ m <= N /\ Taken \in 0 .. N
      /\ (lines = <<>> <=> m = 0)
      /\ state \in {"requestLine", "header"} => Taken = N
      /\ state \in {"requestLine", "header", "body", "done", "error"}
  BY InvLengths DEF IInv, TypeOK, AllLinesTaken
<1>2. /\ state \in {"requestLine", "header"} => Taken = m
      /\ state \in {"body", "done"} => Taken = m + 1
  BY <1>1, SMT DEF Taken
<1>3. state \in {"requestLine", "header"} => m = N
  BY <1>1, <1>2
<1>4. ASSUME state \in {"body", "done", "error"}
      PROVE  m # N /\ ~ GoodLine(fed, m + 1)
  <2>1. CASE state = "error"
    <3>1. m < N /\ ~ GoodLine(fed, m + 1)
      BY <2>1 DEF IInv, StateFollowsLines
    <3> HIDE DEF m, N
    <3> QED BY <1>1, <3>1, SMT
  <2>2. CASE state \in {"body", "done"}
    <3>1. m # 0 /\ LineOf(fed, m + 1) = <<>>
      BY <1>1, <2>2 DEF IInv, StateFollowsLines
    <3>2. m + 1 # 1 /\ m # N
      BY <1>1, <1>2, <2>2, <3>1, SMT
    <3>3. ~ GoodHeaderLine(<<>>)
      BY DEF GoodHeaderLine
    <3> QED BY <3>1, <3>2, <3>3 DEF GoodLine
  <2> QED BY <1>4, <2>1, <2>2
<1>5. m \in G
  <2>1. m \in 0 .. N
    BY <1>1, SMT
  <2> QED BY <2>1 DEF IInv, LinesAreInput
<1>6. \A n \in G : m >= n
  <2> SUFFICES ASSUME NEW n \in 0 .. N, \A k \in 1 .. n : GoodLine(fed, k), ~ (m >= n)
               PROVE  FALSE
    OBVIOUS
  <2>1. m + 1 \in 1 .. n /\ m # N
    BY <1>1, SMT
  <2> QED BY <1>1, <1>3, <1>4, <2>1
<1>7. Max(G) = m
  <2> HIDE DEF G, m
  <2>1. \A x \in G : x \in Int
    BY DEF G
  <2>2. \A x \in G : (\A y \in G : x >= y) => x = m
    BY <1>5, <1>6, <2>1, SMT
  <2> QED BY <1>5, <1>6, <2>2 DEF Max
<1> QED BY <1>1, <1>3, <1>4, <1>7 DEF GoodLines

\* What the parser says between two calls is what the input as a whole says, however it
\* was cut: parse() may be called with any pieces of it.
THEOREM CutsDoNotMatter == Spec => []ParsedAsWhole
<1>1. ASSUME IInv PROVE ParsedAsWhole
  <2> SUFFICES ASSUME ~ inCall
               PROVE  /\ lines = [k \in 1 .. GoodLines(fed) |-> LineOf(fed, k)]
                      /\ StateOf(fed) = IF state = "done" THEN "body" ELSE state
                      /\ DoneHasBody
    BY DEF ParsedAsWhole
  <2> DEFINE m == Len(lines)
             N == Len(Ends(fed))
  <2>1. m = GoodLines(fed) /\ m \in Nat /\ (lines = <<>> <=> m = 0)
    BY <1>1, LinesAreGoodLines, InvLengths
  <2>2. lines = [k \in 1 .. m |-> LineOf(fed, k)]
    <3>1. lines = [k \in 1 .. m |-> lines[k]]
      BY <1>1, SMT DEF IInv, TypeOK
    <3>2. \A k \in 1 .. m : lines[k] = LineOf(fed, k)
      BY <1>1 DEF IInv, LinesAreInput
    <3> HIDE DEF m
    <3> QED BY <3>1, <3>2
  <2> HIDE DEF m, N
  <2>3. m > 0 <=> m # 0
    BY <2>1, SMT
  <2>4. CASE state \in {"requestLine", "header"} /\ m = N
    <3>1. state = "requestLine" <=> m = 0
      BY <1>1, <2>1, <2>4 DEF IInv, StateFollowsLines
    <3> QED BY <1>1, <2>1, <2>2, <2>4, <3>1 DEF StateOf, IInv, m, N
  <2>5. CASE state \in {"body", "done", "error"} /\ m # N /\ ~ GoodLine(fed, m + 1)
    <3>1. state = "error" <=> ~ (m > 0 /\ LineOf(fed, m + 1) = <<>>)
      BY <1>1, <2>1, <2>3, <2>5 DEF IInv, StateFollowsLines, m
    <3> QED BY <1>1, <2>1, <2>2, <2>5, <3>1 DEF StateOf, IInv, m, N
  <2> QED BY <1>1, <2>4, <2>5, LinesAreGoodLines DEF m, N
<1> QED BY <1>1, ParserInvariant, PTL

\* A turn of the loop that is not the last one has taken a line off the buffer.
LEMMA TurnTakesLine ==
  ASSUME IInv, Turn
  PROVE  /\ inCall /\ Len(buffer) \in Nat
         /\ inCall' => Len(buffer') \in Nat /\ Len(buffer') < Len(buffer)
<1> DEFINE m == Len(lines)
<1>1. inCall /\ buffer \in Seq(Tokens) /\ Len(buffer) \in Nat
  <2>1. buffer \in Seq(Tokens)
    BY DEF IInv, TypeOK
  <2>2. inCall
    BY DEF Turn, ParseRequestLine, ParseHeaderLine, ParseBlankLine, AwaitLine, ParseBody,
       AwaitBody, Ignore, Parsing
  <2> QED BY <2>1, <2>2, SMT
<1>2. inCall' => /\ state \in {"requestLine", "header"} /\ HasLine /\ buffer' = AfterLine
  BY DEF Turn, ParseRequestLine, ParseHeaderLine, ParseBlankLine, AwaitLine, ParseBody,
     AwaitBody, Ignore, Parsing, AcceptLine, Fail, Return
<1>3. ASSUME state \in {"requestLine", "header"}, HasLine
      PROVE  Len(AfterLine) \in Nat /\ Len(AfterLine) < Len(buffer)
  <2> DEFINE p == EndOf(fed, m)
             q == EndOf(fed, m + 1)
  <2>1. /\ m \in Nat /\ m + 1 \in 1 .. Len(Ends(fed)) /\ (m + 1) - 1 = m /\ Taken = m
        /\ AfterLine = SubSeq(fed, q + 1, Len(fed)) /\ fed \in Seq(Tokens) /\ Len(fed) \in Nat
    BY <1>3, LineNow, InvLengths
  <2>2. p \in 0 .. Len(fed) /\ q \in 1 .. Len(fed) /\ p < q
    BY <2>1, EndsInText, InvLengths
  <2>3. buffer = SubSeq(fed, p + 1, Len(fed))
    BY <2>1 DEF IInv, BufferIsRest
  <2> HIDE DEF p, q
  <2>4. q \in 0 .. Len(fed)
    BY <2>1, <2>2, SMT
  <2>5. Len(buffer) = Len(fed) - p /\ Len(AfterLine) = Len(fed) - q
    BY <2>1, <2>2, <2>3, <2>4, RestOf
  <2> QED BY <2>1, <2>2, <2>5, SMT
<1> QED BY <1>1, <1>2, <1>3

\* The loop of parse() ends on every input: each turn shortens the buffer or returns.
THEOREM LoopEnds == Spec => EachTurnCounts
<1>1. IInv /\ [Next]_vars => [Turn => ~ inCall' \/ Len(buffer') < Len(buffer)]_vars
  BY TurnTakesLine
<1> QED BY <1>1, ParserInvariant, PTL DEF Spec, EachTurnCounts
=============================================================================
