---------------------------- MODULE KioDb_proofs ----------------------------
(***************************************************************************)
(* The .kiodb file for every set of batches and every number of calls.     *)
(*                                                                         *)
(* FileInv is kept: by the reader, which changes its own variables only;   *)
(* by the writer before SeekHeader, while the file only grows; and by the  *)
(* writer after it, while the footer follows the payloads.  The rest       *)
(* follows from it: what the metadata promise, when a file is complete,    *)
(* that it stays so, and the refinement of the archive.                    *)
(***************************************************************************)
EXTENDS KioDb, SequenceTheorems, WellFoundedInduction, TLAPS

-----------------------------------------------------------------------------
(* The sums and concatenations of the format: where the chunks of a batch    *)
(* lie in its payload.  The inductions are over sets of numbers, with UpTo:  *)
(* the least number missing from such a set has a predecessor in it.         *)

\* Induction up to n, for a set of numbers.
LEMMA UpTo ==
    ASSUME NEW n \in Nat, NEW T, 0 \in T,
           \A k \in 0 .. n - 1 : k \in T => k + 1 \in T
    PROVE  0 .. n \subseteq T
<1> DEFINE Missing == (0 .. n) \ T
<1>1. SUFFICES ASSUME Missing # {} PROVE FALSE
  OBVIOUS
<1>2. PICK k \in Missing : \A j \in Missing : ~(j < k)
  <2>1. Missing \subseteq Nat
    OBVIOUS
  <2> HIDE DEF Missing
  <2>2. \E k \in Missing : \A j \in Missing : ~(<<j, k>> \in OpToRel(<, Nat))
    BY <1>1, <2>1, NatLessThanWellFounded, WFMin
  <2> QED
    BY <2>1, <2>2 DEF OpToRel
<1>3. k \in 1 .. n /\ k - 1 \in 0 .. n - 1
  OBVIOUS
<1>4. k - 1 \in T
  BY <1>2, <1>3
<1> QED
  BY <1>3, <1>4

\* f holds the sums of the first 0 to k elements of s.
AreSums(s, f, k) ==
    /\ f \in [0 .. k -> Nat]
    /\ f[0] = 0
    /\ \A n \in 1 .. k : f[n] = f[n - 1] + s[n]

\* PrefixSums(s) is what its recursion says: the induction the recursive
\* function needs.
LEMMA Sums ==
    ASSUME NEW s \in Seq(Nat)
    PROVE  AreSums(s, PrefixSums(s), Len(s))
<1> DEFINE T == {k \in 0 .. Len(s) : \E f : AreSums(s, f, k)}
<1>0. Len(s) \in Nat /\ \A n \in 1 .. Len(s) : s[n] \in Nat
  OBVIOUS
<1>1. 0 \in T
  <2>1. AreSums(s, [n \in 0 .. 0 |-> 0], 0)
    BY DEF AreSums
  <2> QED
    BY <1>0, <2>1
<1>2. ASSUME NEW k \in 0 .. Len(s) - 1, k \in T PROVE k + 1 \in T
  <2>1. PICK f : AreSums(s, f, k)
    BY <1>2
  <2> DEFINE g == [n \in 0 .. k + 1 |-> IF n = k + 1 THEN f[k] + s[k + 1] ELSE f[n]]
  <2>2. AreSums(s, g, k + 1)
    <3>1. k \in Nat /\ k + 1 \in 1 .. Len(s) /\ f[k] + s[k + 1] \in Nat
      BY <1>0, <2>1 DEF AreSums
    <3>2. g \in [0 .. k + 1 -> Nat] /\ g[0] = 0
      BY <2>1, <3>1 DEF AreSums
    <3>3. \A n \in 1 .. k + 1 : g[n] = g[n - 1] + s[n]
      <4>1. g[k + 1] = g[k] + s[k + 1]
        BY <3>1
      <4>2. \A n \in 1 .. k : g[n] = g[n - 1] + s[n]
        BY <2>1, <3>1 DEF AreSums
      <4> HIDE DEF g
      <4> QED
        BY <3>1, <4>1, <4>2
    <3> HIDE DEF g
    <3> QED
      BY <3>2, <3>3 DEF AreSums
  <2>3. k + 1 \in 0 .. Len(s)
    BY <1>0
  <2> HIDE DEF g
  <2> QED
    BY <2>2, <2>3
<1>3. PICK f : AreSums(s, f, Len(s))
  <2> HIDE DEF T
  <2>1. \A k \in 0 .. Len(s) - 1 : k \in T => k + 1 \in T
    BY <1>2
  <2>2. 0 .. Len(s) \subseteq T
    BY <1>0, <1>1, <2>1, UpTo
  <2>3. Len(s) \in T
    BY <1>0, <2>2
  <2> QED
    BY <2>3 DEF T
<1> DEFINE Def(h) == h = [n \in 0 .. Len(s) |-> IF n = 0 THEN 0 ELSE h[n - 1] + s[n]]
           sum == CHOOSE h : Def(h)
<1>4. Def(f)
  BY <1>3 DEF AreSums
<1>5. Def(sum)
  BY <1>4
<1>6. PrefixSums(s) = sum
  BY DEF PrefixSums
<1> HIDE DEF sum
<1> DEFINE U == {k \in 0 .. Len(s) : sum[k] \in Nat}
<1>7. 0 \in U /\ \A k \in 0 .. Len(s) - 1 : k \in U => k + 1 \in U
  BY <1>0, <1>5
<1>8. \A k \in 0 .. Len(s) : sum[k] \in Nat
  BY <1>0, <1>7, UpTo
<1>9. ASSUME NEW n \in 1 .. Len(s) PROVE sum[n] = sum[n - 1] + s[n]
  <2>1. n \in 0 .. Len(s) /\ n # 0
    BY <1>0
  <2> QED
    BY <1>5, <2>1
<1>10. sum \in [0 .. Len(s) -> Nat] /\ sum[0] = 0
  BY <1>0, <1>5, <1>8
<1> QED
  BY <1>6, <1>9, <1>10 DEF AreSums

\* Sums are those of the elements, however they are written down.
LEMMA SumsAgree ==
    ASSUME NEW s, NEW t, NEW f, NEW g, NEW n \in Nat,
           AreSums(s, f, n), AreSums(t, g, n),
           \A k \in 1 .. n : s[k] = t[k]
    PROVE  \A k \in 0 .. n : f[k] = g[k]
<1> DEFINE T == {k \in 0 .. n : f[k] = g[k]}
<1>1. 0 \in T
  BY DEF AreSums
<1>2. \A k \in 0 .. n - 1 : k \in T => k + 1 \in T
  BY DEF AreSums
<1> HIDE DEF T
<1>3. 0 .. n \subseteq T
  BY <1>1, <1>2, UpTo
<1> QED
  BY <1>3 DEF T

\* metadata_.row_count += row_num: the total grows by what is appended.
LEMMA TotalOfAppend ==
    ASSUME NEW s \in Seq(Nat), NEW x \in Nat
    PROVE  TotalOf(Append(s, x)) = TotalOf(s) + x
<1> DEFINE n == Len(s)
           t == Append(s, x)
<1>1. /\ n \in Nat /\ t \in Seq(Nat) /\ Len(t) = n + 1 /\ t[n + 1] = x
      /\ \A k \in 1 .. n : s[k] = t[k]
  OBVIOUS
<1> HIDE DEF n, t
<1>2. AreSums(s, PrefixSums(s), n) /\ AreSums(t, PrefixSums(t), n + 1)
  BY <1>1, Sums DEF n
<1>3. AreSums(t, [k \in 0 .. n |-> PrefixSums(t)[k]], n)
  BY <1>1, <1>2 DEF AreSums
<1>4. PrefixSums(t)[n] = PrefixSums(s)[n]
  BY <1>1, <1>2, <1>3, SumsAgree
<1>5. PrefixSums(t)[n + 1] = PrefixSums(t)[n] + x
  BY <1>1, <1>2 DEF AreSums
<1> QED
  BY <1>1, <1>4, <1>5 DEF TotalOf, n, t

-----------------------------------------------------------------------------
(* Payloads.                                                                 *)

\* F concatenates the first 1 to k elements of seqs.
Concatenates(seqs, F, k) ==
    \A i \in 1 .. k : F[i] = IF i = 1 THEN seqs[i] ELSE F[i - 1] \o seqs[i]

\* FlattenSeq is the fold its definition says.
LEMMA Concatenation ==
    ASSUME NEW S, NEW seqs \in Seq(Seq(S)), Len(seqs) > 0
    PROVE  \E F : /\ Concatenates(seqs, F, Len(seqs))
                  /\ \A i \in 1 .. Len(seqs) : F[i] \in Seq(S)
                  /\ FlattenSeq(seqs) = F[Len(seqs)]
<1> DEFINE n == Len(seqs)
           T == {k \in 0 .. n : \E F : Concatenates(seqs, F, k)}
<1>0. n \in Nat /\ n > 0 /\ \A i \in 1 .. n : seqs[i] \in Seq(S)
  OBVIOUS
<1>1. 0 \in T
  BY <1>0 DEF Concatenates
<1>2. ASSUME NEW k \in 0 .. n - 1, k \in T PROVE k + 1 \in T
  <2>1. PICK F : Concatenates(seqs, F, k)
    BY <1>2
  <2> DEFINE next == IF k = 0 THEN seqs[k + 1] ELSE F[k] \o seqs[k + 1]
             G == [i \in 1 .. k + 1 |-> IF i = k + 1 THEN next ELSE F[i]]
  <2> HIDE DEF n
  <2>2. k \in Nat
    BY <1>0
  <2>3. G[k + 1] = next
    BY <2>2
  <2>4. \A i \in 1 .. k : G[i] = F[i] /\ (i > 1 => G[i - 1] = F[i - 1])
    BY <2>2
  <2> HIDE DEF G
  <2>5. Concatenates(seqs, G, k + 1)
    <3> SUFFICES ASSUME NEW i \in 1 .. k + 1
                 PROVE  G[i] = IF i = 1 THEN seqs[i] ELSE G[i - 1] \o seqs[i]
      BY DEF Concatenates
    <3>1. CASE i = k + 1
      <4>1. k # 0 => G[k] = F[k]
        BY <2>2, <2>4
      <4> QED
        BY <2>2, <2>3, <3>1, <4>1
    <3>2. CASE i # k + 1
      <4>1. i \in 1 .. k /\ (i = 1 \/ i > 1)
        BY <2>2, <3>2
      <4>2. F[i] = IF i = 1 THEN seqs[i] ELSE F[i - 1] \o seqs[i]
        BY <2>1, <4>1 DEF Concatenates
      <4>3. G[i] = F[i] /\ (i > 1 => G[i - 1] = F[i - 1])
        BY <2>4, <4>1
      <4>4. CASE i = 1
        BY <4>2, <4>3, <4>4
      <4>5. CASE i > 1
        BY <4>1, <4>2, <4>3, <4>5
      <4> QED
        BY <4>1, <4>4, <4>5
    <3> QED
      BY <3>1, <3>2
  <2>6. k + 1 \in 0 .. n
    BY <1>0
  <2> QED
    BY <2>5, <2>6
<1> HIDE DEF n
<1>3. PICK F : Concatenates(seqs, F, n)
  <2>1. \A k \in 0 .. n - 1 : k \in T => k + 1 \in T
    BY <1>2
  <2> HIDE DEF T
  <2>2. 0 .. n \subseteq T
    BY <1>0, <1>1, <2>1, UpTo
  <2>3. n \in T
    BY <1>0, <2>2
  <2> QED
    BY <2>3 DEF T
<1> DEFINE Def(h) == h = [i \in 1 .. n |-> IF i = 1 THEN seqs[i] ELSE h[i - 1] \o seqs[i]]
           flatten == CHOOSE h : Def(h)
<1>4. Def([i \in 1 .. n |-> F[i]])
  <2> SUFFICES ASSUME NEW i \in 1 .. n
               PROVE  F[i] = IF i = 1 THEN seqs[i]
                             ELSE [j \in 1 .. n |-> F[j]][i - 1] \o seqs[i]
    OBVIOUS
  <2>1. i # 1 => [j \in 1 .. n |-> F[j]][i - 1] = F[i - 1]
    BY <1>0
  <2> QED
    BY <1>3, <2>1 DEF Concatenates
<1>5. Def(flatten)
  BY <1>4
<1>6. FlattenSeq(seqs) = flatten[n]
  BY <1>0 DEF FlattenSeq, n
<1> HIDE DEF flatten
<1>7. Concatenates(seqs, flatten, n)
  BY <1>5 DEF Concatenates
<1> DEFINE U == {k \in 0 .. n : k # 0 => flatten[k] \in Seq(S)}
<1>8. \A k \in 0 .. n - 1 : k \in U => k + 1 \in U
  <2> SUFFICES ASSUME NEW k \in 0 .. n - 1, k \in U PROVE k + 1 \in U
    OBVIOUS
  <2>1. k + 1 \in 1 .. n /\ k \in Nat
    BY <1>0
  <2>2. flatten[k + 1] = IF k + 1 = 1 THEN seqs[k + 1]
                         ELSE flatten[(k + 1) - 1] \o seqs[k + 1]
    BY <1>7, <2>1 DEF Concatenates
  <2>3. (k + 1) - 1 = k /\ seqs[k + 1] \in Seq(S) /\ (k # 0 => flatten[k] \in Seq(S))
    BY <1>0, <2>1
  <2> HIDE DEF Def
  <2>4. flatten[k + 1] \in Seq(S)
    BY <2>1, <2>2, <2>3
  <2> QED
    BY <2>1, <2>4
<1>9. \A k \in 0 .. n : k \in U
  <2>1. 0 \in U
    BY <1>0
  <2> HIDE DEF U
  <2> QED
    BY <1>0, <1>8, <2>1, UpTo
<1>10. \A i \in 1 .. n : flatten[i] \in Seq(S)
  BY <1>0, <1>9
<1> QED
  BY <1>6, <1>7, <1>10 DEF n

\* One sequence more, at the end of those before it.
LEMMA Appended ==
    ASSUME NEW S, NEW a \in Seq(S), NEW b \in Seq(S)
    PROVE  /\ Len(a \o b) = Len(a) + Len(b)
           /\ \A i \in 1 .. Len(a) : (a \o b)[i] = a[i]
           /\ \A i \in 1 .. Len(b) : (a \o b)[Len(a) + i] = b[i]
OBVIOUS

\* The concatenation of the first k elements of seqs, whose lengths sum up to
\* f, holds each of them at the sum of the lengths before it.
Placed(seqs, s, F, f, k) ==
    /\ Len(F[k]) = f[k]
    /\ \A j \in 1 .. k :
           /\ f[j - 1] + s[j] <= f[k]
           /\ \A u \in 1 .. s[j] : F[k][f[j - 1] + u] = seqs[j][u]

\* Where the sequences lie in their concatenation: behind the sums of the
\* lengths before.
LEMMA Flattened ==
    ASSUME NEW S, NEW seqs \in Seq(Seq(S)), Len(seqs) > 0,
           NEW s \in Seq(Nat), Len(s) = Len(seqs),
           \A i \in 1 .. Len(s) : s[i] = Len(seqs[i])
    PROVE  /\ FlattenSeq(seqs) \in Seq(S)
           /\ Len(FlattenSeq(seqs)) = TotalOf(s)
           /\ \A j \in 1 .. Len(s) :
                  /\ PrefixSums(s)[j - 1] \in Nat
                  /\ PrefixSums(s)[j - 1] + s[j] <= TotalOf(s)
                  /\ \A u \in 1 .. s[j] :
                         FlattenSeq(seqs)[PrefixSums(s)[j - 1] + u] = seqs[j][u]
<1> DEFINE n == Len(seqs)
           f == PrefixSums(s)
<1>1. PICK F : /\ Concatenates(seqs, F, n)
               /\ \A i \in 1 .. n : F[i] \in Seq(S)
               /\ FlattenSeq(seqs) = F[n]
  BY Concatenation
<1>2. /\ n \in Nat /\ n > 0
      /\ \A i \in 1 .. n : seqs[i] \in Seq(S) /\ s[i] \in Nat /\ s[i] = Len(seqs[i])
  OBVIOUS
<1>3. AreSums(s, f, n)
  BY Sums
<1>4. TotalOf(s) = f[n]
  BY DEF TotalOf
<1> HIDE DEF n, f
<1>5. /\ \A k \in 0 .. n : f[k] \in Nat
      /\ f[0] = 0
      /\ \A k \in 1 .. n : f[k] = f[k - 1] + s[k]
  BY <1>2, <1>3 DEF AreSums
<1> DEFINE T == {k \in 0 .. n : k # 0 => Placed(seqs, s, F, f, k)}
<1>6. ASSUME NEW k \in 0 .. n - 1, k # 0 => Placed(seqs, s, F, f, k)
      PROVE  Placed(seqs, s, F, f, k + 1)
  <2>1. k \in Nat /\ k + 1 \in 1 .. n /\ (k + 1) - 1 = k /\ k \in 0 .. n
    BY <1>2
  <2>2. f[k] \in Nat /\ s[k + 1] \in Nat /\ f[k + 1] = f[k] + s[k + 1]
    BY <1>2, <1>5, <2>1
  <2>3. F[k + 1] = IF k = 0 THEN seqs[k + 1] ELSE F[k] \o seqs[k + 1]
    <3>1. F[k + 1] = IF k + 1 = 1 THEN seqs[k + 1] ELSE F[(k + 1) - 1] \o seqs[k + 1]
      BY <1>1, <2>1 DEF Concatenates
    <3> QED
      BY <2>1, <3>1
  <2>4. seqs[k + 1] \in Seq(S) /\ Len(seqs[k + 1]) = s[k + 1]
    BY <1>2, <2>1
  <2>5. CASE k = 0
    <3>1. F[1] = seqs[1] /\ f[1] = s[1] /\ f[0] = 0
      BY <1>5, <2>2, <2>3, <2>5
    <3> QED
      BY <2>2, <2>4, <2>5, <3>1 DEF Placed
  <2>6. CASE k # 0
    <3>0. k \in 1 .. n
      BY <2>1, <2>6
    <3>1. F[k] \in Seq(S) /\ F[k + 1] = F[k] \o seqs[k + 1]
      BY <1>1, <2>3, <2>6, <3>0
    <3>2. Placed(seqs, s, F, f, k)
      BY <1>6, <2>6
    <3>3. Len(F[k]) = f[k]
      BY <3>2 DEF Placed
    <3> DEFINE whole == F[k + 1]
    <3>4. /\ Len(whole) = f[k] + s[k + 1]
          /\ \A i \in 1 .. f[k] : whole[i] = F[k][i]
          /\ \A i \in 1 .. s[k + 1] : whole[f[k] + i] = seqs[k + 1][i]
      <4> DEFINE a == F[k]
                 b == seqs[k + 1]
      <4>1. a \in Seq(S) /\ b \in Seq(S) /\ whole = a \o b
        BY <2>4, <3>1
      <4>2. Len(a) = f[k] /\ Len(b) = s[k + 1]
        BY <2>4, <3>3
      <4> HIDE DEF a, b, whole
      <4>3. /\ Len(whole) = f[k] + s[k + 1]
            /\ \A i \in 1 .. f[k] : whole[i] = a[i]
            /\ \A i \in 1 .. s[k + 1] : whole[f[k] + i] = b[i]
        <5>1. /\ Len(a \o b) = Len(a) + Len(b)
              /\ \A i \in 1 .. Len(a) : (a \o b)[i] = a[i]
              /\ \A i \in 1 .. Len(b) : (a \o b)[Len(a) + i] = b[i]
          BY <4>1, Appended
        <5> QED
          BY <4>1, <4>2, <5>1
      <4> QED
        BY <4>3 DEF a, b
    <3> HIDE DEF whole
    <3>5. ASSUME NEW j \in 1 .. k + 1
          PROVE  /\ f[j - 1] + s[j] <= f[k + 1]
                 /\ \A u \in 1 .. s[j] : whole[f[j - 1] + u] = seqs[j][u]
      <4>1. CASE j = k + 1
        <5>1. j - 1 = k
          BY <2>1, <4>1
        <5>2. f[j - 1] + s[j] <= f[k + 1]
          BY <2>2, <4>1, <5>1
        <5>3. \A u \in 1 .. s[j] : whole[f[j - 1] + u] = seqs[j][u]
          BY <3>4, <4>1, <5>1
        <5> QED
          BY <5>2, <5>3
      <4>2. CASE j # k + 1
        <5>1. j \in 1 .. k /\ j - 1 \in 0 .. n /\ j \in 1 .. n
          BY <1>2, <2>1, <4>2
        <5>2. /\ f[j - 1] + s[j] <= f[k]
              /\ \A u \in 1 .. s[j] : F[k][f[j - 1] + u] = seqs[j][u]
          BY <3>2, <5>1 DEF Placed
        <5>3. f[j - 1] \in Nat /\ s[j] \in Nat
          BY <1>2, <1>5, <5>1
        <5>4. \A u \in 1 .. s[j] : f[j - 1] + u \in 1 .. f[k]
          <6> DEFINE x == f[j - 1]
                     y == s[j]
                     z == f[k]
          <6>1. x \in Nat /\ y \in Nat /\ z \in Nat /\ x + y <= z
            BY <2>2, <5>2, <5>3
          <6> HIDE DEF x, y, z
          <6>2. \A u \in 1 .. y : x + u \in 1 .. z
            BY <6>1
          <6> QED
            BY <6>2 DEF x, y, z
        <5>5. \A u \in 1 .. s[j] : whole[f[j - 1] + u] = seqs[j][u]
          BY <3>4, <5>2, <5>4
        <5>6. f[j - 1] + s[j] <= f[k + 1]
          <6> DEFINE x == f[j - 1]
                     y == s[j]
                     z == f[k]
                     w == s[k + 1]
          <6>1. x \in Nat /\ y \in Nat /\ z \in Nat /\ w \in Nat /\ x + y <= z
            BY <2>2, <5>2, <5>3
          <6> HIDE DEF x, y, z, w
          <6>2. x + y <= z + w
            BY <6>1
          <6> QED
            BY <2>2, <6>2 DEF x, y, z, w
        <5> QED
          BY <5>5, <5>6
      <4> QED
        BY <4>1, <4>2
    <3>6. Len(whole) = f[k + 1]
      BY <2>2, <3>4
    <3> QED
      BY <3>5, <3>6 DEF Placed, whole
  <2> QED
    BY <2>5, <2>6
<1>7. Placed(seqs, s, F, f, n)
  <2>1. 0 \in T
    BY <1>2
  <2>2. \A k \in 0 .. n - 1 : k \in T => k + 1 \in T
    <3> SUFFICES ASSUME NEW k \in 0 .. n - 1, k \in T PROVE k + 1 \in T
      OBVIOUS
    <3>1. k + 1 \in 0 .. n
      BY <1>2
    <3> QED
      BY <1>6, <3>1
  <2> HIDE DEF T
  <2>3. 0 .. n \subseteq T
    BY <1>2, <2>1, <2>2, UpTo
  <2>4. n \in T
    BY <1>2, <2>3
  <2> QED
    BY <1>2, <2>4 DEF T
<1>8. F[n] \in Seq(S)
  BY <1>1, <1>2
<1>9. ASSUME NEW j \in 1 .. n PROVE f[j - 1] \in Nat
  BY <1>2, <1>5
<1> QED
  BY <1>1, <1>4, <1>7, <1>8, <1>9 DEF Placed, n, f

\* The payload of one column has the size of its chunk.
LEMMA ContentIs ==
    ASSUME NEW b \in Batch, NEW c \in 1 .. Width(b)
    PROVE  /\ Size[b] \in Seq(Nat) /\ Width(b) \in Nat
           /\ Content(b, c) \in Seq(Cell)
           /\ Len(Content(b, c)) = Size[b][c]
<1>1. Size[b] \in Seq(Nat) /\ Width(b) \in Nat
  BY BatchAssumption DEF Width
<1>2. Size[b][c] \in Nat
  BY <1>1 DEF Width
<1>3. \A u \in 1 .. Size[b][c] :
          [kind |-> "data", batch |-> b, col |-> c, unit |-> u] \in Cell
  BY <1>1, <1>2 DEF Cell
<1>4. Content(b, c) \in [1 .. Size[b][c] -> Cell]
  BY <1>3 DEF Content
<1> QED
  BY <1>1, <1>2, <1>4

\* The payload of a batch holds each column where the sizes of the columns
\* before it say.
LEMMA PayloadIs ==
    ASSUME NEW b \in Batch, Width(b) > 0
    PROVE  /\ Payload(b) \in Seq(Cell)
           /\ Len(Payload(b)) = TotalOf(Size[b])
           /\ \A c \in 1 .. Width(b) :
                  /\ PrefixSums(Size[b])[c - 1] \in Nat
                  /\ PrefixSums(Size[b])[c - 1] + Size[b][c] <= Len(Payload(b))
                  /\ \A u \in 1 .. Size[b][c] :
                         Payload(b)[PrefixSums(Size[b])[c - 1] + u]
                             = Content(b, c)[u]
<1> DEFINE n == Width(b)
           seqs == [c \in 1 .. n |-> Content(b, c)]
           s == Size[b]
<1>1. s \in Seq(Nat) /\ n \in Nat /\ n = Len(s)
  BY BatchAssumption DEF Width
<1>2. \A c \in 1 .. n : seqs[c] = Content(b, c)
  OBVIOUS
<1>3. seqs \in Seq(Seq(Cell)) /\ Len(seqs) = n
  <2>1. \A c \in 1 .. n : Content(b, c) \in Seq(Cell)
    BY ContentIs
  <2>2. seqs \in [1 .. n -> Seq(Cell)]
    BY <2>1
  <2> HIDE DEF seqs, n
  <2> QED
    BY <1>1, <2>2
<1>4. \A c \in 1 .. Len(s) : s[c] = Len(seqs[c])
  BY <1>1, <1>2, ContentIs
<1>5. Payload(b) = FlattenSeq(seqs)
  BY DEF Payload
<1>6. Len(seqs) > 0 /\ Len(s) = Len(seqs) /\ s \in Seq(Nat)
  BY <1>1, <1>3
<1> HIDE DEF n, seqs, s
<1>7. /\ FlattenSeq(seqs) \in Seq(Cell)
      /\ Len(FlattenSeq(seqs)) = TotalOf(s)
      /\ \A j \in 1 .. Len(s) :
             /\ PrefixSums(s)[j - 1] \in Nat
             /\ PrefixSums(s)[j - 1] + s[j] <= TotalOf(s)
             /\ \A u \in 1 .. s[j] :
                    FlattenSeq(seqs)[PrefixSums(s)[j - 1] + u] = seqs[j][u]
  BY <1>3, <1>4, <1>6, Flattened
<1> QED
  BY <1>1, <1>2, <1>5, <1>7 DEF n, s

-----------------------------------------------------------------------------
(* Sequences, types and the footer.                                          *)

\* A sequence has a length, and an element of its set at each place.
LEMMA SeqIs ==
    ASSUME NEW S, NEW q \in Seq(S)
    PROVE  /\ Len(q) \in Nat /\ DOMAIN q = 1 .. Len(q)
           /\ \A i \in 1 .. Len(q) : q[i] \in S
OBVIOUS

\* A sequence with one element replaced.
LEMMA SeqExceptIs ==
    ASSUME NEW S, NEW q \in Seq(S), NEW k \in Int, NEW x \in S
    PROVE  /\ [q EXCEPT ![k] = x] \in Seq(S)
           /\ Len([q EXCEPT ![k] = x]) = Len(q)
           /\ \A i \in 1 .. Len(q) : [q EXCEPT ![k] = x][i] = IF i = k THEN x ELSE q[i]
<1> DEFINE n == Len(q)
           r == [q EXCEPT ![k] = x]
<1>1. q \in [1 .. n -> S] /\ n \in Nat
  OBVIOUS
<1>2. r \in [1 .. n -> S] /\ \A i \in 1 .. n : r[i] = IF i = k THEN x ELSE q[i]
  BY <1>1
<1> HIDE DEF n, r
<1>3. r \in Seq(S) /\ Len(r) = n
  BY <1>1, <1>2
<1> QED
  BY <1>2, <1>3 DEF n, r

\* The empty sequence is one over any set.
LEMMA EmptyIsSeq ==
    ASSUME NEW S PROVE <<>> \in Seq(S)
OBVIOUS

\* The parts of TypeOK the provers need one by one.
LEMMA Types ==
    ASSUME TypeOK
    PROVE  /\ Len(disk) \in Nat /\ pos \in Nat /\ group.start \in Nat
           /\ Len(pending) \in Nat /\ DOMAIN pending = 1 .. Len(pending)
           /\ \A i \in 1 .. Len(pending) : pending[i].at \in Nat /\ pending[i].cell \in Cell
           /\ Len(row_groups) \in Nat /\ DOMAIN row_groups = 1 .. Len(row_groups)
           /\ Len(stored) = Len(row_groups) /\ DOMAIN stored = 1 .. Len(row_groups)
           /\ \A i \in 1 .. Len(row_groups) :
                  /\ row_groups[i] \in RowGroupMeta /\ row_groups[i].start \in Nat
                  /\ stored[i] \in Batch
<1>1. Len(disk) \in Nat /\ pos \in Nat /\ group.start \in Nat
  BY DEF TypeOK, FileTypes, RowGroupMeta
<1>2. /\ pending \in Seq([at : Nat, cell : Cell]) /\ row_groups \in Seq(RowGroupMeta)
      /\ stored \in Seq(Batch) /\ Len(stored) = Len(row_groups)
  BY DEF TypeOK, FileTypes
<1>3. /\ Len(pending) \in Nat /\ DOMAIN pending = 1 .. Len(pending)
      /\ \A i \in 1 .. Len(pending) : pending[i] \in [at : Nat, cell : Cell]
  BY <1>2, SeqIs
<1>4. /\ Len(row_groups) \in Nat /\ DOMAIN row_groups = 1 .. Len(row_groups)
      /\ DOMAIN stored = 1 .. Len(row_groups)
      /\ \A i \in 1 .. Len(row_groups) : row_groups[i] \in RowGroupMeta /\ stored[i] \in Batch
  BY <1>2
<1>5. /\ \A m \in RowGroupMeta : m.start \in Nat
      /\ \A item \in [at : Nat, cell : Cell] : item.at \in Nat /\ item.cell \in Cell
  BY DEF RowGroupMeta
<1> QED
  BY <1>1, <1>2, <1>3, <1>4, <1>5

\* The footer's head comes first, then the row groups in their order.
LEMMA FooterIs ==
    ASSUME TypeOK
    PROVE  /\ Footer \in Seq(Cell)
           /\ Len(Footer) = 1 + Len(row_groups)
           /\ Footer[1] = HeadCell(row_count, Len(row_groups))
           /\ \A i \in 1 .. Len(row_groups) : Footer[i + 1] = GroupCell(row_groups[i])
<1> DEFINE groups == [i \in 1 .. Len(row_groups) |-> GroupCell(row_groups[i])]
           head == HeadCell(row_count, Len(row_groups))
<1>1. row_groups \in Seq(RowGroupMeta) /\ row_count \in Nat /\ Len(row_groups) \in Nat
  BY DEF TypeOK, FileTypes
<1>2. \A m \in RowGroupMeta : GroupCell(m) \in Cell
  BY DEF GroupCell, Cell
<1>3. head \in Cell
  BY <1>1 DEF HeadCell, Cell
<1>4. groups \in [1 .. Len(row_groups) -> Cell]
  BY <1>1, <1>2
<1>5. groups \in Seq(Cell) /\ Len(groups) = Len(row_groups)
  <2> HIDE DEF groups
  <2> QED
    BY <1>1, <1>4
<1>6. \A i \in 1 .. Len(row_groups) : groups[i] = GroupCell(row_groups[i])
  OBVIOUS
<1>7. Footer = <<head>> \o groups
  BY DEF Footer
<1> HIDE DEF groups, head
<1>8. /\ Footer \in Seq(Cell)
      /\ Len(Footer) = 1 + Len(row_groups)
      /\ Footer[1] = head
      /\ \A i \in 1 .. Len(row_groups) : Footer[i + 1] = groups[i]
  BY <1>1, <1>3, <1>5, <1>7
<1> QED
  BY <1>6, <1>8 DEF head

\* What the reader finds at the places it reads.
LEMMA OffsetSeen ==
    ASSUME FileInv, Readable(disk, 0, HeaderSize)
    PROVE  /\ disk[OffsetPosition + 1].at \in Nat
           /\ disk[OffsetPosition + 1].at # 0 =>
                  /\ FooterPlaced
                  /\ disk[OffsetPosition + 1] = OffsetCell(group.start)
                  /\ disk[OffsetPosition + 1].at = group.start
<1>1. /\ Len(disk) \in Nat /\ Len(disk) > 1 /\ group.start \in Nat
  BY DEF FileInv, TypeOK, FileTypes, Readable, HeaderSize, RowGroupMeta
<1>2. CASE ~FooterPlaced
  BY <1>1, <1>2 DEF FileInv, BeforeFooter, NoOffsetYet, OffsetPosition, OffsetCell
<1>3. CASE FooterPlaced
  BY <1>1, <1>3 DEF FileInv, AfterFooter, FooterPresent, OffsetPosition, OffsetCell
<1> QED
  BY <1>2, <1>3

\* ReadFooter finds the head of the footer at the position the header gave.
LEMMA HeadSeen ==
    ASSUME FileInv, rpc = "footer", Readable(disk, footer_pos, 1)
    PROVE  disk[footer_pos + 1] = HeadCell(row_count, Len(row_groups))
<1>1. FooterPlaced /\ footer_pos = group.start
  BY DEF FileInv, ReaderHolds
<1>2. Len(disk) \in Nat /\ group.start \in Nat /\ group.start + 1 <= Len(disk)
  BY <1>1 DEF FileInv, TypeOK, FileTypes, Readable, RowGroupMeta
<1>3. disk[group.start + 1] = Footer[1]
  <2>1. 1 \in 1 .. Present
    BY <1>2 DEF Present
  <2> QED
    BY <1>1, <2>1 DEF FileInv, AfterFooter, FooterPresent
<1> QED
  BY <1>1, <1>3, FooterIs DEF FileInv

\* ReadRowGroupMeta finds the next of the writer's row groups, if anything.
LEMMA GroupSeen ==
    ASSUME FileInv, rpc = "groups", Len(metadata.row_groups) < row_group_count,
           Readable(disk, footer_pos, 1)
    PROVE  LET i == Len(metadata.row_groups) + 1
           IN  /\ i \in 1 .. Len(row_groups)
               /\ disk[footer_pos + 1] = GroupCell(row_groups[i])
               /\ disk[footer_pos + 1].meta = row_groups[i]
               /\ Len(disk[footer_pos + 1].meta.columns) = Width(stored[i])
<1> DEFINE n == Len(metadata.row_groups)
<1>1. FooterPlaced /\ footer_pos = group.start + 1 + n /\ row_group_count = Len(row_groups)
  BY DEF FileInv, ReaderHolds
<1>2. n \in Nat /\ Len(row_groups) \in Nat /\ n + 1 \in 1 .. Len(row_groups)
  BY <1>1 DEF FileInv, TypeOK, FileTypes, ReaderTypes
<1>3. /\ Len(disk) \in Nat /\ group.start \in Nat
      /\ group.start + (n + 2) <= Len(disk)
      /\ footer_pos + 1 = group.start + (n + 2)
  <2>1. Len(disk) \in Nat /\ group.start \in Nat /\ footer_pos + 1 <= Len(disk)
    BY Types DEF FileInv, Readable
  <2> HIDE DEF n
  <2> QED
    BY <1>1, <1>2, <2>1
<1> HIDE DEF n
<1>4. disk[group.start + (n + 2)] = Footer[n + 2]
  <2>1. n + 2 \in 1 .. Present
    BY <1>2, <1>3 DEF Present
  <2> QED
    BY <1>1, <2>1 DEF FileInv, AfterFooter, FooterPresent
<1>5. Footer[n + 2] = GroupCell(row_groups[n + 1])
  <2>1. Footer[(n + 1) + 1] = GroupCell(row_groups[n + 1])
    BY <1>2, FooterIs DEF FileInv
  <2> QED
    BY <1>2, <2>1
<1>6. Describes(row_groups[n + 1], stored[n + 1])
  BY <1>2, Types DEF FileInv, MetadataHolds
<1>7. Len(row_groups[n + 1].columns) = Width(stored[n + 1])
  <2>1. stored[n + 1] \in Batch
    BY <1>2 DEF FileInv, TypeOK, FileTypes, ReaderTypes
  <2>2. Width(stored[n + 1]) \in Nat
    BY <2>1, BatchAssumption DEF Width
  <2> QED
    BY <1>6, <2>2 DEF Describes, ColumnInfos
<1> QED
  BY <1>2, <1>3, <1>4, <1>5, <1>7 DEF GroupCell, n

-----------------------------------------------------------------------------
(* The steps of the reader.                                                  *)

\* What the invariant says of the file alone survives a step of the reader.
LEMMA ReaderLeavesFile ==
    ASSUME FileInv, UNCHANGED <<disk, writerVars>>
    PROVE  FileTypes' /\ Control' /\ MetadataHolds' /\ BeforeFooter' /\ AfterFooter'
<1> USE DEF writerVars, streamVars, metaVars
<1>1. FileTypes'
  BY DEF FileInv, TypeOK, FileTypes
<1>2. FooterPlaced' = FooterPlaced
  BY DEF FooterPlaced
<1>3. Control'
  BY <1>2 DEF FileInv, Control
<1>4. MetadataHolds'
  BY DEF FileInv, MetadataHolds, Describes, Total
<1>5. BeforeFooter'
  <2>1. \A b, p, n : PayloadLands(b, p, n)' = PayloadLands(b, p, n)
    BY DEF PayloadLands, Lands
  <2>2. NoOffsetYet' = NoOffsetYet /\ Appending' = Appending /\ HeaderComes' = HeaderComes
    BY DEF NoOffsetYet, Appending, HeaderComes
  <2>3. RecordedLand' = RecordedLand
    BY <2>1 DEF RecordedLand
  <2>4. BatchUnderWay' = BatchUnderWay
    BY <2>1 DEF BatchUnderWay
  <2> QED
    BY <1>2, <2>2, <2>3, <2>4 DEF FileInv, BeforeFooter
<1>6. AfterFooter'
  <2>1. Footer' = Footer /\ Present' = Present
    BY DEF Footer, Present
  <2>2. FooterPresent' = FooterPresent /\ RecordedOnDisk' = RecordedOnDisk
    BY <2>1 DEF FooterPresent, RecordedOnDisk
  <2>3. OffsetUnderWay' = OffsetUnderWay
    BY <2>1 DEF OffsetUnderWay, OffsetOnTheWay
  <2>4. FooterUnderWay' = FooterUnderWay
    BY <2>1 DEF FooterUnderWay, Appending
  <2> QED
    BY <1>2, <2>2, <2>3, <2>4 DEF FileInv, AfterFooter
<1> QED
  BY <1>1, <1>3, <1>4, <1>5, <1>6

\* ReadHeader finds a footer that is being written, or throws.
LEMMA ReadHeaderKeeps ==
    ASSUME FileInv, ReadHeader, UNCHANGED writerVars
    PROVE  ReaderTypes' /\ ReaderHolds'
<1> USE DEF writerVars, streamVars, metaVars
<1>1. CASE Readable(disk, 0, HeaderSize) /\ disk[OffsetPosition + 1].at # 0
  <2>1. /\ FooterPlaced /\ disk[OffsetPosition + 1] = OffsetCell(group.start)
        /\ disk[OffsetPosition + 1].at = group.start /\ group.start \in Nat
    BY <1>1, OffsetSeen
  <2>2. /\ rpc = "closed" /\ rpc' = "footer" /\ footer_pos' = group.start
        /\ UNCHANGED <<disk, row_group_count, metadata, next_row_group, todo, got>>
    BY <1>1, <2>1 DEF ReadHeader
  <2>3. ReaderTypes'
    BY <2>1, <2>2 DEF FileInv, TypeOK, ReaderTypes
  <2>4. ReaderHolds'
    BY <2>1, <2>2 DEF FileInv, ReaderHolds, FooterPlaced
  <2> QED
    BY <2>3, <2>4
<1>2. CASE ~(Readable(disk, 0, HeaderSize) /\ disk[OffsetPosition + 1].at # 0)
  <2>1. /\ rpc = "closed" /\ rpc' = "rejected"
        /\ UNCHANGED <<disk, footer_pos, row_group_count, metadata, next_row_group,
                       todo, got>>
    BY <1>2 DEF ReadHeader, Reject
  <2>2. ReaderTypes'
    BY <2>1 DEF FileInv, TypeOK, ReaderTypes
  <2>3. ReaderHolds'
    BY <2>1 DEF FileInv, ReaderHolds
  <2> QED
    BY <2>2, <2>3
<1> QED
  BY <1>1, <1>2

\* The head of the footer announces the writer's row groups.
LEMMA ReadFooterHeadKeeps ==
    ASSUME FileInv, ReadFooterHead, UNCHANGED writerVars
    PROVE  ReaderTypes' /\ ReaderHolds'
<1> USE DEF writerVars, streamVars, metaVars
<1>0. /\ FooterPlaced /\ disk[OffsetPosition + 1] = OffsetCell(group.start)
      /\ footer_pos = group.start /\ group.start \in Nat /\ metadata.row_groups = <<>>
      /\ row_count \in Nat /\ Len(row_groups) \in Nat /\ Len(disk) \in Nat
  BY Types DEF ReadFooterHead, FileInv, ReaderHolds, TypeOK, FileTypes
<1>1. CASE Readable(disk, footer_pos, 1)
  <2>1. disk[footer_pos + 1] = HeadCell(row_count, Len(row_groups))
    BY <1>1, HeadSeen DEF ReadFooterHead
  <2>2. /\ disk[footer_pos + 1].groups = Len(row_groups)
        /\ disk[footer_pos + 1].row_count = row_count
    BY <2>1 DEF HeadCell
  <2>3. /\ rpc = "footer" /\ rpc' = "groups" /\ footer_pos' = footer_pos + 1
        /\ row_group_count' = Len(row_groups)
        /\ metadata' = [metadata EXCEPT !.row_count = row_count]
        /\ UNCHANGED <<disk, next_row_group, todo, got>>
    BY <1>1, <2>2 DEF ReadFooterHead
  <2>4. /\ metadata \in [row_count : Nat, row_groups : Seq(RowGroupMeta)]
        /\ metadata' \in [row_count : Nat, row_groups : Seq(RowGroupMeta)]
        /\ metadata'.row_count = row_count
        /\ metadata'.row_groups = <<>> /\ metadata'.row_groups = metadata.row_groups
    BY <1>0, <2>3 DEF FileInv, TypeOK, ReaderTypes
  <2>5. ReaderTypes'
    BY <1>0, <2>3, <2>4 DEF FileInv, TypeOK, ReaderTypes
  <2>6. footer_pos + 1 <= Len(disk)
    BY <1>1 DEF Readable
  <2>7. ReaderHolds'
    BY <1>0, <2>3, <2>4, <2>6 DEF FileInv, ReaderHolds, FooterPlaced
  <2> QED
    BY <2>5, <2>7
<1>2. CASE ~Readable(disk, footer_pos, 1)
  <2>1. /\ rpc = "footer" /\ rpc' = "rejected"
        /\ UNCHANGED <<disk, footer_pos, row_group_count, metadata, next_row_group,
                       todo, got>>
    BY <1>2 DEF ReadFooterHead, Reject
  <2>2. ReaderTypes'
    BY <2>1 DEF FileInv, TypeOK, ReaderTypes
  <2>3. ReaderHolds'
    BY <2>1 DEF FileInv, ReaderHolds
  <2> QED
    BY <2>2, <2>3
<1> QED
  BY <1>1, <1>2

\* Each row group read is the writer's, and as wide as the schema.
LEMMA ReadRowGroupMetaKeeps ==
    ASSUME FileInv, ReadRowGroupMeta, UNCHANGED writerVars
    PROVE  ReaderTypes' /\ ReaderHolds'
<1> USE DEF writerVars, streamVars, metaVars
<1> DEFINE n == Len(metadata.row_groups)
           Taken == /\ Readable(disk, footer_pos, 1)
                    /\ Len(disk[footer_pos + 1].meta.columns) = ColumnCount
<1>a. /\ metadata \in [row_count : Nat, row_groups : Seq(RowGroupMeta)]
      /\ metadata.row_groups \in Seq(RowGroupMeta) /\ metadata.row_count = row_count
      /\ FooterPlaced /\ disk[OffsetPosition + 1] = OffsetCell(group.start)
      /\ row_group_count = Len(row_groups)
      /\ next_row_group \in 0 .. n /\ got \in Seq(Seq(Cell)) /\ todo \in Seq(Nat)
  BY DEF ReadRowGroupMeta, FileInv, ReaderHolds, TypeOK, ReaderTypes
<1>b. /\ group.start \in Nat /\ Len(disk) \in Nat /\ n \in Nat /\ footer_pos \in Nat
      /\ Len(row_groups) \in Nat
  BY <1>a, Types DEF FileInv, TypeOK, ReaderTypes
<1>c. /\ footer_pos = group.start + 1 + n
      /\ \A i \in 1 .. n : /\ metadata.row_groups[i] = row_groups[i]
                           /\ Width(stored[i]) = ColumnCount
  BY DEF ReadRowGroupMeta, FileInv, ReaderHolds
<1>1. CASE Taken
  <2> DEFINE m == row_groups[n + 1]
             read == metadata'.row_groups
  <2>1. /\ n + 1 \in 1 .. Len(row_groups) /\ m \in RowGroupMeta
        /\ disk[footer_pos + 1].meta = m /\ Width(stored[n + 1]) = ColumnCount
    <3>1. /\ n + 1 \in 1 .. Len(row_groups) /\ disk[footer_pos + 1].meta = row_groups[n + 1]
          /\ Len(disk[footer_pos + 1].meta.columns) = Width(stored[n + 1])
      BY <1>1, GroupSeen DEF ReadRowGroupMeta
    <3> QED
      BY <1>1, <3>1, Types DEF FileInv
  <2>2. /\ rpc = "groups" /\ footer_pos' = footer_pos + 1
        /\ metadata' = [metadata EXCEPT !.row_groups = Append(@, m)]
        /\ UNCHANGED <<disk, rpc, row_group_count, next_row_group, todo, got>>
    BY <1>1, <2>1 DEF ReadRowGroupMeta
  <2>3. footer_pos + 1 <= Len(disk)
    BY <1>1 DEF Readable
  <2> HIDE DEF m, Taken
  <2>4. /\ metadata' \in [row_count : Nat, row_groups : Seq(RowGroupMeta)]
        /\ metadata'.row_count = row_count
        /\ read = Append(metadata.row_groups, m)
    <3>1. Append(metadata.row_groups, m) \in Seq(RowGroupMeta)
      BY <1>a, <2>1
    <3> QED
      BY <1>a, <2>2, <3>1
  <2> HIDE DEF read
  <2>5. /\ Len(read) = n + 1
        /\ read[n + 1] = m
        /\ \A i \in 1 .. n : read[i] = metadata.row_groups[i]
    BY <1>a, <2>1, <2>4
  <2> HIDE DEF n
  <2>6. ReaderTypes'
    <3>1. footer_pos' \in Nat /\ row_group_count' \in Nat /\ rpc' = "groups"
      BY <1>a, <1>b, <2>2
    <3>2. next_row_group' \in 0 .. Len(metadata'.row_groups)
      BY <1>a, <1>b, <2>2, <2>5 DEF read
    <3>3. todo' \in Seq(Nat) /\ got' \in Seq(Seq(Cell))
      BY <1>a, <2>2
    <3> QED
      BY <2>4, <3>1, <3>2, <3>3 DEF ReaderTypes
  <2>7. /\ n + 1 <= Len(row_groups) /\ footer_pos' <= Len(disk)
        /\ footer_pos' = group.start + 1 + (n + 1)
    BY <1>b, <1>c, <2>1, <2>2, <2>3
  <2>8. \A i \in 1 .. n + 1 : read[i] = row_groups[i] /\ Width(stored[i]) = ColumnCount
    <3> SUFFICES ASSUME NEW i \in 1 .. n + 1
                 PROVE  read[i] = row_groups[i] /\ Width(stored[i]) = ColumnCount
      OBVIOUS
    <3>1. CASE i \in 1 .. n
      BY <1>c, <2>5, <3>1 DEF n
    <3>2. CASE i = n + 1
      BY <2>1, <2>5, <3>2 DEF m
    <3> QED
      BY <1>b, <3>1, <3>2
  <2>9. ReaderHolds'
    BY <1>a, <2>2, <2>4, <2>5, <2>7, <2>8 DEF FileInv, ReaderHolds, FooterPlaced, read
  <2> QED
    BY <2>6, <2>9
<1>2. CASE ~Taken
  <2>1. /\ rpc = "groups" /\ rpc' = "rejected"
        /\ UNCHANGED <<disk, footer_pos, row_group_count, metadata, next_row_group,
                       todo, got>>
    BY <1>2 DEF ReadRowGroupMeta, Reject
  <2>2. ReaderTypes'
    BY <2>1 DEF FileInv, TypeOK, ReaderTypes
  <2>3. ReaderHolds'
    BY <2>1 DEF FileInv, ReaderHolds
  <2> QED
    BY <2>2, <2>3
<1> QED
  BY <1>1, <1>2

\* An open reader advances within the row groups it has.
LEMMA OpenReaderKeeps ==
    ASSUME FileInv, UNCHANGED writerVars,
           \/ Reset \/ SkipNextBatch \/ BatchReturned \/ ReadColumnThrows
           \/ \E p \in Projections : ReadNextBatch(p)
    PROVE  ReaderTypes' /\ ReaderHolds'
<1> USE DEF writerVars, streamVars, metaVars
<1>a. ReaderTypes /\ ReaderHolds
  BY DEF FileInv, TypeOK
<1>b. Len(metadata.row_groups) \in Nat /\ next_row_group \in Nat
  BY <1>a DEF ReaderTypes
<1>1. CASE Reset
  <2>1. ReaderTypes'
    BY <1>a, <1>b, <1>1 DEF Reset, ReaderTypes
  <2>2. ReaderHolds'
    BY <1>a, <1>1 DEF Reset, ReaderHolds, ReaderTypes, FooterPlaced
  <2> QED
    BY <2>1, <2>2
<1>2. CASE SkipNextBatch
  <2>1. next_row_group' \in 0 .. Len(metadata'.row_groups)
    BY <1>b, <1>2 DEF SkipNextBatch, HasNext
  <2>2. ReaderTypes'
    BY <1>a, <1>2, <2>1 DEF SkipNextBatch, ReaderTypes
  <2>3. ReaderHolds'
    BY <1>a, <1>2 DEF SkipNextBatch, ReaderHolds, FooterPlaced
  <2> QED
    BY <2>2, <2>3
<1>3. CASE BatchReturned
  <2>1. ReaderTypes'
    BY <1>a, <1>3 DEF BatchReturned, ReaderTypes
  <2>2. ReaderHolds'
    BY <1>a, <1>3 DEF BatchReturned, ReaderHolds, FooterPlaced
  <2> QED
    BY <2>1, <2>2
<1>4. CASE ReadColumnThrows
  <2>0. /\ rpc = "reading" /\ rpc' = "ready" /\ todo' = <<>> /\ got' = <<>>
        /\ UNCHANGED <<disk, footer_pos, row_group_count, metadata, next_row_group>>
    BY <1>4 DEF ReadColumnThrows
  <2>1. ReaderTypes'
    BY <1>a, <2>0 DEF ReaderTypes
  <2>2. ReaderHolds'
    BY <1>a, <2>0 DEF ReaderHolds, FooterPlaced
  <2> QED
    BY <2>1, <2>2
<1>5. ASSUME NEW p \in Projections, ReadNextBatch(p)
      PROVE  ReaderTypes' /\ ReaderHolds'
  <2>1. next_row_group' \in 0 .. Len(metadata'.row_groups) /\ next_row_group' # 0
    BY <1>b, <1>5 DEF ReadNextBatch, HasNext
  <2>2. p \in Seq(Nat)
    BY ProjectionsAssumption
  <2>3. ReaderTypes'
    BY <1>a, <1>5, <2>1, <2>2 DEF ReadNextBatch, ReaderTypes
  <2>4. ReaderHolds'
    BY <1>a, <1>5, <2>1 DEF ReadNextBatch, ReaderHolds, FooterPlaced
  <2> QED
    BY <2>3, <2>4
<1> QED
  BY <1>1, <1>2, <1>3, <1>4, <1>5

\* The row group being read, as far as its type goes.
LEMMA RowGroupIs ==
    ASSUME FileInv, rpc = "reading"
    PROVE  /\ next_row_group \in 1 .. Len(row_groups)
           /\ RowGroup = row_groups[next_row_group]
           /\ RowGroup \in RowGroupMeta
           /\ Len(metadata.row_groups) = Len(row_groups)
<1>1. /\ next_row_group \in 1 .. Len(metadata.row_groups)
      /\ metadata.row_groups \in Seq(RowGroupMeta)
  BY DEF FileInv, TypeOK, ReaderTypes, ReaderHolds
<1>2. /\ Len(metadata.row_groups) = Len(row_groups)
      /\ \A i \in 1 .. Len(metadata.row_groups) : metadata.row_groups[i] = row_groups[i]
  BY DEF FileInv, ReaderHolds
<1> QED
  BY <1>1, <1>2 DEF RowGroup

\* A column read is a sequence of cells of the file.
LEMMA ReadColumnKeeps ==
    ASSUME FileInv, UNCHANGED writerVars, ReadColumn
    PROVE  ReaderTypes' /\ ReaderHolds'
<1> USE DEF writerVars, streamVars, metaVars
<1> DEFINE chunk == RowGroup.columns[Head(todo) + 1]
           at == ChunkPosition(chunk)
<1>1. /\ rpc = "reading" /\ todo # <<>> /\ Head(todo) < Len(RowGroup.columns)
      /\ Readable(disk, at, chunk.size)
      /\ got' = Append(got, Slice(disk, at, chunk.size))
      /\ todo' = Tail(todo)
      /\ UNCHANGED <<disk, rpc, footer_pos, row_group_count, metadata, next_row_group>>
  BY DEF ReadColumn
<1>2. ReaderTypes /\ ReaderHolds /\ disk \in Seq(Cell)
  BY DEF FileInv, TypeOK, FileTypes
<1>3. todo \in Seq(Nat) /\ Head(todo) \in Nat /\ Tail(todo) \in Seq(Nat)
  BY <1>1, <1>2 DEF ReaderTypes
<1>4. chunk \in [offset : Nat, size : Nat] /\ RowGroup.start \in Nat
  <2>1. RowGroup.columns \in Seq([offset : Nat, size : Nat]) /\ RowGroup.start \in Nat
    BY <1>1, RowGroupIs DEF RowGroupMeta
  <2>2. Head(todo) + 1 \in 1 .. Len(RowGroup.columns)
    BY <1>1, <1>3, <2>1
  <2> QED
    BY <2>1, <2>2, SeqIs
<1>5. at \in Nat /\ chunk.size \in Nat
  BY <1>4 DEF ChunkPosition
<1> HIDE DEF at, chunk
<1>6. Slice(disk, at, chunk.size) \in Seq(Cell)
  BY <1>1, <1>2, <1>5 DEF Slice, Readable
<1>7. got' \in Seq(Seq(Cell))
  BY <1>1, <1>2, <1>6 DEF ReaderTypes
<1>8. ReaderTypes'
  BY <1>1, <1>2, <1>3, <1>7 DEF ReaderTypes
<1>9. ReaderHolds'
  BY <1>1, <1>2 DEF ReaderHolds, FooterPlaced
<1> QED
  BY <1>8, <1>9

\* Every step of the reader keeps the invariant.
LEMMA ReaderKeeps ==
    ASSUME FileInv, ReaderNext, UNCHANGED writerVars
    PROVE  FileInv'
<1>1. UNCHANGED disk
  BY DEF ReaderNext, ReadHeader, ReadFooterHead, ReadRowGroupMeta, Reset,
         SkipNextBatch, ReadNextBatch, ReadColumn, ReadColumnThrows, BatchReturned
<1>2. FileTypes' /\ Control' /\ MetadataHolds' /\ BeforeFooter' /\ AfterFooter'
  BY <1>1, ReaderLeavesFile
<1>3. ReaderTypes' /\ ReaderHolds'
  BY ReadHeaderKeeps, ReadFooterHeadKeeps, ReadRowGroupMetaKeeps, OpenReaderKeeps,
     ReadColumnKeeps DEF ReaderNext
<1> QED
  BY <1>2, <1>3 DEF FileInv, TypeOK

-----------------------------------------------------------------------------
(* The steps of the writer: types.                                           *)

\* WriteColumns' column_infos: offsets and sizes, which sum up to the payload.
LEMMA ColumnInfosIs ==
    ASSUME NEW b \in Batch, Width(b) > 0
    PROVE  /\ ColumnInfos(b) \in Seq([offset : Nat, size : Nat])
           /\ Len(ColumnInfos(b)) = Width(b) /\ DOMAIN ColumnInfos(b) = 1 .. Width(b)
           /\ \A c \in 1 .. Width(b) :
                  /\ ColumnInfos(b)[c].offset = LocalOffset(b, c)
                  /\ ColumnInfos(b)[c].size = Size[b][c]
           /\ \A m : m.columns = ColumnInfos(b) => BatchSize(m) = Len(Payload(b))
<1>1. Size[b] \in Seq(Nat) /\ Width(b) \in Nat /\ Len(Size[b]) = Width(b)
  BY BatchAssumption DEF Width
<1>2. \A c \in 1 .. Width(b) : LocalOffset(b, c) \in Nat /\ Size[b][c] \in Nat
  BY <1>1, PayloadIs DEF LocalOffset
<1>3. ColumnInfos(b) \in [1 .. Width(b) -> [offset : Nat, size : Nat]]
  BY <1>2 DEF ColumnInfos
<1>4. \A c \in 1 .. Width(b) : /\ ColumnInfos(b)[c].offset = LocalOffset(b, c)
                               /\ ColumnInfos(b)[c].size = Size[b][c]
  BY DEF ColumnInfos
<1>5. ASSUME NEW m, m.columns = ColumnInfos(b)
      PROVE  BatchSize(m) = Len(Payload(b))
  <2>1. DOMAIN m.columns = 1 .. Width(b)
    BY <1>5 DEF ColumnInfos
  <2>2. [c \in DOMAIN m.columns |-> m.columns[c].size] = [c \in 1 .. Width(b) |-> Size[b][c]]
    BY <1>4, <1>5, <2>1
  <2>3. [c \in 1 .. Width(b) |-> Size[b][c]] = Size[b]
    BY <1>1
  <2> QED
    BY <2>2, <2>3, PayloadIs DEF BatchSize
<1>6. DOMAIN ColumnInfos(b) = 1 .. Width(b)
  BY DEF ColumnInfos
<1>7. ColumnInfos(b) \in Seq([offset : Nat, size : Nat]) /\ Len(ColumnInfos(b)) = Width(b)
  <2> DEFINE Info == [offset : Nat, size : Nat]
             infos == ColumnInfos(b)
             n == Width(b)
  <2>1. infos \in [1 .. n -> Info] /\ n \in Nat
    BY <1>1, <1>3
  <2> HIDE DEF Info, infos, n
  <2>2. infos \in Seq(Info) /\ Len(infos) = n
    BY <2>1
  <2> QED
    BY <2>2 DEF Info, infos, n
<1> QED
  BY <1>4, <1>5, <1>6, <1>7

\* The stream keeps the types: positions stay in the file.
LEMMA StreamTypes ==
    ASSUME FileInv, Drain \/ WriteCell \/ DeviceFails
    PROVE  FileTypes'
<1> USE DEF writerVars, streamVars, metaVars
<1>a. FileTypes
  BY DEF FileInv, TypeOK
<1> DEFINE Item == [at : Nat, cell : Cell]
<1>b. pending \in Seq(Item) /\ disk \in Seq(Cell) /\ out \in Seq(Cell) /\ pos \in Nat
  BY <1>a DEF FileTypes
<1>1. CASE Drain
  <2>1. pending # <<>> /\ pending' = Tail(pending)
    BY <1>1 DEF Drain
  <2> HIDE DEF Item
  <2>2. Head(pending) \in Item /\ pending' \in Seq(Item)
    BY <1>b, <2>1
  <2>3. Head(pending).at \in Nat /\ Head(pending).cell \in Cell
    BY <2>2 DEF Item
  <2>4. disk' \in Seq(Cell)
    <3>1. disk' = IF Head(pending).at = Len(disk)
                  THEN Append(disk, Head(pending).cell)
                  ELSE [disk EXCEPT ![Head(pending).at + 1] = Head(pending).cell]
      BY <1>1 DEF Drain
    <3>2. Append(disk, Head(pending).cell) \in Seq(Cell)
      BY <1>b, <2>3
    <3>3. [disk EXCEPT ![Head(pending).at + 1] = Head(pending).cell] \in Seq(Cell)
      BY <1>b, <2>3, SeqExceptIs
    <3> QED
      BY <3>1, <3>2, <3>3
  <2> QED
    BY <1>a, <1>1, <2>2, <2>4 DEF Drain, FileTypes, Item
<1>2. CASE WriteCell
  <2>1. /\ out # <<>> /\ pos' = pos + 1 /\ out' = Tail(out)
        /\ pending' = Append(pending, [at |-> pos, cell |-> Head(out)])
    BY <1>2 DEF WriteCell
  <2>2. Head(out) \in Cell /\ out' \in Seq(Cell)
    BY <1>b, <2>1
  <2>3. [at |-> pos, cell |-> Head(out)] \in Item
    BY <1>b, <2>2
  <2> HIDE DEF Item
  <2>4. pending' \in Seq(Item)
    BY <1>b, <2>1, <2>3
  <2> QED
    BY <1>a, <1>2, <2>1, <2>2, <2>4 DEF WriteCell, FileTypes, Item
<1>3. CASE DeviceFails
  <2>1. /\ UNCHANGED <<disk, pending, pos, batch, group, metaVars, unwinding, calls>>
        /\ good' = FALSE /\ out' = <<>> /\ status' = "failed"
        /\ wpc' \in {"closing", "threw"}
    BY <1>3 DEF DeviceFails, Throw
  <2>2. out' \in Seq(Cell)
    BY <2>1, EmptyIsSeq
  <2> QED
    BY <1>a, <2>1, <2>2 DEF FileTypes
<1> QED
  BY <1>1, <1>2, <1>3

\* Places the writer passes without touching data.
Moves ==
    \/ HeaderWritten \/ WriteAfterFinalize \/ EncodeThrows
    \/ Finalize \/ OffsetWritten \/ FooterWritten \/ Flushed \/ FlushFails
    \/ Catch \/ Destroy \/ Close \/ Killed

\* So do the steps that move the writer on and build nothing.
LEMMA MovesTypes ==
    ASSUME FileInv, Moves
    PROVE  FileTypes'
<1> USE DEF writerVars, streamVars, metaVars
<1>a. FileTypes
  BY DEF FileInv, TypeOK
<1>1. /\ UNCHANGED <<disk, pos, batch, group, row_count, row_groups, cur_batch, stored>>
      /\ calls' = calls \/ (calls < MaxBatches /\ calls' = calls + 1)
      /\ pending' = pending \/ pending' = <<>>
      /\ out' = out \/ out' = <<>>
  BY DEF Moves, HeaderWritten, WriteAfterFinalize, EncodeThrows, Finalize, StartFinalize,
         OffsetWritten, FooterWritten, Flushed, FlushFails, Finalized, Catch, Destroy,
         Close, Killed, Throw
<1>2. /\ wpc' \in {"closed", "header", "idle", "encode", "payload", "threw",
                   "seek_header", "offset", "seek_footer", "footer", "flush",
                   "closing", "gone", "killed"}
      /\ wpc' \notin {"encode", "payload"}
      /\ good' \in BOOLEAN /\ finalized' \in BOOLEAN /\ unwinding' \in BOOLEAN
      /\ status' \in {"none", "ok", "failed"}
  BY <1>a
     DEF Moves, HeaderWritten, WriteAfterFinalize, EncodeThrows, Finalize, StartFinalize,
         OffsetWritten, FooterWritten, Flushed, FlushFails, Finalized, Catch, Destroy,
         Close, Killed, Throw, FileTypes
<1> QED
  <2>1. calls' \in Nat /\ cur_batch' <= calls' /\ calls' <= MaxBatches
    BY <1>a, <1>1, MaxBatchesAssumption DEF FileTypes
  <2>2. out' \in Seq(Cell) /\ pending' \in Seq([at : Nat, cell : Cell])
    BY <1>a, <1>1, EmptyIsSeq DEF FileTypes
  <2> QED
    BY <1>a, <1>1, <1>2, <2>1, <2>2 DEF FileTypes

\* And the steps that build a batch, its metadata or the footer.
LEMMA BuildTypes ==
    ASSUME FileInv,
           \/ Open \/ EncodeColumns \/ RecordRowGroup \/ SeekHeader \/ SeekFooter
           \/ \E b \in Batch : MakeBatchMeta(b)
    PROVE  FileTypes'
<1> USE DEF writerVars, streamVars, metaVars
<1>a. FileTypes
  BY DEF FileInv, TypeOK
<1>b. NoGroup \in RowGroupMeta
  BY EmptyIsSeq DEF NoGroup, RowGroupMeta
<1>1. CASE Open
  <2>1. Header \in Seq(Cell)
    BY DEF Header, Magic, OffsetCell, Cell
  <2> QED
    BY <1>a, <1>1, <2>1 DEF Open, FileTypes
<1>2. CASE EncodeColumns
  <2>1. batch \in Batch /\ Width(batch) > 0 /\ wpc = "encode"
    BY <1>2 DEF FileInv, TypeOK, FileTypes, MetadataHolds, EncodeColumns
  <2>2. Payload(batch) \in Seq(Cell) /\ ColumnInfos(batch) \in Seq([offset : Nat, size : Nat])
    BY <2>1, PayloadIs, ColumnInfosIs
  <2>3. [group EXCEPT !.columns = ColumnInfos(batch)] \in RowGroupMeta
    BY <1>a, <2>2 DEF FileTypes, RowGroupMeta
  <2> QED
    BY <1>a, <1>2, <2>1, <2>2, <2>3 DEF EncodeColumns, FileTypes
<1>3. CASE RecordRowGroup
  <2>1. /\ batch \in Batch /\ Width(batch) > 0 /\ group.row_num = Rows[batch]
        /\ group.columns = ColumnInfos(batch) /\ group \in RowGroupMeta
    BY <1>3 DEF FileInv, TypeOK, FileTypes, MetadataHolds, RecordRowGroup
  <2>2. BatchSize(group) \in Nat
    <3>1. Payload(batch) \in Seq(Cell) /\ BatchSize(group) = Len(Payload(batch))
      BY <2>1, PayloadIs, ColumnInfosIs
    <3> QED
      BY <3>1
  <2> DEFINE m == [group EXCEPT !.batch_size = BatchSize(group)]
  <2>3. m \in RowGroupMeta /\ group.row_num \in Nat
    BY <2>1, <2>2 DEF RowGroupMeta
  <2>4. /\ row_groups' = Append(row_groups, m) /\ stored' = Append(stored, batch)
        /\ row_count' = row_count + group.row_num /\ wpc' = "idle"
        /\ UNCHANGED <<disk, streamVars, batch, group, cur_batch, finalized, unwinding,
                       status, calls>>
    BY <1>3 DEF RecordRowGroup
  <2> HIDE DEF m
  <2>5. /\ row_groups' \in Seq(RowGroupMeta) /\ Len(row_groups') = Len(row_groups) + 1
        /\ stored' \in Seq(Batch) /\ Len(stored') = Len(stored) + 1
    BY <1>a, <2>1, <2>3, <2>4 DEF FileTypes
  <2>6. Len(row_groups) + 1 <= cur_batch
    <3>1. Len(row_groups) < cur_batch
      BY <1>3 DEF FileInv, MetadataHolds, RecordRowGroup
    <3>2. Len(row_groups) \in Nat /\ cur_batch \in Nat
      BY <1>a, Types DEF FileInv, FileTypes
    <3> QED
      BY <3>1, <3>2
  <2>7. row_count' \in Nat /\ Len(stored') = Len(row_groups') /\ Len(row_groups') <= cur_batch'
    BY <1>a, <2>3, <2>4, <2>5, <2>6 DEF FileTypes
  <2> QED
    BY <1>a, <2>4, <2>5, <2>7 DEF FileTypes
<1>4. CASE SeekHeader
  <2>1. [NoGroup EXCEPT !.start = pos] \in RowGroupMeta
    BY <1>a, <1>b DEF FileTypes, RowGroupMeta
  <2>2. <<OffsetCell(pos)>> \in Seq(Cell)
    BY <1>a DEF FileTypes, OffsetCell, Cell
  <2> QED
    BY <1>a, <1>4, <2>1, <2>2 DEF SeekHeader, FileTypes, OffsetPosition
<1>5. CASE SeekFooter
  <2>1. Footer \in Seq(Cell) /\ group.start \in Nat
    BY FooterIs, Types DEF FileInv
  <2> QED
    BY <1>a, <1>5, <2>1 DEF SeekFooter, FileTypes
<1>6. ASSUME NEW b \in Batch, MakeBatchMeta(b) PROVE FileTypes'
  <2>1. calls' \in Nat /\ calls' = calls + 1 /\ calls' <= MaxBatches /\ batch' = b
    <3>1. calls < MaxBatches /\ calls' = calls + 1 /\ batch' = b
      BY <1>6 DEF MakeBatchMeta
    <3>2. calls \in Nat
      BY <1>a DEF FileTypes
    <3> QED
      BY <3>1, <3>2, MaxBatchesAssumption
  <2>2. UNCHANGED <<disk, pending, good, pos, row_count, row_groups, finalized, stored, unwinding>>
    BY <1>6 DEF MakeBatchMeta
  <2>3. CASE good
    <3> DEFINE m == [NoGroup EXCEPT !.batch_id = cur_batch, !.row_num = Rows[b], !.start = pos]
    <3>1. m \in RowGroupMeta
      <4>1. cur_batch \in Int /\ pos \in Nat /\ Rows[b] \in Nat
        BY <1>a, BatchAssumption DEF FileTypes
      <4> QED
        BY <1>b, <4>1 DEF RowGroupMeta
    <3>2. /\ group' = m /\ cur_batch' = cur_batch + 1 /\ wpc' = "encode"
          /\ UNCHANGED <<out, status>>
      BY <1>6, <2>3 DEF MakeBatchMeta
    <3> HIDE DEF m
    <3>3. cur_batch' \in Nat /\ Len(row_groups) <= cur_batch' /\ cur_batch' <= calls'
      BY <1>a, <2>1, <3>2, Types DEF FileInv, FileTypes
    <3> QED
      BY <1>a, <2>1, <2>2, <3>1, <3>2, <3>3 DEF FileTypes
  <2>4. CASE ~good
    <3>1. /\ out' = <<>> /\ status' = "failed" /\ wpc' \in {"closing", "threw"}
          /\ UNCHANGED <<group, cur_batch>>
      BY <1>6, <2>4 DEF MakeBatchMeta, Throw
    <3>2. cur_batch' \in Nat /\ cur_batch' <= calls' /\ out' \in Seq(Cell)
      BY <1>a, <2>1, <3>1, EmptyIsSeq DEF FileTypes
    <3> QED
      BY <1>a, <2>1, <2>2, <3>1, <3>2 DEF FileTypes
  <2> QED
    BY <2>3, <2>4
<1> QED
  BY <1>1, <1>2, <1>3, <1>4, <1>5, <1>6

-----------------------------------------------------------------------------
(* The steps of the writer: control and metadata.                            *)

\* A row group is begun before the footer is placed, and its id tells it from
\* Finalize's footer_pos.
LEMMA Begins ==
    ASSUME FileInv, NEW b \in Batch, MakeBatchMeta(b)
    PROVE  /\ wpc = "idle" /\ ~finalized /\ ~unwinding
           /\ good => /\ ~FooterPlaced /\ ~FooterPlaced'
                      /\ wpc' = "encode" /\ pos >= HeaderSize
                      /\ group' = [NoGroup EXCEPT !.batch_id = cur_batch,
                                                  !.row_num = Rows[b],
                                                  !.start = pos]
           /\ ~good => FooterPlaced' = FooterPlaced /\ wpc' = "threw" /\ group' = group
<1>1. wpc = "idle" /\ ~finalized /\ ~unwinding
  BY DEF MakeBatchMeta, FileInv, Control
<1>2. CASE good
  <2>1. ~FooterPlaced
    BY <1>1, <1>2 DEF FileInv, Control
  <2>2. pos >= HeaderSize
    BY <1>1, <1>2, <2>1 DEF FileInv, BeforeFooter, HeaderComes
  <2>3. /\ wpc' = "encode"
        /\ group' = [NoGroup EXCEPT !.batch_id = cur_batch, !.row_num = Rows[b], !.start = pos]
    BY <1>2 DEF MakeBatchMeta
  <2>4. group'.batch_id = cur_batch /\ cur_batch \in Nat
    BY <2>3 DEF NoGroup, FileInv, TypeOK, FileTypes
  <2>5. ~FooterPlaced'
    BY <2>4 DEF FooterPlaced, NoGroup
  <2> QED
    BY <1>1, <1>2, <2>1, <2>2, <2>3, <2>5
<1>3. CASE ~good
  BY <1>1, <1>3 DEF MakeBatchMeta, Throw, FooterPlaced
<1> QED
  BY <1>2, <1>3

\* SeekHeader places the footer at the end of the file.
LEMMA Places ==
    ASSUME FileInv, SeekHeader
    PROVE  /\ ~FooterPlaced /\ good /\ ~finalized /\ pos \in Nat /\ pos >= HeaderSize
           /\ pending = <<>>
           /\ group'.start = pos /\ group'.batch_id = NoGroup.batch_id /\ FooterPlaced'
           /\ wpc = "seek_header" /\ wpc' = "offset" /\ out' = <<OffsetCell(pos)>>
           /\ pos' = OffsetPosition
           /\ UNCHANGED <<disk, pending, good, batch, metaVars, unwinding, status, calls>>
<1>1. /\ wpc = "seek_header" /\ wpc' = "offset" /\ pending = <<>>
      /\ group' = [NoGroup EXCEPT !.start = pos] /\ out' = <<OffsetCell(pos)>>
      /\ pos' = OffsetPosition
      /\ UNCHANGED <<disk, pending, good, batch, metaVars, unwinding, status, calls>>
  BY DEF SeekHeader
<1>2. ~FooterPlaced /\ good /\ ~finalized /\ pos \in Nat
  BY <1>1 DEF FileInv, Control, TypeOK, FileTypes
<1>3. pos >= HeaderSize
  BY <1>1, <1>2 DEF FileInv, BeforeFooter, HeaderComes
<1>4. group'.start = pos /\ group'.batch_id = NoGroup.batch_id
  BY <1>1 DEF NoGroup
<1>5. FooterPlaced'
  BY <1>2, <1>3, <1>4 DEF FooterPlaced, NoGroup, HeaderSize
<1> QED
  BY <1>1, <1>2, <1>3, <1>4, <1>5

\* No other step places or misplaces the footer.
LEMMA PlacedStays ==
    ASSUME FileInv,
           \/ Drain \/ WriteCell \/ DeviceFails \/ Open \/ EncodeColumns
           \/ RecordRowGroup \/ SeekFooter \/ Moves
    PROVE  FooterPlaced' = FooterPlaced
<1>1. CASE EncodeColumns
  <2>1. group' = [group EXCEPT !.columns = ColumnInfos(batch)] /\ group \in RowGroupMeta
    BY <1>1 DEF EncodeColumns, FileInv, TypeOK, FileTypes
  <2>2. group'.batch_id = group.batch_id /\ group'.start = group.start
    BY <2>1 DEF RowGroupMeta
  <2> QED
    BY <2>2 DEF FooterPlaced
<1>2. CASE ~EncodeColumns
  <2>1. group' = group
    BY <1>2
       DEF Drain, WriteCell, DeviceFails, Open, RecordRowGroup, SeekFooter, Moves,
           HeaderWritten, WriteAfterFinalize, EncodeThrows, Finalize, StartFinalize,
           OffsetWritten, FooterWritten, Flushed, FlushFails, Finalized, Catch, Destroy,
           Close, Killed, streamVars, metaVars
  <2> QED
    BY <2>1 DEF FooterPlaced
<1> QED
  BY <1>1, <1>2

\* The flags of the writer follow its place.
LEMMA ControlKept ==
    ASSUME FileInv, WriterNext
    PROVE  Control'
<1> USE DEF streamVars, metaVars
<1>a. Control /\ wpc \in {"closed", "header", "idle", "encode", "payload", "threw",
                "seek_header", "offset", "seek_footer", "footer", "flush",
                "closing", "gone", "killed"} /\ good \in BOOLEAN /\ finalized \in BOOLEAN
                /\ unwinding \in BOOLEAN
  BY DEF FileInv, TypeOK, FileTypes
<1>1. CASE Drain
  BY <1>a, <1>1, PlacedStays DEF Control, Drain
<1>2. CASE WriteCell
  BY <1>a, <1>2, PlacedStays DEF Control, WriteCell
<1>3. CASE DeviceFails
  BY <1>a, <1>3, PlacedStays DEF Control, DeviceFails, Throw
<1>4. CASE Open
  BY <1>a, <1>4, PlacedStays DEF Control, Open
<1>5. CASE HeaderWritten
  BY <1>a, <1>5, PlacedStays DEF Control, HeaderWritten, Moves
<1>6. CASE WriteAfterFinalize
  BY <1>a, <1>6, PlacedStays DEF Control, WriteAfterFinalize, Throw, Moves
<1>7. ASSUME NEW b \in Batch, MakeBatchMeta(b) PROVE Control'
  BY <1>a, <1>7, Begins DEF Control, MakeBatchMeta, Throw
<1>8. CASE EncodeColumns
  BY <1>a, <1>8, PlacedStays DEF Control, EncodeColumns
<1>9. CASE EncodeThrows
  BY <1>a, <1>9, PlacedStays DEF Control, EncodeThrows, Throw, Moves
<1>10. CASE RecordRowGroup
  BY <1>a, <1>10, PlacedStays DEF Control, RecordRowGroup
<1>11. CASE Finalize
  BY <1>a, <1>11, PlacedStays DEF Control, Finalize, StartFinalize, Moves
<1>12. CASE SeekHeader
  BY <1>a, <1>12, Places DEF Control
<1>13. CASE OffsetWritten
  BY <1>a, <1>13, PlacedStays DEF Control, OffsetWritten, Moves
<1>14. CASE SeekFooter
  BY <1>a, <1>14, PlacedStays DEF Control, SeekFooter
<1>15. CASE FooterWritten
  BY <1>a, <1>15, PlacedStays DEF Control, FooterWritten, Moves
<1>16. CASE Flushed
  BY <1>a, <1>16, PlacedStays DEF Control, Flushed, Finalized, Moves
<1>17. CASE FlushFails
  BY <1>a, <1>17, PlacedStays DEF Control, FlushFails, Finalized, Moves
<1>18. CASE Catch
  BY <1>a, <1>18, PlacedStays DEF Control, Catch, Moves
<1>19. CASE Destroy
  BY <1>a, <1>19, PlacedStays DEF Control, Destroy, StartFinalize, Moves
<1>20. CASE Close
  BY <1>a, <1>20, PlacedStays DEF Control, Close, Moves
<1>21. CASE Killed
  BY <1>a, <1>21, PlacedStays DEF Control, Killed, Moves
<1> QED
  BY <1>1, <1>2, <1>3, <1>4, <1>5, <1>6, <1>7, <1>8, <1>9, <1>10, <1>11, <1>12,
     <1>13, <1>14, <1>15, <1>16, <1>17, <1>18, <1>19, <1>20, <1>21 DEF WriterNext

\* The batch a row group is recorded for.
LEMMA Records ==
    ASSUME FileInv, RecordRowGroup
    PROVE  LET m == [group EXCEPT !.batch_size = BatchSize(group)]
           IN  /\ wpc = "payload" /\ out = <<>> /\ good /\ wpc' = "idle" /\ ~FooterPlaced
               /\ batch \in Batch /\ m \in RowGroupMeta
               /\ m.start = group.start /\ m.row_num = group.row_num
               /\ Describes(m, batch)
               /\ row_groups' = Append(row_groups, m) /\ stored' = Append(stored, batch)
               /\ row_count' = row_count + group.row_num
               /\ UNCHANGED <<disk, streamVars, batch, group, cur_batch, finalized,
                              unwinding, status, calls>>
<1> DEFINE m == [group EXCEPT !.batch_size = BatchSize(group)]
<1>1. /\ wpc = "payload" /\ out = <<>> /\ wpc' = "idle"
      /\ row_groups' = Append(row_groups, m) /\ stored' = Append(stored, batch)
      /\ row_count' = row_count + group.row_num
      /\ UNCHANGED <<disk, streamVars, batch, group, cur_batch, finalized,
                     unwinding, status, calls>>
  BY DEF RecordRowGroup
<1>2. /\ batch \in Batch /\ Width(batch) > 0 /\ group.row_num = Rows[batch]
      /\ group.start >= HeaderSize /\ group.columns = ColumnInfos(batch)
      /\ group \in RowGroupMeta /\ good /\ ~FooterPlaced
  BY <1>1 DEF FileInv, TypeOK, FileTypes, MetadataHolds, Control
<1>3. BatchSize(group) = Len(Payload(batch)) /\ Len(Payload(batch)) \in Nat
  BY <1>2, ColumnInfosIs, PayloadIs
<1>4. /\ m \in RowGroupMeta /\ m.start = group.start /\ m.row_num = group.row_num
      /\ m.columns = group.columns /\ m.batch_size = Len(Payload(batch))
  BY <1>2, <1>3 DEF RowGroupMeta
<1> HIDE DEF m
<1>5. Describes(m, batch)
  BY <1>2, <1>4 DEF Describes
<1> QED
  BY <1>1, <1>2, <1>4, <1>5 DEF m

\* The metadata describe the batches stored.
LEMMA MetadataKept ==
    ASSUME FileInv, WriterNext
    PROVE  MetadataHolds'
<1> USE DEF streamVars, metaVars
<1>1. CASE RecordRowGroup
  <2> DEFINE m == [group EXCEPT !.batch_size = BatchSize(group)]
             n == Len(row_groups)
  <2>1. /\ wpc' = "idle" /\ batch \in Batch /\ m \in RowGroupMeta
        /\ m.row_num = Rows[batch] /\ Describes(m, batch)
        /\ row_groups' = Append(row_groups, m) /\ stored' = Append(stored, batch)
        /\ row_count' = row_count + Rows[batch]
    <3>1. /\ wpc' = "idle" /\ batch \in Batch /\ m \in RowGroupMeta
          /\ m.row_num = group.row_num /\ Describes(m, batch)
          /\ row_groups' = Append(row_groups, m) /\ stored' = Append(stored, batch)
          /\ row_count' = row_count + group.row_num
      BY <1>1, Records
    <3> QED
      BY <3>1 DEF Describes
  <2>2. /\ row_groups \in Seq(RowGroupMeta) /\ stored \in Seq(Batch)
        /\ Len(stored) = n /\ n \in Nat
    BY Types DEF FileInv, TypeOK, FileTypes
  <2> HIDE DEF m, n
  <2>3. \A i \in DOMAIN row_groups' : Describes(row_groups'[i], stored'[i])
    <3>1. /\ DOMAIN row_groups' = 1 .. n + 1
          /\ row_groups'[n + 1] = m /\ stored'[n + 1] = batch
          /\ \A i \in 1 .. n : row_groups'[i] = row_groups[i] /\ stored'[i] = stored[i]
      BY <2>1, <2>2 DEF n
    <3>2. \A i \in 1 .. n : Describes(row_groups[i], stored[i])
      BY <2>2, Types DEF FileInv, MetadataHolds, n
    <3> SUFFICES ASSUME NEW i \in 1 .. n + 1 PROVE Describes(row_groups'[i], stored'[i])
      BY <3>1
    <3>3. CASE i \in 1 .. n
      BY <3>1, <3>2, <3>3
    <3>4. CASE i = n + 1
      BY <2>1, <3>1, <3>4
    <3> QED
      BY <2>2, <3>3, <3>4
  <2>4. row_count' = Total'
    <3> DEFINE rows == [i \in DOMAIN stored |-> Rows[stored[i]]]
               longer == [i \in DOMAIN stored' |-> Rows[stored'[i]]]
    <3>1. rows \in Seq(Nat) /\ Rows[batch] \in Nat
      <4>1. \A i \in 1 .. n : Rows[stored[i]] \in Nat
        BY <2>2, BatchAssumption
      <4>2. DOMAIN stored = 1 .. n
        BY <2>2
      <4>3. rows \in [1 .. n -> Nat]
        BY <4>1, <4>2
      <4> HIDE DEF rows
      <4> QED
        BY <2>1, <2>2, <4>3, BatchAssumption
    <3>2. longer = Append(rows, Rows[batch])
      <4>1. /\ DOMAIN stored' = 1 .. n + 1 /\ DOMAIN stored = 1 .. n
            /\ stored'[n + 1] = batch /\ \A i \in 1 .. n : stored'[i] = stored[i]
        BY <2>1, <2>2
      <4>2. rows = [i \in 1 .. n |-> Rows[stored[i]]] /\ Len(rows) = n
        BY <2>2, <3>1, <4>1
      <4>3. longer = [i \in 1 .. n + 1 |-> IF i = n + 1 THEN Rows[batch] ELSE Rows[stored[i]]]
        BY <2>2, <4>1
      <4> HIDE DEF rows, longer
      <4>4. Append(rows, Rows[batch]) =
                [i \in 1 .. n + 1 |-> IF i = n + 1 THEN Rows[batch] ELSE Rows[stored[i]]]
        BY <2>2, <3>1, <4>2
      <4> QED
        BY <4>3, <4>4
    <3>3. TotalOf(longer) = TotalOf(rows) + Rows[batch]
      <4> HIDE DEF rows, longer
      <4> QED
        BY <3>1, <3>2, TotalOfAppend
    <3>4. row_count = TotalOf(rows)
      BY DEF FileInv, MetadataHolds, Total
    <3> QED
      BY <2>1, <3>3, <3>4 DEF Total
  <2> QED
    BY <2>1, <2>3, <2>4 DEF MetadataHolds
<1>2. ASSUME NEW b \in Batch, MakeBatchMeta(b) PROVE MetadataHolds'
  <2>1. UNCHANGED <<row_groups, stored, row_count>> /\ batch' = b /\ Width(b) > 0
    BY <1>2 DEF MakeBatchMeta
  <2>2. Total' = Total
    BY <2>1 DEF Total
  <2>3. wpc' \in {"encode", "payload"} =>
           /\ group'.row_num = Rows[b]
           /\ group'.start >= HeaderSize
           /\ Len(row_groups) < cur_batch'
    <3>1. CASE good
      <4>1. pos >= HeaderSize /\ group' = [NoGroup EXCEPT !.batch_id = cur_batch,
                                                          !.row_num = Rows[b], !.start = pos]
        BY <1>2, <3>1, Begins
      <4>2. group'.row_num = Rows[b] /\ group'.start = pos
        BY <4>1 DEF NoGroup
      <4>3. cur_batch' = cur_batch + 1 /\ Len(row_groups) <= cur_batch /\ cur_batch \in Nat
        BY <1>2, <3>1 DEF MakeBatchMeta, FileInv, TypeOK, FileTypes
      <4> QED
        BY <4>1, <4>2, <4>3, Types DEF FileInv
    <3>2. CASE ~good
      BY <1>2, <3>2, Begins
    <3> QED
      BY <3>1, <3>2
  <2>4. wpc' # "payload"
    BY <1>2, Begins
  <2> QED
    BY <2>1, <2>2, <2>3, <2>4 DEF FileInv, MetadataHolds
<1>3. CASE EncodeColumns
  <2>1. /\ UNCHANGED <<row_groups, stored, row_count, batch, cur_batch>> /\ wpc = "encode"
        /\ group' = [group EXCEPT !.columns = ColumnInfos(batch)]
    BY <1>3 DEF EncodeColumns
  <2>2. Total' = Total
    BY <2>1 DEF Total
  <2>3. /\ group'.columns = ColumnInfos(batch) /\ group'.row_num = group.row_num
        /\ group'.start = group.start
    BY <2>1 DEF FileInv, TypeOK, FileTypes, RowGroupMeta
  <2> QED
    BY <2>1, <2>2, <2>3 DEF FileInv, MetadataHolds
<1>4. CASE SeekHeader
  <2>1. UNCHANGED <<row_groups, stored, row_count>> /\ wpc' = "offset"
    BY <1>4 DEF SeekHeader
  <2>2. Total' = Total
    BY <2>1 DEF Total
  <2> QED
    BY <2>1, <2>2 DEF FileInv, MetadataHolds
<1>5. CASE Drain \/ WriteCell \/ DeviceFails \/ Open \/ SeekFooter \/ Moves
  <2>1. /\ UNCHANGED <<row_groups, stored, row_count, batch, group, cur_batch>>
        /\ wpc' \in {"encode", "payload"} => wpc' = wpc
    BY <1>5
       DEF Drain, WriteCell, DeviceFails, Throw, Open, SeekFooter, Moves,
           HeaderWritten, WriteAfterFinalize, EncodeThrows, Finalize, StartFinalize,
           OffsetWritten, FooterWritten, Flushed, FlushFails, Finalized, Catch, Destroy,
           Close, Killed
  <2>2. Total' = Total
    BY <2>1 DEF Total
  <2> QED
    BY <2>1, <2>2 DEF FileInv, MetadataHolds
<1> QED
  BY <1>1, <1>2, <1>3, <1>4, <1>5 DEF WriterNext, Moves

-----------------------------------------------------------------------------
(* The stream: what is pending lands where it was put.                       *)

\* The buffer after one cell of it has drained.
LEMMA PendingTail ==
    ASSUME FileTypes, Drain
    PROVE  LET item == pending[1]
           IN  /\ Len(pending) >= 1 /\ Head(pending) = item
               /\ item.at \in Nat /\ item.cell \in Cell
               /\ Len(pending') = Len(pending) - 1 /\ DOMAIN pending' = 1 .. Len(pending) - 1
               /\ \A i \in 1 .. Len(pending) - 1 : pending'[i] = pending[i + 1]
               /\ disk' = IF item.at = Len(disk) THEN Append(disk, item.cell)
                          ELSE [disk EXCEPT ![item.at + 1] = item.cell]
<1> DEFINE Item == [at : Nat, cell : Cell]
<1>1. /\ pending # <<>> /\ pending' = Tail(pending)
      /\ disk' = IF Head(pending).at = Len(disk) THEN Append(disk, Head(pending).cell)
                 ELSE [disk EXCEPT ![Head(pending).at + 1] = Head(pending).cell]
  BY DEF Drain
<1>2. pending \in Seq(Item)
  BY DEF FileTypes
<1>3. \A item \in Item : item.at \in Nat /\ item.cell \in Cell
  OBVIOUS
<1> HIDE DEF Item
<1>4. /\ Len(pending) >= 1 /\ Head(pending) = pending[1] /\ pending[1] \in Item
      /\ Len(pending') = Len(pending) - 1 /\ DOMAIN pending' = 1 .. Len(pending) - 1
      /\ \A i \in 1 .. Len(pending) - 1 : pending'[i] = pending[i + 1]
  BY <1>1, <1>2
<1> QED
  BY <1>1, <1>3, <1>4

\* A sequence with one element more.
LEMMA AppendIs ==
    ASSUME NEW S, NEW q \in Seq(S), NEW x \in S
    PROVE  /\ Append(q, x) \in Seq(S) /\ Len(Append(q, x)) = Len(q) + 1
           /\ DOMAIN Append(q, x) = 1 .. Len(q) + 1
           /\ Append(q, x)[Len(q) + 1] = x
           /\ \A i \in 1 .. Len(q) : Append(q, x)[i] = q[i]
OBVIOUS

\* While the file only grows, draining the buffer moves nothing.
LEMMA DrainLands ==
    ASSUME FileTypes, Appending, Drain
    PROVE  /\ disk' = Append(disk, pending[1].cell) /\ pending[1].at = Len(disk)
           /\ Appending'
           /\ \A p \in Nat : \A cell : Lands(p, cell) => Lands(p, cell)'
<1> DEFINE n == Len(pending)
           d == Len(disk)
<1>1. /\ n \in Nat /\ n >= 1 /\ pending[1].cell \in Cell /\ d \in Nat
      /\ Len(pending') = n - 1 /\ DOMAIN pending' = 1 .. n - 1
      /\ \A i \in 1 .. n - 1 : pending'[i] = pending[i + 1]
      /\ disk \in Seq(Cell) /\ pos' = pos
  BY PendingTail DEF FileTypes, Drain
<1>2. DOMAIN pending = 1 .. n /\ \A i \in 1 .. n : pending[i].at = d + i - 1
  BY DEF FileTypes, Appending
<1>3. pending[1].at = d
  BY <1>1, <1>2
<1>4. disk' = Append(disk, pending[1].cell)
  BY <1>3, PendingTail
<1>5. /\ Len(disk') = d + 1 /\ disk'[d + 1] = pending[1].cell
      /\ \A i \in 1 .. d : disk'[i] = disk[i]
  BY <1>1, <1>4, AppendIs
<1>6. pos = d + n
  BY DEF Appending
<1> HIDE DEF n, d
<1>7. \A i \in 1 .. n - 1 : pending'[i].at = d + i
  <2> SUFFICES ASSUME NEW i \in 1 .. n - 1 PROVE pending'[i].at = d + i
    OBVIOUS
  <2>1. i + 1 \in 1 .. n /\ pending'[i] = pending[i + 1]
    BY <1>1
  <2> QED
    BY <1>1, <1>2, <2>1
<1>8. Appending'
  <2>1. pos' = Len(disk') + Len(pending')
    BY <1>1, <1>5, <1>6
  <2>2. \A i \in 1 .. n - 1 : pending'[i].at = Len(disk') + i - 1
    BY <1>1, <1>5, <1>7
  <2> QED
    BY <1>1, <2>1, <2>2 DEF Appending
<1>9. ASSUME NEW p \in Nat, NEW cell, Lands(p, cell)
      PROVE  Lands(p, cell)'
  <2>1. CASE \E i \in 1 .. n : pending[i] = [at |-> p, cell |-> cell]
    <3>1. PICK i \in 1 .. n : pending[i] = [at |-> p, cell |-> cell]
      BY <2>1
    <3>2. pending[i].at = p /\ pending[i].cell = cell
      BY <3>1
    <3>3. p = d + i - 1
      BY <1>2, <3>2
    <3>4. CASE i = 1
      <4>1. p = d /\ cell = pending[1].cell
        BY <1>1, <3>2, <3>3, <3>4
      <4>2. \A j \in 1 .. n - 1 : pending'[j].at # p
        BY <1>1, <1>7, <4>1
      <4>3. p < Len(disk') /\ disk'[p + 1] = cell
        BY <1>1, <1>5, <4>1
      <4> QED
        BY <1>1, <4>2, <4>3 DEF Lands
    <3>5. CASE i # 1
      <4>1. i - 1 \in 1 .. n - 1 /\ (i - 1) + 1 = i
        BY <1>1, <3>5
      <4>2. pending'[i - 1] = [at |-> p, cell |-> cell]
        BY <1>1, <3>1, <4>1
      <4> QED
        BY <1>1, <4>1, <4>2 DEF Lands
    <3> QED
      BY <3>4, <3>5
  <2>2. CASE p < d /\ disk[p + 1] = cell
    <3>1. p + 1 \in 1 .. d /\ p < d + 1
      BY <1>1, <2>2
    <3>2. p < Len(disk') /\ disk'[p + 1] = cell
      BY <1>5, <2>2, <3>1
    <3>3. \A j \in 1 .. n - 1 : pending'[j].at # p
      BY <1>1, <1>7, <2>2
    <3> QED
      BY <1>1, <3>2, <3>3 DEF Lands
  <2> QED
    BY <1>2, <1>9, <2>1, <2>2 DEF Lands, d
<1> QED
  BY <1>3, <1>4, <1>8, <1>9 DEF d

\* A cell written lands at the put position, and hides nothing before it.
LEMMA WriteLands ==
    ASSUME FileTypes, Appending, WriteCell
    PROVE  /\ Appending'
           /\ \A p, cell : p = pos /\ cell = Head(out) => Lands(p, cell)'
           /\ \A p \in Nat : \A cell : p < pos /\ Lands(p, cell) => Lands(p, cell)'
<1> DEFINE n == Len(pending)
           d == Len(disk)
           item == [at |-> pos, cell |-> Head(out)]
           Item == [at : Nat, cell : Cell]
<1>1. /\ n \in Nat /\ d \in Nat /\ pos \in Nat /\ pending \in Seq(Item)
      /\ DOMAIN pending = 1 .. n /\ pos = d + n
      /\ \A i \in 1 .. n : pending[i].at = d + i - 1
  BY DEF FileTypes, Appending
<1>2. pending' = Append(pending, item) /\ pos' = pos + 1 /\ disk' = disk
  BY DEF WriteCell
<1>3. item \in Item
  <2>1. Head(out) \in Cell
    BY DEF FileTypes, WriteCell
  <2> QED
    BY <1>1, <2>1
<1>4. item.at = pos
  OBVIOUS
<1> HIDE DEF Item, item, n
<1>5. /\ Len(pending') = n + 1 /\ DOMAIN pending' = 1 .. n + 1
      /\ pending'[n + 1] = item /\ \A i \in 1 .. n : pending'[i] = pending[i]
  BY <1>1, <1>2, <1>3, AppendIs DEF n
<1> HIDE DEF d
<1>6. \A i \in 1 .. n + 1 : pending'[i].at = d + i - 1
  <2> SUFFICES ASSUME NEW i \in 1 .. n + 1 PROVE pending'[i].at = d + i - 1
    OBVIOUS
  <2>1. CASE i = n + 1
    BY <1>1, <1>4, <1>5, <2>1
  <2>2. CASE i # n + 1
    <3>1. i \in 1 .. n
      BY <1>1, <2>2
    <3> QED
      BY <1>1, <1>5, <3>1
  <2> QED
    BY <2>1, <2>2
<1>7. Appending'
  BY <1>1, <1>2, <1>5, <1>6 DEF Appending, d
<1>8. ASSUME NEW p, NEW cell, p = pos, cell = Head(out)
      PROVE  Lands(p, cell)'
  <2>1. n + 1 \in DOMAIN pending' /\ item = [at |-> p, cell |-> cell]
    BY <1>1, <1>5, <1>8 DEF item
  <2> QED
    BY <1>5, <2>1 DEF Lands
<1>9. ASSUME NEW p \in Nat, NEW cell, p < pos, Lands(p, cell)
      PROVE  Lands(p, cell)'
  <2>1. CASE \E i \in 1 .. n : pending[i] = [at |-> p, cell |-> cell]
    <3>1. PICK i \in 1 .. n : pending[i] = [at |-> p, cell |-> cell]
      BY <2>1
    <3>2. i \in DOMAIN pending' /\ pending'[i] = [at |-> p, cell |-> cell]
      BY <1>1, <1>5, <3>1
    <3> QED
      BY <3>2 DEF Lands
  <2>2. CASE p < Len(disk) /\ disk[p + 1] = cell /\ \A i \in 1 .. n : pending[i].at # p
    <3>1. \A i \in 1 .. n + 1 : pending'[i].at # p
      <4> SUFFICES ASSUME NEW i \in 1 .. n + 1 PROVE pending'[i].at # p
        OBVIOUS
      <4>1. CASE i = n + 1
        BY <1>4, <1>5, <1>9, <1>1, <4>1
      <4>2. CASE i # n + 1
        <5>1. i \in 1 .. n
          BY <1>1, <4>2
        <5> QED
          BY <1>5, <2>2, <5>1
      <4> QED
        BY <4>1, <4>2
    <3> QED
      BY <1>2, <1>5, <2>2, <3>1 DEF Lands
  <2> QED
    BY <1>1, <1>9, <2>1, <2>2 DEF Lands
<1> QED
  BY <1>7, <1>8, <1>9

\* What lands depends on the disk and the buffer only.
LEMMA LandsSame ==
    ASSUME UNCHANGED <<disk, pending>>
    PROVE  \A p, cell : Lands(p, cell)' = Lands(p, cell)
BY DEF Lands

\* What is left of a sequence, from its first element on.
LEMMA RestIs ==
    ASSUME NEW S, NEW s \in Seq(S), NEW n \in 0 .. Len(s)
    PROVE  /\ Rest(s, n) \in Seq(S)
           /\ Rest(s, n) = <<>> <=> n = Len(s)
           /\ n < Len(s) => /\ Head(Rest(s, n)) = s[n + 1]
                            /\ Tail(Rest(s, n)) = Rest(s, n + 1)
<1> DEFINE rest == Rest(s, n)
<1>1. /\ Len(s) \in Nat /\ n \in Nat /\ rest \in Seq(S) /\ Len(rest) = Len(s) - n
      /\ \A i \in 1 .. Len(s) - n : rest[i] = s[n + i]
  BY DEF Rest
<1>2. rest = <<>> <=> n = Len(s)
  BY <1>1
<1>3. ASSUME n < Len(s)
      PROVE  Head(rest) = s[n + 1] /\ Tail(rest) = Rest(s, n + 1)
  <2> DEFINE next == Rest(s, n + 1)
  <2>1. /\ next \in Seq(S) /\ Len(next) = Len(s) - (n + 1)
        /\ \A i \in 1 .. Len(s) - (n + 1) : next[i] = s[(n + 1) + i]
    BY <1>1, <1>3 DEF Rest
  <2> HIDE DEF next, rest
  <2>2. /\ Tail(rest) \in Seq(S) /\ Len(Tail(rest)) = Len(s) - (n + 1)
        /\ \A i \in 1 .. Len(s) - (n + 1) : Tail(rest)[i] = rest[i + 1]
        /\ Head(rest) = rest[1]
    BY <1>1, <1>3
  <2>3. \A i \in 1 .. Len(s) - (n + 1) : Tail(rest)[i] = next[i]
    <3> SUFFICES ASSUME NEW i \in 1 .. Len(s) - (n + 1) PROVE Tail(rest)[i] = next[i]
      OBVIOUS
    <3>1. i + 1 \in 1 .. Len(s) - n /\ n + (i + 1) = (n + 1) + i
      BY <1>1
    <3> QED
      BY <1>1, <2>1, <2>2, <3>1
  <2>4. Tail(rest) = next
    BY <2>1, <2>2, <2>3, SeqEqual
  <2> QED
    BY <1>1, <1>3, <2>2, <2>4 DEF next
<1> QED
  BY <1>1, <1>2, <1>3

\* All of it is left at first.
LEMMA RestOfAll ==
    ASSUME NEW S, NEW s \in Seq(S)
    PROVE  Rest(s, 0) = s
<1>1. Rest(s, 0) \in Seq(S) /\ Len(Rest(s, 0)) = Len(s) /\ \A i \in 1 .. Len(s) : Rest(s, 0)[i] = s[i]
  BY DEF Rest
<1> QED
  BY <1>1, SeqEqual

\* A payload below q lands if what is below q does.
LEMMA PayloadKept ==
    ASSUME NEW q \in Nat, NEW b, NEW p \in Nat, NEW n \in Nat, p + n <= q,
           \A r \in Nat : \A cell : r < q /\ Lands(r, cell) => Lands(r, cell)',
           PayloadLands(b, p, n)
    PROVE  PayloadLands(b, p, n)'
<1> SUFFICES ASSUME NEW k \in 1 .. n PROVE Lands(p + k - 1, Payload(b)[k])'
  BY DEF PayloadLands
<1>1. p + k - 1 \in Nat /\ p + k - 1 < q
  OBVIOUS
<1>2. Lands(p + k - 1, Payload(b)[k])
  BY DEF PayloadLands
<1> QED
  BY <1>1, <1>2

\* The header says that there is no footer.
LEMMA HeaderIs ==
    /\ Header \in Seq(Cell) /\ Len(Header) = HeaderSize
    /\ Header[OffsetPosition + 1] = OffsetCell(0)
BY DEF Header, HeaderSize, OffsetPosition, Magic, OffsetCell, Cell

\* Until SeekHeader nothing tells a reader of a footer.
LEMMA NoOffsetKept ==
    ASSUME FileInv, WriterNext, ~FooterPlaced
    PROVE  NoOffsetYet'
<1>a. NoOffsetYet /\ FileTypes
  BY DEF FileInv, BeforeFooter, TypeOK
<1>b. DOMAIN pending = 1 .. Len(pending) /\ Len(pending) \in Nat /\ Len(disk) \in Nat
  BY Types DEF FileInv
<1>1. CASE Drain
  <2> DEFINE item == pending[1]
             n == Len(pending)
  <2>1. /\ n >= 1 /\ item.at \in Nat /\ item.cell \in Cell
        /\ DOMAIN pending' = 1 .. n - 1
        /\ \A i \in 1 .. n - 1 : pending'[i] = pending[i + 1]
        /\ disk' = IF item.at = Len(disk) THEN Append(disk, item.cell)
                   ELSE [disk EXCEPT ![item.at + 1] = item.cell]
    BY <1>a, <1>1, PendingTail
  <2>2. item.at = OffsetPosition => item.cell = OffsetCell(0)
    <3>1. 1 \in DOMAIN pending
      BY <1>b, <2>1
    <3> QED
      BY <1>a, <3>1 DEF NoOffsetYet
  <2>3. \A i \in 1 .. n - 1 : pending'[i].at = OffsetPosition => pending'[i].cell = OffsetCell(0)
    <3> SUFFICES ASSUME NEW i \in 1 .. n - 1, pending'[i].at = OffsetPosition
                 PROVE  pending'[i].cell = OffsetCell(0)
      OBVIOUS
    <3>1. i + 1 \in DOMAIN pending /\ pending'[i] = pending[i + 1]
      BY <1>b, <2>1
    <3> QED
      BY <1>a, <3>1 DEF NoOffsetYet
  <2> HIDE DEF item, n
  <2>4. Len(disk') > OffsetPosition => disk'[OffsetPosition + 1] = OffsetCell(0)
    <3>1. disk \in Seq(Cell)
      BY <1>a DEF FileTypes
    <3>2. Len(disk) > OffsetPosition => disk[OffsetPosition + 1] = OffsetCell(0)
      BY <1>a DEF NoOffsetYet
    <3>3. CASE item.at = Len(disk)
      <4>1. /\ Len(disk') = Len(disk) + 1 /\ disk'[Len(disk) + 1] = item.cell
            /\ \A i \in 1 .. Len(disk) : disk'[i] = disk[i]
        BY <2>1, <3>1, <3>3, AppendIs
      <4>2. CASE Len(disk) > OffsetPosition
        BY <1>b, <3>2, <4>1, <4>2 DEF OffsetPosition
      <4>3. CASE Len(disk) = OffsetPosition
        BY <2>2, <3>3, <4>1, <4>3
      <4>4. CASE Len(disk) < OffsetPosition
        BY <1>b, <4>1, <4>4 DEF OffsetPosition
      <4>5. \/ Len(disk) > OffsetPosition \/ Len(disk) = OffsetPosition
            \/ Len(disk) < OffsetPosition
        BY <1>b DEF OffsetPosition
      <4> QED
        BY <4>2, <4>3, <4>4, <4>5
    <3>4. CASE item.at # Len(disk)
      <4>1. /\ Len(disk') = Len(disk)
            /\ \A i \in 1 .. Len(disk) : disk'[i] = IF i = item.at + 1 THEN item.cell ELSE disk[i]
        BY <2>1, <3>1, <3>4, SeqExceptIs
      <4> QED
        <5> SUFFICES ASSUME Len(disk) > OffsetPosition
                     PROVE  disk'[OffsetPosition + 1] = OffsetCell(0)
          BY <4>1
        <5>1. OffsetPosition + 1 \in 1 .. Len(disk)
          BY <1>b DEF OffsetPosition
        <5>2. OffsetPosition + 1 = item.at + 1 <=> item.at = OffsetPosition
          BY <2>1 DEF OffsetPosition
        <5> QED
          BY <2>2, <3>2, <4>1, <5>1, <5>2
    <3> QED
      BY <3>3, <3>4
  <2> QED
    BY <2>1, <2>3, <2>4 DEF NoOffsetYet
<1>2. CASE WriteCell
  <2> DEFINE item == [at |-> pos, cell |-> Head(out)]
  <2>1. out # <<>> /\ good /\ pending' = Append(pending, item) /\ disk' = disk
    BY <1>2 DEF WriteCell
  <2>2. wpc \in {"header", "payload"} /\ HeaderComes /\ pos \in Nat
    BY <2>1 DEF FileInv, Control, BeforeFooter, TypeOK, FileTypes
  <2>3. pos = OffsetPosition => Head(out) = OffsetCell(0)
    <3> SUFFICES ASSUME pos = OffsetPosition PROVE Head(out) = OffsetCell(0)
      OBVIOUS
    <3>1. wpc = "header" /\ out = Rest(Header, OffsetPosition)
      BY <2>2 DEF HeaderComes, OffsetPosition, HeaderSize
    <3>2. OffsetPosition \in 0 .. Len(Header) /\ OffsetPosition < Len(Header)
      BY HeaderIs DEF OffsetPosition, HeaderSize
    <3> QED
      BY <3>1, <3>2, HeaderIs, RestIs
  <2>4. /\ DOMAIN pending' = 1 .. Len(pending) + 1 /\ pending'[Len(pending) + 1] = item
        /\ \A i \in 1 .. Len(pending) : pending'[i] = pending[i]
    <3> DEFINE Item == [at : Nat, cell : Cell]
    <3>1. pending \in Seq(Item)
      BY <1>a DEF FileTypes
    <3>2. Head(out) \in Cell
      BY <1>a, <2>1 DEF FileTypes
    <3>3. item \in Item
      BY <2>2, <3>2
    <3> HIDE DEF Item, item
    <3> QED
      BY <2>1, <3>1, <3>3, AppendIs
  <2>5. item.at = pos /\ item.cell = Head(out)
    OBVIOUS
  <2> HIDE DEF item
  <2>6. \A i \in DOMAIN pending' :
            pending'[i].at = OffsetPosition => pending'[i].cell = OffsetCell(0)
    <3> SUFFICES ASSUME NEW i \in 1 .. Len(pending) + 1, pending'[i].at = OffsetPosition
                 PROVE  pending'[i].cell = OffsetCell(0)
      BY <2>4
    <3>1. CASE i = Len(pending) + 1
      BY <2>3, <2>4, <2>5, <3>1
    <3>2. CASE i # Len(pending) + 1
      <4>1. i \in 1 .. Len(pending)
        BY <1>b, <3>2
      <4> QED
        BY <1>a, <1>b, <2>4, <4>1 DEF NoOffsetYet
    <3> QED
      BY <3>1, <3>2
  <2> QED
    BY <1>a, <2>1, <2>6 DEF NoOffsetYet
<1>3. CASE ~Drain /\ ~WriteCell
  <2>1. disk' = disk /\ (pending' = pending \/ pending' = <<>>)
    BY <1>3
       DEF WriterNext, DeviceFails, Open, RecordRowGroup, SeekFooter, SeekHeader,
           HeaderWritten, WriteAfterFinalize, EncodeThrows, EncodeColumns, Finalize,
           StartFinalize, MakeBatchMeta,
           OffsetWritten, FooterWritten, Flushed, FlushFails, Finalized, Catch, Destroy,
           Close, Killed, streamVars, metaVars
  <2>2. \A i \in DOMAIN <<>> : FALSE
    OBVIOUS
  <2> QED
    BY <1>a, <2>1, <2>2 DEF NoOffsetYet
<1> QED
  BY <1>1, <1>2, <1>3

\* The batches recorded land if what is below the put position does.
LEMMA RecordedKept ==
    ASSUME FileInv, UNCHANGED <<row_groups, stored>>, RecordedLand,
           pos' \in Nat, pos' >= pos,
           \A r \in Nat : \A cell : r < pos /\ Lands(r, cell) => Lands(r, cell)'
    PROVE  RecordedLand'
<1> SUFFICES ASSUME NEW i \in DOMAIN row_groups
             PROVE  /\ row_groups[i].start + Len(Payload(stored[i])) <= pos'
                    /\ PayloadLands(stored[i], row_groups[i].start, Len(Payload(stored[i])))'
  BY DEF RecordedLand
<1>1. ASSUME NEW b, NEW p, NEW n,
             b = stored[i], p = row_groups[i].start, n = Len(Payload(b))
      PROVE  p + n <= pos' /\ PayloadLands(b, p, n)'
  <2>1. b \in Batch /\ p \in Nat /\ pos \in Nat
    BY <1>1, Types DEF FileInv
  <2>2. Width(b) > 0
    BY <1>1 DEF FileInv, MetadataHolds, Describes
  <2>3. n \in Nat
    BY <1>1, <2>1, <2>2, PayloadIs
  <2>4. p + n <= pos /\ PayloadLands(b, p, n)
    BY <1>1 DEF RecordedLand
  <2>5. PayloadLands(b, p, n)'
    BY <2>1, <2>3, <2>4, PayloadKept
  <2> QED
    BY <2>1, <2>3, <2>4, <2>5
<1> QED
  BY <1>1

\* The batch that is being written, before and after a step that moves nothing.
LEMMA UnderWayKept ==
    ASSUME FileInv, wpc = "payload", BatchUnderWay, UNCHANGED <<group, batch>>,
           \A r \in Nat : \A cell : r < pos /\ Lands(r, cell) => Lands(r, cell)'
    PROVE  /\ group.start \in Nat /\ pos - group.start \in 0 .. Len(Payload(batch))
           /\ Payload(batch) \in Seq(Cell)
           /\ out = Rest(Payload(batch), pos - group.start)
           /\ \A b, p, n : b = batch /\ p = group.start /\ n = pos - group.start =>
                  PayloadLands(b, p, n)'
<1>1. /\ batch \in Batch /\ Width(batch) > 0 /\ group.start \in Nat /\ pos \in Nat
  BY Types DEF FileInv, TypeOK, FileTypes, MetadataHolds
<1>2. Payload(batch) \in Seq(Cell) /\ Len(Payload(batch)) \in Nat
  BY <1>1, PayloadIs
<1>3. /\ pos \in group.start .. group.start + Len(Payload(batch))
      /\ out = Rest(Payload(batch), pos - group.start)
      /\ PayloadLands(batch, group.start, pos - group.start)
  BY DEF BatchUnderWay
<1>4. pos - group.start \in 0 .. Len(Payload(batch))
  BY <1>1, <1>2, <1>3
<1>5. ASSUME NEW b, NEW p, NEW n, b = batch, p = group.start, n = pos - group.start
      PROVE  PayloadLands(b, p, n)'
  <2>1. p \in Nat /\ n \in Nat /\ p + n <= pos /\ pos \in Nat
    BY <1>1, <1>4, <1>5
  <2>2. PayloadLands(b, p, n)
    BY <1>3, <1>5
  <2> QED
    BY <2>1, <2>2, PayloadKept
<1> QED
  BY <1>1, <1>2, <1>3, <1>4, <1>5

Growing == Appending /\ HeaderComes /\ RecordedLand /\ BatchUnderWay

\* The file grows by what drains.
LEMMA DrainGrows ==
    ASSUME FileInv, Growing, Drain
    PROVE  Growing'
<1>a. FileTypes /\ pos \in Nat
  BY DEF FileInv, TypeOK, FileTypes
<1>1. /\ Appending'
      /\ \A r \in Nat : \A cell : r < pos /\ Lands(r, cell) => Lands(r, cell)'
  BY <1>a, DrainLands DEF Growing
<1>2. UNCHANGED <<wpc, pos, out, batch, group, row_groups, stored>>
  BY DEF Drain, metaVars
<1>3. HeaderComes'
  BY <1>2 DEF Growing, HeaderComes
<1>4. RecordedLand'
  <2>1. pos' \in Nat /\ pos' >= pos
    BY <1>a, <1>2
  <2> QED
    BY <1>1, <1>2, <2>1, RecordedKept DEF Growing
<1>5. BatchUnderWay'
  <2>1. CASE wpc = "payload"
    BY <1>1, <1>2, <2>1, UnderWayKept DEF Growing, BatchUnderWay
  <2>2. CASE wpc # "payload"
    BY <1>2, <2>2 DEF Growing, BatchUnderWay
  <2> QED
    BY <2>1, <2>2
<1> QED
  BY <1>1, <1>3, <1>4, <1>5 DEF Growing

\* The file grows by the cell written, which the running routine had still to
\* write.
LEMMA WriteGrows ==
    ASSUME FileInv, ~FooterPlaced, Growing, WriteCell
    PROVE  Growing'
<1>a. FileTypes /\ pos \in Nat /\ out \in Seq(Cell)
  BY DEF FileInv, TypeOK, FileTypes
<1>1. /\ Appending'
      /\ \A p, cell : p = pos /\ cell = Head(out) => Lands(p, cell)'
      /\ \A r \in Nat : \A cell : r < pos /\ Lands(r, cell) => Lands(r, cell)'
  BY <1>a, WriteLands DEF Growing
<1>2. /\ UNCHANGED <<wpc, batch, group, row_groups, stored>>
      /\ pos' = pos + 1 /\ out' = Tail(out) /\ out # <<>> /\ good
  BY DEF WriteCell, metaVars
<1>3. wpc \in {"header", "payload"}
  BY <1>2 DEF FileInv, Control
<1>4. RecordedLand'
  <2>1. pos' \in Nat /\ pos' >= pos
    BY <1>a, <1>2
  <2> QED
    BY <1>1, <1>2, <2>1, RecordedKept DEF Growing
<1>5. CASE wpc = "header"
  <2>1. pos <= HeaderSize /\ out = Rest(Header, pos) /\ row_groups = <<>>
    BY <1>5 DEF Growing, HeaderComes
  <2>2. pos \in 0 .. Len(Header)
    BY <1>a, <2>1, HeaderIs DEF HeaderSize
  <2>3. pos < Len(Header) /\ out' = Rest(Header, pos')
    BY <1>a, <1>2, <2>1, <2>2, HeaderIs, RestIs
  <2>4. pos' <= HeaderSize
    BY <1>a, <1>2, <2>3, HeaderIs DEF HeaderSize
  <2>5. HeaderComes'
    BY <1>2, <1>5, <2>1, <2>3, <2>4 DEF HeaderComes
  <2>6. BatchUnderWay'
    BY <1>2, <1>5 DEF BatchUnderWay
  <2> QED
    BY <1>1, <1>4, <2>5, <2>6 DEF Growing
<1>6. CASE wpc = "payload"
  <2>1. pos >= HeaderSize
    BY <1>6 DEF Growing, HeaderComes
  <2>2. HeaderComes'
    BY <1>a, <1>2, <1>6, <2>1 DEF HeaderComes, HeaderSize
  <2>3. /\ group.start \in Nat /\ pos - group.start \in 0 .. Len(Payload(batch))
        /\ Payload(batch) \in Seq(Cell)
        /\ out = Rest(Payload(batch), pos - group.start)
        /\ \A b, p, n : b = batch /\ p = group.start /\ n = pos - group.start =>
               PayloadLands(b, p, n)'
    BY <1>1, <1>2, <1>6, UnderWayKept DEF Growing
  <2> DEFINE n == pos - group.start
             len == Len(Payload(batch))
  <2>4. /\ len \in Nat /\ n \in Nat /\ n < len /\ pos = group.start + n
        /\ Head(out) = Payload(batch)[n + 1]
        /\ out' = Rest(Payload(batch), n + 1)
    <3>1. len \in Nat /\ n \in Nat /\ n \in 0 .. len /\ pos = group.start + n
      BY <1>a, <2>3
    <3>2. n # len
      BY <1>2, <2>3, RestIs
    <3>3. n < len
      BY <3>1, <3>2
    <3> QED
      BY <1>2, <2>3, <3>1, <3>3, RestIs
  <2>5. /\ pos' \in group.start .. group.start + len
        /\ pos' - group.start = n + 1
    <3>1. group.start \in Nat
      BY <2>3
    <3> HIDE DEF n, len
    <3> QED
      BY <1>2, <2>4, <3>1
  <2>6. ASSUME NEW b, NEW p, NEW j, NEW m,
               b = batch, p = group.start, j = n, m = n + 1
        PROVE  PayloadLands(b, p, m)'
    <3> SUFFICES ASSUME NEW k \in 1 .. m PROVE Lands(p + k - 1, Payload(b)[k])'
      BY DEF PayloadLands
    <3>1. CASE k = m
      <4>1. p + k - 1 = pos /\ Payload(b)[k] = Head(out)
        BY <2>3, <2>4, <2>6, <3>1
      <4> QED
        BY <1>1, <4>1
    <3>2. CASE k # m
      <4>1. k \in 1 .. j
        BY <2>4, <2>6, <3>2
      <4>2. PayloadLands(b, p, j)'
        BY <2>3, <2>6
      <4> QED
        BY <4>1, <4>2 DEF PayloadLands
    <3> QED
      BY <3>1, <3>2
  <2>7. BatchUnderWay'
    BY <1>2, <1>6, <2>4, <2>5, <2>6 DEF BatchUnderWay
  <2> QED
    BY <1>1, <1>4, <2>2, <2>7 DEF Growing
<1> QED
  BY <1>3, <1>5, <1>6

\* The steps between two batches, and those that end one.
LEMMA StillGrows ==
    ASSUME FileInv, Growing, UNCHANGED <<disk, pending, pos, row_groups, stored>>,
           wpc' \notin {"closed", "header", "encode", "payload"}, pos >= HeaderSize
    PROVE  Growing'
<1>1. Appending' /\ HeaderComes' /\ BatchUnderWay'
  BY DEF Growing, Appending, HeaderComes, BatchUnderWay
<1>2. \A b, p, n : PayloadLands(b, p, n)' = PayloadLands(b, p, n)
  BY LandsSame DEF PayloadLands
<1>3. RecordedLand'
  BY <1>2 DEF Growing, RecordedLand
<1> QED
  BY <1>1, <1>3 DEF Growing

\* A batch is recorded when all of its payload lands.
LEMMA RecordGrows ==
    ASSUME FileInv, Growing, RecordRowGroup
    PROVE  Growing'
<1> DEFINE m == [group EXCEPT !.batch_size = BatchSize(group)]
           n == Len(row_groups)
<1>1. /\ wpc = "payload" /\ out = <<>> /\ wpc' = "idle" /\ batch \in Batch
      /\ m \in RowGroupMeta /\ m.start = group.start
      /\ row_groups' = Append(row_groups, m) /\ stored' = Append(stored, batch)
      /\ UNCHANGED <<disk, pending, pos>>
  BY Records DEF streamVars
<1>2. /\ row_groups \in Seq(RowGroupMeta) /\ stored \in Seq(Batch) /\ Len(stored) = n
      /\ n \in Nat /\ DOMAIN row_groups = 1 .. n /\ pos \in Nat
  BY Types DEF FileInv, TypeOK, FileTypes
<1> HIDE DEF m, n
<1>3. /\ DOMAIN row_groups' = 1 .. n + 1
      /\ row_groups'[n + 1] = m /\ stored'[n + 1] = batch
      /\ \A i \in 1 .. n : row_groups'[i] = row_groups[i] /\ stored'[i] = stored[i]
  BY <1>1, <1>2 DEF n
<1>4. Appending' /\ BatchUnderWay' /\ HeaderComes'
  BY <1>1 DEF Growing, Appending, HeaderComes, BatchUnderWay
<1>5. \A b, p, k : PayloadLands(b, p, k)' = PayloadLands(b, p, k)
  BY <1>1, LandsSame DEF PayloadLands
<1>6. /\ group.start + Len(Payload(batch)) = pos
      /\ PayloadLands(batch, group.start, Len(Payload(batch)))
  <2>1. /\ group.start \in Nat /\ pos - group.start \in 0 .. Len(Payload(batch))
        /\ Payload(batch) \in Seq(Cell)
    <3>1. /\ group.start \in Nat /\ batch \in Batch /\ Width(batch) > 0
          /\ pos \in group.start .. group.start + Len(Payload(batch))
      BY <1>1, Types DEF FileInv, Growing, BatchUnderWay, MetadataHolds
    <3>2. Payload(batch) \in Seq(Cell) /\ Len(Payload(batch)) \in Nat
      BY <3>1, PayloadIs
    <3> QED
      BY <1>2, <3>1, <3>2
  <2>2. /\ out = Rest(Payload(batch), pos - group.start)
        /\ PayloadLands(batch, group.start, pos - group.start)
    BY <1>1 DEF Growing, BatchUnderWay
  <2>3. pos - group.start = Len(Payload(batch))
    BY <1>1, <2>1, <2>2, RestIs
  <2> QED
    BY <1>2, <2>1, <2>2, <2>3
<1>7. RecordedLand'
  <2> SUFFICES ASSUME NEW i \in 1 .. n + 1
               PROVE  /\ row_groups'[i].start + Len(Payload(stored'[i])) <= pos'
                      /\ PayloadLands(stored[i], row_groups[i].start,
                                      Len(Payload(stored[i])))'
    BY <1>3 DEF RecordedLand
  <2>1. CASE i = n + 1
    <3>1. /\ stored'[i] = batch /\ row_groups'[i].start = group.start
      BY <1>1, <1>3, <2>1
    <3>2. group.start + Len(Payload(batch)) <= pos'
      BY <1>1, <1>2, <1>6
    <3>3. PayloadLands(stored'[i], row_groups'[i].start, Len(Payload(stored'[i])))
      BY <1>6, <3>1
    <3> QED
      BY <1>5, <3>1, <3>2, <3>3
  <2>2. CASE i # n + 1
    <3>1. i \in 1 .. n
      BY <1>2, <2>2
    <3>2. row_groups'[i] = row_groups[i] /\ stored'[i] = stored[i]
      BY <1>3, <3>1
    <3>3. /\ row_groups[i].start + Len(Payload(stored[i])) <= pos
          /\ PayloadLands(stored[i], row_groups[i].start, Len(Payload(stored[i])))
      BY <1>2, <3>1 DEF Growing, RecordedLand
    <3> QED
      BY <1>1, <1>5, <3>2, <3>3
  <2> QED
    BY <2>1, <2>2
<1> QED
  BY <1>4, <1>7 DEF Growing

\* The part of the invariant about the file without a footer.
LEMMA BeforeFooterKept ==
    ASSUME FileInv, WriterNext
    PROVE  BeforeFooter'
<1>1. SUFFICES ASSUME ~FooterPlaced' PROVE BeforeFooter'
  BY DEF BeforeFooter
<1>2. ~FooterPlaced /\ ~SeekHeader
  <2>1. ~SeekHeader
    BY <1>1, Places
  <2>2. CASE \E b \in Batch : MakeBatchMeta(b)
    BY <1>1, <2>1, <2>2, Begins DEF FileInv, TypeOK, FileTypes
  <2>3. CASE \/ Drain \/ WriteCell \/ DeviceFails \/ Open \/ EncodeColumns
             \/ RecordRowGroup \/ SeekFooter \/ Moves
    BY <1>1, <2>1, <2>3, PlacedStays
  <2> QED
    BY <2>1, <2>2, <2>3 DEF WriterNext, Moves
<1>3. NoOffsetYet'
  BY <1>2, NoOffsetKept
<1>4. SUFFICES ASSUME good', wpc' # "killed" PROVE Growing'
  BY <1>3 DEF BeforeFooter, Growing
<1>5. Control
  BY DEF FileInv
<1>6. ASSUME good, wpc # "killed" PROVE Growing /\ (wpc \notin {"closed", "header"} => pos >= HeaderSize)
  BY <1>2, <1>6 DEF FileInv, BeforeFooter, Growing, HeaderComes
<1>7. CASE Drain
  BY <1>4, <1>5, <1>6, <1>7, DrainGrows DEF Drain, Control
<1>8. CASE WriteCell
  BY <1>2, <1>4, <1>5, <1>6, <1>8, WriteGrows DEF WriteCell, Control
<1>9. CASE Open
  <2>1. /\ wpc = "closed" /\ wpc' = "header" /\ out' = Header /\ good
        /\ UNCHANGED <<disk, pending, pos, row_groups, stored, good>>
    BY <1>5, <1>9 DEF Open, Control, metaVars
  <2>2. Appending /\ HeaderComes /\ RecordedLand
    BY <1>6, <2>1 DEF Growing
  <2>3. pos = 0 /\ row_groups = <<>>
    BY <2>1, <2>2 DEF HeaderComes
  <2>4. out' = Rest(Header, pos')
    BY <2>1, <2>3, HeaderIs, RestOfAll
  <2>5. Appending' /\ HeaderComes' /\ BatchUnderWay'
    BY <2>1, <2>2, <2>3, <2>4 DEF Appending, HeaderComes, BatchUnderWay, HeaderSize
  <2>6. RecordedLand'
    BY <2>1, <2>3 DEF RecordedLand
  <2> QED
    BY <2>5, <2>6 DEF Growing
<1>10. CASE HeaderWritten
  <2>1. /\ wpc = "header" /\ out = <<>> /\ wpc' = "idle"
        /\ UNCHANGED <<disk, pending, pos, row_groups, stored, good>>
    BY <1>10 DEF HeaderWritten, metaVars, streamVars
  <2>2. Growing /\ pos <= HeaderSize /\ out = Rest(Header, pos) /\ pos \in Nat
    BY <1>4, <1>6, <2>1 DEF Growing, HeaderComes, FileInv, TypeOK, FileTypes
  <2>3. pos >= HeaderSize
    <3>1. pos \in 0 .. Len(Header)
      BY <2>2, HeaderIs DEF HeaderSize
    <3> QED
      BY <2>1, <2>2, <3>1, HeaderIs, RestIs DEF HeaderSize
  <2> QED
    BY <2>1, <2>2, <2>3, StillGrows
<1>11. ASSUME NEW b \in Batch, MakeBatchMeta(b) PROVE Growing'
  <2>1. /\ good /\ wpc = "idle" /\ wpc' = "encode" /\ pos >= HeaderSize
        /\ group' = [NoGroup EXCEPT !.batch_id = cur_batch, !.row_num = Rows[b], !.start = pos]
        /\ UNCHANGED <<disk, pending, pos, row_groups, stored, good>>
    BY <1>4, <1>11, Begins DEF MakeBatchMeta
  <2>2. Growing
    BY <1>6, <2>1
  <2>3. group'.start = pos
    BY <2>1 DEF NoGroup
  <2>4. \A c, p, n : PayloadLands(c, p, n)' = PayloadLands(c, p, n)
    BY <2>1, LandsSame DEF PayloadLands
  <2>5. Appending' /\ HeaderComes' /\ BatchUnderWay'
    BY <2>1, <2>2, <2>3 DEF Growing, Appending, HeaderComes, BatchUnderWay
  <2>6. RecordedLand'
    BY <2>1, <2>2, <2>4 DEF Growing, RecordedLand
  <2> QED
    BY <2>5, <2>6 DEF Growing
<1>12. CASE EncodeColumns
  <2>1. /\ wpc = "encode" /\ wpc' = "payload" /\ out' = Payload(batch)
        /\ group' = [group EXCEPT !.columns = ColumnInfos(batch)]
        /\ UNCHANGED <<disk, pending, pos, row_groups, stored, good, batch>>
    BY <1>12 DEF EncodeColumns, metaVars
  <2>2. /\ Growing /\ group.start = pos /\ pos \in Nat /\ pos >= HeaderSize
        /\ batch \in Batch /\ Width(batch) > 0
    BY <1>4, <1>6, <2>1
       DEF Growing, BatchUnderWay, FileInv, TypeOK, FileTypes, MetadataHolds
  <2>3. group'.start = pos
    BY <2>1, <2>2 DEF FileInv, TypeOK, FileTypes, RowGroupMeta
  <2>4. \A c, p, n : PayloadLands(c, p, n)' = PayloadLands(c, p, n)
    BY <2>1, LandsSame DEF PayloadLands
  <2>5. Payload(batch) \in Seq(Cell) /\ Len(Payload(batch)) \in Nat
    BY <2>2, PayloadIs
  <2>6. out' = Rest(Payload(batch), 0)
    BY <2>1, <2>5, RestOfAll
  <2>7. pos' \in group'.start .. group'.start + Len(Payload(batch)) /\ pos' - group'.start = 0
    BY <2>1, <2>2, <2>3, <2>5
  <2>8. \A c, p, n : n = 0 => PayloadLands(c, p, n)'
    BY DEF PayloadLands
  <2>9. BatchUnderWay'
    BY <2>1, <2>6, <2>7, <2>8 DEF BatchUnderWay
  <2>10. Appending' /\ HeaderComes'
    BY <2>1, <2>2 DEF Growing, Appending, HeaderComes
  <2>11. RecordedLand'
    BY <2>1, <2>2, <2>4 DEF Growing, RecordedLand
  <2> QED
    BY <2>9, <2>10, <2>11 DEF Growing
<1>13. CASE RecordRowGroup
  BY <1>4, <1>6, <1>13, RecordGrows DEF RecordRowGroup, streamVars
<1>14. CASE EncodeThrows \/ Finalize \/ Catch \/ Destroy
  <2>1. /\ wpc \in {"encode", "idle", "threw"} /\ good
        /\ wpc' \notin {"closed", "header", "encode", "payload"}
        /\ UNCHANGED <<disk, pending, pos, row_groups, stored>>
    BY <1>4, <1>14
       DEF EncodeThrows, Finalize, StartFinalize, Catch, Destroy, Throw, streamVars, metaVars
  <2> QED
    BY <1>6, <2>1, StillGrows
<1>15. CASE \/ DeviceFails \/ WriteAfterFinalize \/ OffsetWritten \/ SeekFooter
            \/ FooterWritten \/ Flushed \/ FlushFails \/ Close \/ Killed
  BY <1>2, <1>4, <1>5, <1>15
     DEF DeviceFails, WriteAfterFinalize, OffsetWritten, SeekFooter, FooterWritten,
         Flushed, FlushFails, Close, Killed, Control
<1> QED
  BY <1>2, <1>7, <1>8, <1>9, <1>10, <1>11, <1>12, <1>13, <1>14, <1>15 DEF WriterNext

-----------------------------------------------------------------------------
(* From SeekHeader on.                                                       *)

\* The footer is of the metadata as they are when it is placed.
LEMMA Settled ==
    ASSUME FileInv, FooterPlaced, WriterNext
    PROVE  /\ FooterPlaced' /\ Footer' = Footer
           /\ UNCHANGED <<group, row_groups, row_count, stored>>
<1>1. ~SeekHeader /\ ~Open /\ ~EncodeColumns /\ ~RecordRowGroup /\ ~HeaderWritten /\ ~EncodeThrows
  BY Places DEF FileInv, Control, Open, EncodeColumns, RecordRowGroup, HeaderWritten, EncodeThrows
<1>2. CASE \E b \in Batch : MakeBatchMeta(b)
  <2>1. UNCHANGED <<group, row_groups, row_count, stored>> /\ FooterPlaced'
    BY <1>2, Begins DEF MakeBatchMeta, FileInv, TypeOK, FileTypes
  <2> QED
    BY <2>1 DEF Footer
<1>3. CASE Drain \/ WriteCell \/ DeviceFails \/ SeekFooter \/ Moves
  <2>1. UNCHANGED <<group, row_groups, row_count, stored>>
    BY <1>3
       DEF Drain, WriteCell, DeviceFails, SeekFooter, Moves,
           HeaderWritten, WriteAfterFinalize, EncodeThrows, Finalize, StartFinalize,
           OffsetWritten, FooterWritten, Flushed, FlushFails, Finalized, Catch, Destroy,
           Close, Killed, metaVars
  <2>2. FooterPlaced'
    BY <1>3, PlacedStays
  <2> QED
    BY <2>1, <2>2 DEF Footer
<1> QED
  BY <1>1, <1>2, <1>3 DEF WriterNext, Moves

OffsetDrains ==
    /\ wpc \in {"offset", "seek_footer"} /\ (wpc = "offset" => out = <<>>)
    /\ Present = 0
    /\ pending' = <<>>
    /\ Len(disk') = Len(disk)
    /\ disk'[OffsetPosition + 1] = OffsetCell(group.start)
    /\ \A i \in 1 .. Len(disk) : i # OffsetPosition + 1 => disk'[i] = disk[i]

FooterDrains ==
    /\ wpc \in {"footer", "flush"}
    /\ disk[OffsetPosition + 1] = OffsetCell(group.start)
    /\ Present + 1 <= Len(Footer)
    /\ Len(disk') = Len(disk) + 1
    /\ disk'[Len(disk) + 1] = Footer[Present + 1]
    /\ \A i \in 1 .. Len(disk) : disk'[i] = disk[i]
    /\ Appending'
    /\ \A i \in DOMAIN pending' : pending'[i].cell = Footer[Present + 1 + i]

\* Once the footer is placed, what drains is its offset or its next cell.
LEMMA DrainsAfter ==
    ASSUME FileInv, FooterPlaced, Drain
    PROVE  OffsetDrains \/ FooterDrains
<1>a. /\ good /\ pending # <<>> /\ AfterFooter /\ Control /\ FileTypes
      /\ disk \in Seq(Cell)
  BY DEF Drain, FileInv, TypeOK, FileTypes
<1>b. /\ Len(disk) \in Nat /\ Len(pending) \in Nat /\ group.start \in Nat /\ pos \in Nat
      /\ DOMAIN pending = 1 .. Len(pending)
  BY Types DEF FileInv
<1>c. group.start >= HeaderSize /\ Present \in 0 .. Len(Footer) /\ Len(Footer) \in Nat
  <2>1. group.start >= HeaderSize /\ Present \in 0 .. Len(Footer)
    BY <1>a DEF AfterFooter, FooterPresent
  <2> QED
    BY <2>1, FooterIs DEF FileInv
<1>d. \/ wpc \in {"footer", "flush"} \/ wpc = "seek_footer" \/ (wpc = "offset" /\ out = <<>>)
  BY <1>a DEF AfterFooter, Control, OffsetUnderWay, FooterUnderWay
<1>1. CASE wpc = "seek_footer" \/ (wpc = "offset" /\ out = <<>>)
  <2>1. pending = <<[at |-> OffsetPosition, cell |-> OffsetCell(group.start)]>> /\ Present = 0
    BY <1>a, <1>1 DEF AfterFooter, OffsetUnderWay, OffsetOnTheWay
  <2>2. Len(disk) = group.start /\ OffsetPosition + 1 \in 1 .. Len(disk) /\ OffsetPosition # Len(disk)
    <3>1. Present = 0
      BY <2>1
    <3>2. Len(disk) = group.start
      BY <1>b, <3>1 DEF Present
    <3> QED
      BY <1>b, <1>c, <3>2 DEF HeaderSize, OffsetPosition
  <2>3. pending' = <<>> /\ Head(pending).at = OffsetPosition
        /\ Head(pending).cell = OffsetCell(group.start)
    BY <2>1 DEF Drain
  <2>4. disk' = [disk EXCEPT ![OffsetPosition + 1] = OffsetCell(group.start)]
    BY <2>2, <2>3 DEF Drain
  <2>5. OffsetCell(group.start) \in Cell
    BY <1>b DEF OffsetCell, Cell
  <2>6. /\ Len(disk') = Len(disk)
        /\ \A i \in 1 .. Len(disk) : disk'[i] = IF i = OffsetPosition + 1
                                                THEN OffsetCell(group.start) ELSE disk[i]
    BY <1>a, <2>2, <2>4, <2>5, SeqExceptIs
  <2> QED
    BY <1>1, <2>1, <2>2, <2>3, <2>6 DEF OffsetDrains
<1>2. CASE wpc \in {"footer", "flush"}
  <2>1. /\ disk[OffsetPosition + 1] = OffsetCell(group.start) /\ Appending
        /\ \A i \in DOMAIN pending : pending[i].cell = Footer[Present + i]
        /\ pos <= group.start + Len(Footer)
    BY <1>2, <1>a DEF AfterFooter, FooterUnderWay
  <2>2. /\ disk' = Append(disk, pending[1].cell) /\ pending[1].cell \in Cell /\ Appending'
        /\ Len(pending) >= 1 /\ DOMAIN pending' = 1 .. Len(pending) - 1
        /\ \A i \in 1 .. Len(pending) - 1 : pending'[i] = pending[i + 1]
    BY <1>a, <2>1, DrainLands, PendingTail
  <2>3. pos = Len(disk) + Len(pending)
    BY <2>1 DEF Appending
  <2>4. Present + 1 <= Len(Footer)
    BY <1>b, <1>c, <2>1, <2>2, <2>3 DEF Present
  <2>5. /\ Len(disk') = Len(disk) + 1 /\ disk'[Len(disk) + 1] = pending[1].cell
        /\ \A i \in 1 .. Len(disk) : disk'[i] = disk[i]
    BY <1>a, <2>2, AppendIs
  <2>6. pending[1].cell = Footer[Present + 1]
    BY <1>b, <2>1, <2>2
  <2>7. \A i \in DOMAIN pending' : pending'[i].cell = Footer[Present + 1 + i]
    <3> SUFFICES ASSUME NEW i \in 1 .. Len(pending) - 1
                 PROVE  pending'[i].cell = Footer[Present + 1 + i]
      BY <2>2
    <3>1. i + 1 \in DOMAIN pending /\ Present + (i + 1) = Present + 1 + i
      BY <1>b, <1>c
    <3> QED
      BY <2>1, <2>2, <3>1
  <2> QED
    BY <1>2, <2>1, <2>2, <2>4, <2>5, <2>6, <2>7 DEF FooterDrains
<1> QED
  BY <1>d, <1>1, <1>2

\* What is on the disk below the footer, and of the footer, stays there.
LEMMA DrainKeepsDisk ==
    ASSUME FileInv, FooterPlaced, Drain
    PROVE  FooterPresent' /\ RecordedOnDisk'
<1>b. /\ FooterPresent /\ RecordedOnDisk /\ (OffsetDrains \/ FooterDrains)
      /\ Footer' = Footer /\ UNCHANGED <<group, row_groups, stored>>
  BY DrainsAfter, Settled DEF FileInv, AfterFooter, WriterNext
<1>c. /\ Len(disk) \in Nat /\ group.start \in Nat /\ group.start >= 2
      /\ Present \in 0 .. Len(Footer) /\ Len(Footer) \in Nat
      /\ Len(disk) = group.start + Present
      /\ OffsetPosition + 1 = 2
  <2>1. group.start >= 2 /\ Present \in 0 .. Len(Footer)
    BY <1>b DEF FooterPresent, HeaderSize
  <2>2. Len(disk) \in Nat /\ group.start \in Nat /\ Len(Footer) \in Nat
    BY Types, FooterIs DEF FileInv
  <2>3. Len(disk) = group.start + Present
    BY <2>2 DEF Present
  <2> QED
    BY <2>1, <2>2, <2>3 DEF OffsetPosition
<1>1. \A i \in 1 .. Len(disk) : i # 2 => disk'[i] = disk[i]
  BY <1>b, <1>c DEF OffsetDrains, FooterDrains
<1>2. \A k \in 1 .. Present : disk'[group.start + k] = Footer[k]
  <2> SUFFICES ASSUME NEW k \in 1 .. Present PROVE disk'[group.start + k] = Footer[k]
    OBVIOUS
  <2>1. group.start + k \in 1 .. Len(disk) /\ group.start + k # 2
    BY <1>c
  <2>2. disk[group.start + k] = Footer[k]
    BY <1>b DEF FooterPresent
  <2> QED
    BY <1>1, <2>1, <2>2
<1>3. RecordedOnDisk'
  <2> SUFFICES ASSUME NEW i \in DOMAIN row_groups
               PROVE  /\ row_groups[i].start + Len(Payload(stored[i])) <= group.start
                      /\ \A k \in 1 .. Len(Payload(stored[i])) :
                             disk'[row_groups[i].start + k] = Payload(stored[i])[k]
    BY <1>b DEF RecordedOnDisk
  <2>1. /\ row_groups[i].start + Len(Payload(stored[i])) <= group.start
        /\ \A k \in 1 .. Len(Payload(stored[i])) :
               disk[row_groups[i].start + k] = Payload(stored[i])[k]
    BY <1>b DEF RecordedOnDisk
  <2>2. Describes(row_groups[i], stored[i]) /\ stored[i] \in Batch /\ row_groups[i].start \in Nat
    BY Types DEF FileInv, MetadataHolds
  <2>3. Len(Payload(stored[i])) \in Nat /\ row_groups[i].start >= 2
    BY <2>2, PayloadIs DEF Describes, HeaderSize
  <2> DEFINE p == row_groups[i].start
             n == Len(Payload(stored[i]))
  <2>4. p \in Nat /\ n \in Nat /\ p >= 2 /\ p + n <= group.start
    BY <2>1, <2>2, <2>3
  <2> HIDE DEF p, n
  <2>5. \A k \in 1 .. n : p + k \in 1 .. Len(disk) /\ p + k # 2
    BY <1>c, <2>4
  <2>6. \A k \in 1 .. n : disk'[p + k] = disk[p + k]
    BY <1>1, <2>5
  <2> QED
    BY <2>1, <2>6 DEF p, n
<1>4. CASE OffsetDrains
  <2>1. Len(disk') = Len(disk) /\ disk'[OffsetPosition + 1] = OffsetCell(group.start)
    BY <1>4 DEF OffsetDrains
  <2>2. Present' = Present
    BY <1>b, <2>1 DEF Present
  <2>3. FooterPresent'
    BY <1>b, <1>2, <2>1, <2>2 DEF FooterPresent
  <2> QED
    BY <1>3, <2>3
<1>5. CASE FooterDrains
  <2>1. /\ Len(disk') = Len(disk) + 1 /\ disk'[Len(disk) + 1] = Footer[Present + 1]
        /\ disk[OffsetPosition + 1] = OffsetCell(group.start)
        /\ Present + 1 <= Len(Footer)
        /\ \A i \in 1 .. Len(disk) : disk'[i] = disk[i]
    BY <1>5 DEF FooterDrains
  <2>2. Present' = Present + 1
    <3>1. group' = group /\ Len(disk') = Len(disk) + 1
      BY <1>b, <2>1
    <3>2. Len(disk) \in Nat /\ group.start \in Nat
      BY <1>c
    <3> QED
      BY <3>1, <3>2 DEF Present
  <2>3. disk'[OffsetPosition + 1] = OffsetCell(group.start)
    BY <1>c, <2>1
  <2>4. \A k \in 1 .. Present + 1 : disk'[group.start + k] = Footer[k]
    <3> SUFFICES ASSUME NEW k \in 1 .. Present + 1 PROVE disk'[group.start + k] = Footer[k]
      OBVIOUS
    <3>1. CASE k = Present + 1
      <4>1. group.start + k = Len(disk) + 1
        BY <1>c, <3>1
      <4> QED
        BY <2>1, <3>1, <4>1
    <3>2. CASE k # Present + 1
      <4>1. k \in 1 .. Present
        BY <1>c, <3>2
      <4> QED
        BY <1>2, <4>1
    <3> QED
      BY <3>1, <3>2
  <2>5. Present + 1 \in 0 .. Len(Footer)
    BY <1>c, <2>1
  <2>6. FooterPresent'
    BY <1>b, <2>2, <2>3, <2>4, <2>5 DEF FooterPresent
  <2> QED
    BY <1>3, <2>6
<1> QED
  BY <1>b, <1>4, <1>5

\* Either way the file stays as the invariant describes it.
LEMMA DrainKeepsAfter ==
    ASSUME FileInv, FooterPlaced, Drain
    PROVE  AfterFooter'
<1>a. /\ FooterPresent' /\ RecordedOnDisk' /\ (OffsetDrains \/ FooterDrains)
      /\ Footer' = Footer /\ UNCHANGED <<wpc, good, pos, out, group, finalized>>
      /\ AfterFooter /\ good /\ pending # <<>>
  BY DrainKeepsDisk, DrainsAfter, Settled DEF FileInv, WriterNext, Drain, metaVars
<1>b. ~finalized
  BY <1>a DEF AfterFooter, FooterUnderWay
<1>c. Len(disk) \in Nat /\ group.start \in Nat /\ OffsetPosition + 1 \in 1 .. Len(disk)
  <2>1. group.start >= 2 /\ Present \in 0 .. Len(Footer)
    BY <1>a DEF AfterFooter, FooterPresent, HeaderSize
  <2>2. Len(disk) \in Nat /\ group.start \in Nat /\ Len(Footer) \in Nat
    BY Types, FooterIs DEF FileInv
  <2> QED
    BY <2>1, <2>2 DEF OffsetPosition, Present
<1>1. CASE OffsetDrains
  <2>1. /\ wpc \in {"offset", "seek_footer"} /\ (wpc = "offset" => out = <<>>) /\ Present = 0
        /\ pending' = <<>> /\ Len(disk') = Len(disk)
        /\ disk'[OffsetPosition + 1] = OffsetCell(group.start)
    BY <1>1 DEF OffsetDrains
  <2>2. Present' = 0
    BY <1>a, <2>1 DEF Present
  <2>3. OffsetUnderWay'
    BY <1>a, <2>1, <2>2 DEF OffsetUnderWay, OffsetOnTheWay
  <2>4. FooterUnderWay'
    BY <1>a, <1>b, <2>1 DEF FooterUnderWay
  <2> QED
    BY <1>a, <2>3, <2>4 DEF AfterFooter
<1>2. CASE FooterDrains
  <2>1. /\ wpc \in {"footer", "flush"} /\ disk[OffsetPosition + 1] = OffsetCell(group.start)
        /\ Appending' /\ Len(disk') = Len(disk) + 1
        /\ \A i \in 1 .. Len(disk) : disk'[i] = disk[i]
        /\ \A i \in DOMAIN pending' : pending'[i].cell = Footer[Present + 1 + i]
    BY <1>2 DEF FooterDrains
  <2>2. Present' = Present + 1
    BY <1>a, <1>c, <2>1 DEF Present
  <2>3. disk'[OffsetPosition + 1] = OffsetCell(group.start)
    BY <1>c, <2>1
  <2>4. OffsetUnderWay'
    BY <1>a, <2>1 DEF OffsetUnderWay
  <2>5. /\ pos \in group.start .. group.start + Len(Footer)
        /\ out = Rest(Footer, pos - group.start)
        /\ wpc = "flush" => out = <<>>
    BY <1>a, <2>1 DEF AfterFooter, FooterUnderWay
  <2>6. FooterUnderWay'
    BY <1>a, <1>b, <2>1, <2>2, <2>3, <2>5 DEF FooterUnderWay
  <2> QED
    BY <1>a, <2>4, <2>6 DEF AfterFooter
<1> QED
  BY <1>a, <1>1, <1>2

\* The steps that leave Finalize, or are no part of it.
LEMMA AfterStill ==
    ASSUME FileInv, FooterPlaced, WriterNext,
           UNCHANGED disk, pending' = pending \/ pending' = <<>>,
           wpc' \notin {"offset", "seek_footer", "footer", "flush"},
           good' /\ finalized' => good /\ finalized
    PROVE  AfterFooter'
<1>1. Footer' = Footer /\ UNCHANGED <<group, row_groups, stored>> /\ AfterFooter
  BY Settled DEF FileInv
<1>2. Present' = Present
  BY <1>1 DEF Present
<1>3. FooterPresent' /\ RecordedOnDisk'
  BY <1>1, <1>2 DEF AfterFooter, FooterPresent, RecordedOnDisk
<1>4. OffsetUnderWay' /\ FooterUnderWay'
  BY <1>1, <1>2 DEF AfterFooter, OffsetUnderWay, FooterUnderWay
<1> QED
  BY <1>3, <1>4 DEF AfterFooter

\* When the footer is placed every payload is on the disk and nothing pends.
LEMMA SeekHeaderKeepsAfter ==
    ASSUME FileInv, SeekHeader
    PROVE  AfterFooter'
<1>a. /\ ~FooterPlaced /\ good /\ ~finalized /\ pos \in Nat /\ pos >= HeaderSize
      /\ pending = <<>> /\ group'.start = pos /\ wpc' = "offset" /\ wpc = "seek_header"
      /\ out' = <<OffsetCell(pos)>> /\ pos' = OffsetPosition
      /\ UNCHANGED <<disk, pending, good, finalized, row_groups, stored>>
  BY Places DEF metaVars
<1>b. Appending /\ NoOffsetYet /\ RecordedLand
  BY <1>a DEF FileInv, BeforeFooter
<1>c. Len(disk) \in Nat /\ Len(disk) = pos
  <2>1. Len(disk) \in Nat /\ Len(pending) = 0
    BY <1>a, Types DEF FileInv
  <2> QED
    BY <1>b, <2>1 DEF Appending
<1>d. Footer' \in Seq(Cell)
  <2>1. Footer' = Footer
    BY Places DEF Footer, metaVars
  <2> QED
    BY <2>1, FooterIs DEF FileInv
<1>1. Present' = 0
  BY <1>a, <1>c DEF Present
<1>2. FooterPresent'
  <2>1. disk'[OffsetPosition + 1] = OffsetCell(0)
    BY <1>a, <1>b, <1>c DEF NoOffsetYet, OffsetPosition, HeaderSize
  <2>2. 0 \in 0 .. Len(Footer')
    BY <1>d
  <2> QED
    BY <1>a, <1>1, <2>1, <2>2 DEF FooterPresent
<1>3. RecordedOnDisk'
  <2> SUFFICES ASSUME NEW i \in DOMAIN row_groups
               PROVE  /\ row_groups[i].start + Len(Payload(stored[i])) <= pos
                      /\ \A k \in 1 .. Len(Payload(stored[i])) :
                             disk[row_groups[i].start + k] = Payload(stored[i])[k]
    BY <1>a DEF RecordedOnDisk
  <2>1. /\ row_groups[i].start + Len(Payload(stored[i])) <= pos
        /\ PayloadLands(stored[i], row_groups[i].start, Len(Payload(stored[i])))
    BY <1>b DEF RecordedLand
  <2>2. row_groups[i].start \in Nat
    BY Types DEF FileInv
  <2>3. \A p, cell : Lands(p, cell) => disk[p + 1] = cell
    <3>1. DOMAIN pending = {}
      BY <1>a
    <3> QED
      BY <3>1 DEF Lands
  <2>4. \A k \in 1 .. Len(Payload(stored[i])) :
            (row_groups[i].start + k - 1) + 1 = row_groups[i].start + k
    BY <2>2
  <2> QED
    BY <2>1, <2>3, <2>4 DEF PayloadLands
<1>4. OffsetUnderWay'
  BY <1>a, <1>1 DEF OffsetUnderWay
<1>5. FooterUnderWay'
  BY <1>a DEF FooterUnderWay
<1> QED
  BY <1>2, <1>3, <1>4, <1>5 DEF AfterFooter

\* The cell written is the offset or the next cell of the footer.
LEMMA WriteKeepsAfter ==
    ASSUME FileInv, FooterPlaced, WriteCell
    PROVE  AfterFooter'
<1>a. /\ Footer' = Footer /\ UNCHANGED <<group, row_groups, stored, disk, wpc, good, finalized>>
      /\ AfterFooter /\ FileTypes /\ good /\ out # <<>>
      /\ pos' = pos + 1 /\ out' = Tail(out)
      /\ pending' = Append(pending, [at |-> pos, cell |-> Head(out)])
  BY Settled DEF FileInv, TypeOK, WriterNext, WriteCell, metaVars
<1>b. wpc \in {"offset", "footer"} /\ ~finalized
  BY <1>a DEF FileInv, Control
<1>c. /\ Len(disk) \in Nat /\ group.start \in Nat /\ pos \in Nat /\ Len(pending) \in Nat
      /\ Footer \in Seq(Cell) /\ Len(Footer) \in Nat
  BY Types, FooterIs DEF FileInv
<1>1. Present' = Present
  BY <1>a DEF Present
<1>2. FooterPresent' /\ RecordedOnDisk'
  BY <1>a, <1>1 DEF AfterFooter, FooterPresent, RecordedOnDisk
<1>3. CASE wpc = "offset"
  <2>1. out = <<OffsetCell(group.start)>> /\ pos = OffsetPosition /\ pending = <<>> /\ Present = 0
    BY <1>a, <1>3 DEF AfterFooter, OffsetUnderWay
  <2>2. /\ pending' = <<[at |-> OffsetPosition, cell |-> OffsetCell(group.start)]>>
        /\ out' = <<>>
    BY <1>a, <2>1
  <2>3. OffsetUnderWay'
    BY <1>a, <1>1, <1>3, <2>1, <2>2 DEF OffsetUnderWay, OffsetOnTheWay
  <2>4. FooterUnderWay'
    BY <1>a, <1>b, <1>3 DEF FooterUnderWay
  <2> QED
    BY <1>2, <2>3, <2>4 DEF AfterFooter
<1>4. CASE wpc = "footer"
  <2>1. /\ disk[OffsetPosition + 1] = OffsetCell(group.start) /\ Appending
        /\ \A i \in DOMAIN pending : pending[i].cell = Footer[Present + i]
        /\ pos \in group.start .. group.start + Len(Footer)
        /\ out = Rest(Footer, pos - group.start)
    BY <1>a, <1>4 DEF AfterFooter, FooterUnderWay
  <2> DEFINE n == pos - group.start
             k == Len(pending)
  <2>2. n \in 0 .. Len(Footer) /\ n \in Nat /\ pos = group.start + n
    BY <1>c, <2>1
  <2>3. n < Len(Footer) /\ Head(out) = Footer[n + 1] /\ out' = Rest(Footer, n + 1)
    <3>1. n # Len(Footer)
      BY <1>a, <1>c, <2>1, <2>2, RestIs
    <3>2. n < Len(Footer)
      BY <1>c, <2>2, <3>1
    <3> QED
      BY <1>a, <1>c, <2>1, <2>2, <3>2, RestIs
  <2>4. n = Present + k
    BY <1>c, <2>1 DEF Appending, Present
  <2>5. Appending'
    BY <1>a, <2>1, WriteLands
  <2>6. \A i \in DOMAIN pending' : pending'[i].cell = Footer[Present + i]
    <3> DEFINE Item == [at : Nat, cell : Cell]
               item == [at |-> pos, cell |-> Head(out)]
    <3>1. pending \in Seq(Item) /\ item.cell = Head(out) /\ DOMAIN pending = 1 .. k
      BY <1>a, SeqIs DEF FileTypes
    <3>2. item \in Item
      <4>1. Head(out) \in Cell
        BY <1>a DEF FileTypes
      <4> QED
        BY <1>c, <4>1
    <3>3. pending' = Append(pending, item)
      BY <1>a
    <3> HIDE DEF Item, item
    <3>4. /\ DOMAIN pending' = 1 .. k + 1 /\ pending'[k + 1] = item
          /\ \A i \in 1 .. k : pending'[i] = pending[i]
      BY <3>1, <3>2, <3>3, AppendIs
    <3> SUFFICES ASSUME NEW i \in 1 .. k + 1 PROVE pending'[i].cell = Footer[Present + i]
      BY <3>4
    <3>5. CASE i = k + 1
      <4>1. Present + i = n + 1
        BY <1>c, <2>4, <3>5 DEF Present
      <4> QED
        BY <2>3, <3>1, <3>4, <3>5, <4>1
    <3>6. CASE i # k + 1
      <4>1. i \in 1 .. k
        BY <1>c, <3>6
      <4> QED
        BY <2>1, <3>1, <3>4, <4>1
    <3> QED
      BY <3>5, <3>6
  <2>7. pos' \in group.start .. group.start + Len(Footer) /\ pos' - group.start = n + 1
    <3>1. group.start \in Nat /\ Len(Footer) \in Nat /\ n < Len(Footer) /\ n \in Nat
      BY <1>c, <2>2, <2>3
    <3>2. pos' = group.start + n + 1
      BY <1>a, <1>c, <2>2
    <3> HIDE DEF n
    <3> QED
      BY <3>1, <3>2
  <2>8. FooterUnderWay'
    BY <1>a, <1>b, <1>1, <1>4, <2>1, <2>3, <2>5, <2>6, <2>7 DEF FooterUnderWay
  <2>9. OffsetUnderWay'
    BY <1>a, <1>4 DEF OffsetUnderWay
  <2> QED
    BY <1>2, <2>8, <2>9 DEF AfterFooter
<1> QED
  BY <1>b, <1>3, <1>4

\* The places Finalize passes while the disk is still.
LEMMA StepKeepsAfter ==
    ASSUME FileInv, FooterPlaced,
           OffsetWritten \/ SeekFooter \/ FooterWritten \/ Flushed
    PROVE  AfterFooter'
<1>a. /\ Footer' = Footer /\ UNCHANGED <<group, row_groups, stored, disk, pending, good>>
      /\ AfterFooter /\ FileTypes /\ Control
  BY Settled
     DEF FileInv, TypeOK, WriterNext, OffsetWritten, SeekFooter, FooterWritten, Flushed,
         Finalized, streamVars, metaVars
<1>c. /\ Len(disk) \in Nat /\ group.start \in Nat /\ pos \in Nat /\ Len(pending) \in Nat
      /\ Footer \in Seq(Cell) /\ Len(Footer) \in Nat
  BY Types, FooterIs DEF FileInv
<1>1. Present' = Present
  BY <1>a DEF Present
<1>2. FooterPresent' /\ RecordedOnDisk'
  BY <1>a, <1>1 DEF AfterFooter, FooterPresent, RecordedOnDisk
<1>3. CASE OffsetWritten
  <2>1. wpc = "offset" /\ out = <<>> /\ wpc' = "seek_footer" /\ ~finalized /\ finalized' = finalized
    BY <1>a, <1>3 DEF OffsetWritten, Control, metaVars
  <2>2. OffsetUnderWay' /\ FooterUnderWay'
    BY <1>a, <1>1, <2>1 DEF AfterFooter, OffsetUnderWay, OffsetOnTheWay, FooterUnderWay
  <2> QED
    BY <1>2, <2>2 DEF AfterFooter
<1>4. CASE SeekFooter
  <2>1. /\ wpc = "seek_footer" /\ pending = <<>> /\ pos' = group.start /\ out' = Footer
        /\ wpc' = "footer" /\ ~finalized /\ finalized' = finalized
    BY <1>a, <1>4 DEF SeekFooter, Control, metaVars
  <2>2. Present = 0 /\ disk[OffsetPosition + 1] = OffsetCell(group.start)
    BY <1>a, <2>1 DEF AfterFooter, OffsetUnderWay, OffsetOnTheWay
  <2>3. Len(disk) = group.start /\ Len(pending') = 0 /\ DOMAIN pending' = {}
    BY <1>a, <1>c, <2>1, <2>2 DEF Present
  <2>4. Appending'
    BY <1>a, <1>c, <2>1, <2>3 DEF Appending
  <2>5. out' = Rest(Footer, 0) /\ pos' - group.start = 0
        /\ pos' \in group.start .. group.start + Len(Footer)
    BY <1>c, <2>1, RestOfAll
  <2>6. FooterUnderWay'
    BY <1>a, <2>1, <2>2, <2>3, <2>4, <2>5 DEF FooterUnderWay
  <2>7. OffsetUnderWay'
    BY <2>1 DEF OffsetUnderWay
  <2> QED
    BY <1>2, <2>6, <2>7 DEF AfterFooter
<1>5. CASE FooterWritten
  <2>1. /\ wpc = "footer" /\ out = <<>> /\ wpc' = "flush" /\ ~finalized /\ UNCHANGED <<finalized, pos, out>>
    BY <1>a, <1>5 DEF FooterWritten, Control, metaVars, streamVars
  <2>2. OffsetUnderWay' /\ FooterUnderWay'
    BY <1>a, <1>1, <2>1 DEF AfterFooter, OffsetUnderWay, Appending, FooterUnderWay
  <2> QED
    BY <1>2, <2>2 DEF AfterFooter
<1>6. CASE Flushed
  <2>1. wpc = "flush" /\ pending = <<>> /\ wpc' \in {"closing", "idle"}
    BY <1>6 DEF Flushed, Finalized
  <2>2. /\ Appending /\ pos \in group.start .. group.start + Len(Footer)
        /\ out = Rest(Footer, pos - group.start) /\ out = <<>>
    BY <1>a, <2>1 DEF AfterFooter, FooterUnderWay
  <2>3. pos - group.start \in 0 .. Len(Footer)
    BY <1>c, <2>2
  <2>4. pos - group.start = Len(Footer)
    BY <1>c, <2>2, <2>3, RestIs
  <2>5. pos = Len(disk)
    BY <1>c, <2>1, <2>2 DEF Appending
  <2>6. Present = Len(Footer)
    BY <2>4, <2>5 DEF Present
  <2>7. FooterUnderWay' /\ OffsetUnderWay'
    BY <1>a, <1>1, <2>1, <2>6 DEF FooterUnderWay, OffsetUnderWay
  <2> QED
    BY <1>2, <2>7 DEF AfterFooter
<1> QED
  BY <1>3, <1>4, <1>5, <1>6

\* The part of the invariant about the file with a footer.
LEMMA AfterFooterKept ==
    ASSUME FileInv, WriterNext
    PROVE  AfterFooter'
<1>1. SUFFICES ASSUME FooterPlaced' PROVE AfterFooter'
  BY DEF AfterFooter
<1>a. Control /\ good \in BOOLEAN /\ finalized \in BOOLEAN
  BY DEF FileInv, TypeOK, FileTypes
<1>2. CASE SeekHeader
  BY <1>2, SeekHeaderKeepsAfter
<1>3. CASE ~SeekHeader
  <2>1. FooterPlaced
    <3>1. CASE \E b \in Batch : MakeBatchMeta(b)
      BY <1>1, <1>a, <3>1, Begins
    <3>2. CASE \/ Drain \/ WriteCell \/ DeviceFails \/ Open \/ EncodeColumns
               \/ RecordRowGroup \/ SeekFooter \/ Moves
      BY <1>1, <3>2, PlacedStays
    <3> QED
      BY <1>3, <3>1, <3>2 DEF WriterNext, Moves
  <2>2. CASE Drain
    BY <2>1, <2>2, DrainKeepsAfter
  <2>3. CASE WriteCell
    BY <2>1, <2>3, WriteKeepsAfter
  <2>4. CASE OffsetWritten \/ SeekFooter \/ FooterWritten \/ Flushed
    BY <2>1, <2>4, StepKeepsAfter
  <2>5. ASSUME NEW b \in Batch, MakeBatchMeta(b) PROVE AfterFooter'
    <3>1. ~good /\ wpc' = "threw" /\ UNCHANGED <<disk, pending, good, finalized>>
      BY <1>a, <2>1, <2>5, Begins DEF MakeBatchMeta
    <3> QED
      BY <2>1, <3>1, AfterStill
  <2>6. CASE \/ DeviceFails \/ WriteAfterFinalize \/ Finalize \/ FlushFails \/ Catch
             \/ Destroy \/ Close \/ Killed
    <3>1. /\ UNCHANGED disk /\ (pending' = pending \/ pending' = <<>>)
          /\ wpc' \notin {"offset", "seek_footer", "footer", "flush"}
          /\ (good' /\ finalized' => good /\ finalized)
      BY <1>a, <2>6
         DEF DeviceFails, WriteAfterFinalize, Finalize, StartFinalize, FlushFails,
             Finalized, Catch, Destroy, Close, Killed, Throw, streamVars, metaVars
    <3> QED
      BY <2>1, <3>1, AfterStill
  <2>7. ~(Open \/ EncodeColumns \/ RecordRowGroup \/ HeaderWritten \/ EncodeThrows)
    BY <1>a, <2>1 DEF Control, Open, EncodeColumns, RecordRowGroup, HeaderWritten, EncodeThrows
  <2> QED
    BY <1>3, <2>2, <2>3, <2>4, <2>5, <2>6, <2>7 DEF WriterNext
<1> QED
  BY <1>2, <1>3

-----------------------------------------------------------------------------
(* The reader while the writer writes.                                       *)

\* The file never shrinks, and the offset on the disk stays.
LEMMA DiskGrows ==
    ASSUME FileInv, FooterPlaced, WriterNext
    PROVE  /\ Len(disk') >= Len(disk)
           /\ disk[OffsetPosition + 1] = OffsetCell(group.start) =>
                  disk'[OffsetPosition + 1] = OffsetCell(group.start)
<1>c. Len(disk) \in Nat /\ group.start \in Nat /\ OffsetPosition + 1 \in 1 .. Len(disk)
  <2>1. group.start >= 2 /\ Present \in 0 .. Len(Footer)
    BY DEF FileInv, AfterFooter, FooterPresent, HeaderSize
  <2>2. Len(disk) \in Nat /\ group.start \in Nat /\ Len(Footer) \in Nat
    BY Types, FooterIs DEF FileInv
  <2> QED
    BY <2>1, <2>2 DEF OffsetPosition, Present
<1>1. CASE Drain
  <2>1. OffsetDrains \/ FooterDrains
    BY <1>1, DrainsAfter
  <2> QED
    BY <1>c, <2>1 DEF OffsetDrains, FooterDrains
<1>2. CASE ~Drain
  <2>1. disk' = disk
    BY <1>2
       DEF WriterNext, WriteCell, DeviceFails, Open, RecordRowGroup, SeekFooter, SeekHeader,
           HeaderWritten, WriteAfterFinalize, EncodeThrows, EncodeColumns, Finalize,
           StartFinalize, MakeBatchMeta, OffsetWritten, FooterWritten, Flushed, FlushFails,
           Finalized, Catch, Destroy, Close, Killed
  <2> QED
    BY <1>c, <2>1
<1> QED
  BY <1>1, <1>2

\* What a reader has taken stays true whatever the writer does next.
LEMMA ReaderHoldsKept ==
    ASSUME FileInv, WriterNext, UNCHANGED readerVars
    PROVE  ReaderHolds'
<1> USE DEF readerVars
<1>a. ReaderHolds /\ Len(disk) \in Nat
  BY Types DEF FileInv
<1>1. CASE rpc \in {"closed", "rejected"}
  BY <1>a, <1>1 DEF ReaderHolds
<1>2. CASE rpc \in {"footer", "groups", "ready", "reading"}
  <2>1. FooterPlaced /\ disk[OffsetPosition + 1] = OffsetCell(group.start)
    BY <1>a, <1>2 DEF ReaderHolds
  <2>2. FooterPlaced' /\ UNCHANGED <<group, row_groups, row_count, stored>>
    BY <2>1, Settled
  <2>3. disk'[OffsetPosition + 1] = OffsetCell(group.start) /\ Len(disk') >= Len(disk)
    BY <2>1, DiskGrows
  <2>4. footer_pos <= Len(disk) => footer_pos' <= Len(disk')
    <3>1. footer_pos \in Nat /\ footer_pos' = footer_pos /\ Len(disk') \in Nat
      <4>1. FileTypes'
        BY StreamTypes, MovesTypes, BuildTypes DEF WriterNext, Moves
      <4> QED
        BY <4>1 DEF FileInv, TypeOK, ReaderTypes, FileTypes
    <3> QED
      BY <1>a, <2>3, <3>1
  <2> QED
    BY <1>a, <2>1, <2>2, <2>3, <2>4 DEF ReaderHolds
<1> QED
  BY <1>1, <1>2 DEF FileInv, TypeOK, ReaderTypes

-----------------------------------------------------------------------------
(* The invariant.                                                            *)

\* The invariant holds of the empty file.
LEMMA FileInvInit ==
    ASSUME Init
    PROVE  FileInv
<1> USE DEF Init, WriterInit, ReaderInit, NoGroup
<1>1. TypeOK
  <2>1. FileTypes
    <3>1. /\ disk \in Seq(Cell) /\ out \in Seq(Cell) /\ pending \in Seq([at : Nat, cell : Cell])
          /\ row_groups \in Seq(RowGroupMeta) /\ stored \in Seq(Batch)
      BY EmptyIsSeq
    <3>2. group \in RowGroupMeta
      BY EmptyIsSeq DEF RowGroupMeta
    <3>3. /\ Len(stored) = Len(row_groups) /\ Len(row_groups) <= cur_batch
          /\ cur_batch <= calls /\ calls <= MaxBatches
      BY MaxBatchesAssumption
    <3> HIDE DEF NoGroup
    <3> QED
      BY <3>1, <3>2, <3>3 DEF FileTypes
  <2>2. ReaderTypes
    BY EmptyIsSeq DEF ReaderTypes
  <2> QED
    BY <2>1, <2>2 DEF TypeOK
<1>2. ~FooterPlaced
  BY DEF FooterPlaced
<1>3. Control
  BY <1>2 DEF Control
<1>4. MetadataHolds
  <2>1. Total = 0
    <3>1. [i \in DOMAIN stored |-> Rows[stored[i]]] = <<>>
      BY DEF Init, WriterInit
    <3>2. PrefixSums(<<>>)[0] = 0
      BY EmptyIsSeq, Sums DEF AreSums
    <3> QED
      BY <3>1, <3>2 DEF Total, TotalOf
  <2> QED
    BY <2>1 DEF MetadataHolds
<1>5. BeforeFooter
  <2>1. NoOffsetYet /\ Appending
    BY DEF NoOffsetYet, Appending, OffsetPosition
  <2>2. HeaderComes /\ RecordedLand /\ BatchUnderWay
    BY DEF HeaderComes, RecordedLand, BatchUnderWay
  <2> QED
    BY <2>1, <2>2 DEF BeforeFooter
<1>6. AfterFooter
  BY <1>2 DEF AfterFooter
<1>7. ReaderHolds
  BY DEF ReaderHolds
<1> QED
  BY <1>1, <1>3, <1>4, <1>5, <1>6, <1>7 DEF FileInv

\* Every step keeps it.
LEMMA FileInvNext ==
    ASSUME FileInv, [Next]_vars
    PROVE  FileInv'
<1>1. CASE WriterNext /\ UNCHANGED readerVars
  <2>1. FileTypes'
    BY <1>1, StreamTypes, MovesTypes, BuildTypes DEF WriterNext, Moves
  <2>2. ReaderTypes'
    BY <1>1 DEF readerVars, FileInv, TypeOK, ReaderTypes
  <2> QED
    BY <1>1, <2>1, <2>2, ControlKept, MetadataKept, BeforeFooterKept, AfterFooterKept,
       ReaderHoldsKept DEF FileInv, TypeOK
<1>2. CASE ReaderNext /\ UNCHANGED writerVars
  BY <1>2, ReaderKeeps
<1>3. CASE UNCHANGED vars
  <2>1. UNCHANGED <<disk, writerVars, readerVars>>
    BY <1>3 DEF vars
  <2>2. FileTypes' /\ Control' /\ MetadataHolds' /\ BeforeFooter' /\ AfterFooter'
    BY <2>1, ReaderLeavesFile
  <2>3. ReaderTypes'
    BY <2>1 DEF readerVars, FileInv, TypeOK, ReaderTypes
  <2>4. ReaderHolds'
    BY <2>1 DEF readerVars, writerVars, metaVars, streamVars, FileInv, ReaderHolds, FooterPlaced
  <2> QED
    BY <2>2, <2>3, <2>4 DEF FileInv, TypeOK
<1> QED
  BY <1>1, <1>2, <1>3 DEF Next

\* The file and its reader stay in the states FileInv describes.
THEOREM FileInvAlways == Spec => []FileInv
<1>1. Init => FileInv
  BY FileInvInit
<1>2. FileInv /\ [Next]_vars => FileInv'
  BY FileInvNext
<1> QED
  BY <1>1, <1>2, PTL DEF Spec

-----------------------------------------------------------------------------
(* What the invariant says of the file.                                      *)

\* The types, and the sizes that go together: a recorded row group for every
\* batch stored, no more row groups than ids taken, no more ids than calls.
THEOREM TypesHold == Spec => []TypeOK
<1>1. FileInv => TypeOK
  BY DEF FileInv
<1> QED
  BY <1>1, FileInvAlways, PTL

\* The file is complete exactly when the whole footer is on the disk.
LEMMA PublishedIs ==
    ASSUME FileInv
    PROVE  Published <=> /\ FooterPlaced
                         /\ disk[OffsetPosition + 1] = OffsetCell(group.start)
                         /\ Present = Len(Footer)
<1>1. /\ Len(disk) \in Nat /\ group.start \in Nat /\ Len(row_groups) \in Nat
      /\ Len(Footer) = 1 + Len(row_groups)
  BY Types, FooterIs DEF FileInv
<1>2. FooterPlaced => group.start >= 2 /\ Present \in 0 .. Len(Footer)
  BY DEF FileInv, AfterFooter, FooterPresent, HeaderSize
<1>3. ASSUME Published
      PROVE  /\ FooterPlaced /\ disk[OffsetPosition + 1] = OffsetCell(group.start)
             /\ Present = Len(Footer)
  <2>1. Readable(disk, 0, HeaderSize) /\ disk[OffsetPosition + 1].at # 0
    BY <1>3 DEF Published
  <2>2. /\ FooterPlaced /\ disk[OffsetPosition + 1] = OffsetCell(group.start)
        /\ disk[OffsetPosition + 1].at = group.start
    BY <2>1, OffsetSeen
  <2>3. group.start + (1 + Len(row_groups)) <= Len(disk)
    BY <1>3, <2>2 DEF Published, Readable
  <2>4. Present >= Len(Footer)
    BY <1>1, <2>3 DEF Present
  <2> QED
    BY <1>1, <1>2, <2>2, <2>4
<1>4. ASSUME FooterPlaced, disk[OffsetPosition + 1] = OffsetCell(group.start),
             Present = Len(Footer)
      PROVE  Published
  <2>1. disk[OffsetPosition + 1].at = group.start
    BY <1>4 DEF OffsetCell
  <2>2. Len(disk) = group.start + (1 + Len(row_groups)) /\ group.start >= 2
    BY <1>1, <1>2, <1>4 DEF Present
  <2> QED
    BY <1>1, <2>1, <2>2 DEF Published, Readable, HeaderSize
<1> QED
  BY <1>3, <1>4

\* A cell of the disk that nothing pending overwrites.
LEMMA DiskLands ==
    ASSUME FileInv, FooterPlaced, good, wpc # "killed",
           NEW p \in Nat, p >= HeaderSize, p < group.start,
           NEW cell, disk[p + 1] = cell
    PROVE  Lands(p, cell)
<1>1. /\ Len(disk) \in Nat /\ group.start \in Nat /\ Len(pending) \in Nat
      /\ DOMAIN pending = 1 .. Len(pending)
  BY Types DEF FileInv
<1>2. AfterFooter /\ Control
  BY DEF FileInv
<1>3. p < Len(disk) /\ Len(disk) >= group.start
  <2>1. Present \in 0 .. Len(Footer) /\ Len(Footer) \in Nat
    BY <1>2, FooterIs DEF FileInv, AfterFooter, FooterPresent
  <2> QED
    BY <1>1, <2>1 DEF Present
<1>4. ASSUME NEW i \in DOMAIN pending PROVE pending[i].at # p
  <2>1. CASE wpc \in {"footer", "flush"}
    <3>1. pending[i].at = Len(disk) + i - 1
      BY <1>2, <2>1 DEF AfterFooter, FooterUnderWay, Appending
    <3> QED
      BY <1>1, <1>3, <3>1
  <2>2. CASE wpc \in {"offset", "seek_footer"}
    <3>1. \/ pending = <<>>
          \/ pending = <<[at |-> OffsetPosition, cell |-> OffsetCell(group.start)]>>
      BY <1>2, <2>2 DEF AfterFooter, OffsetUnderWay, OffsetOnTheWay
    <3>2. pending[i].at = OffsetPosition
      BY <3>1
    <3> QED
      BY <3>2 DEF OffsetPosition, HeaderSize
  <2>3. CASE finalized
    BY <1>2, <2>3 DEF AfterFooter, FooterUnderWay
  <2> QED
    BY <1>2, <2>1, <2>2, <2>3 DEF Control
<1> QED
  BY <1>3, <1>4 DEF Lands

\* Every chunk recorded is where the metadata say.
THEOREM ChunksLand == Spec => []ChunksHoldBatches
<1>1. ASSUME FileInv PROVE ChunksHoldBatches
  <2> SUFFICES ASSUME good, wpc # "killed", NEW i \in DOMAIN row_groups
               PROVE  LET m == row_groups[i]
                      IN  /\ Len(m.columns) = Width(stored[i])
                          /\ m.batch_size = Len(Payload(stored[i]))
                          /\ \A c \in DOMAIN m.columns :
                                 LET chunk == Content(stored[i], c)
                                 IN  /\ m.columns[c].size = Len(chunk)
                                     /\ \A u \in DOMAIN chunk :
                                            Lands(m.start + m.columns[c].offset + u - 1,
                                                  chunk[u])
    BY DEF ChunksHoldBatches
  <2> DEFINE m == row_groups[i]
             b == stored[i]
  <2>1. /\ b \in Batch /\ m.start \in Nat /\ Width(b) > 0 /\ m.columns = ColumnInfos(b)
        /\ m.batch_size = Len(Payload(b)) /\ m.start >= HeaderSize
    BY <1>1, Types DEF FileInv, MetadataHolds, Describes
  <2> HIDE DEF m, b
  <2>2. /\ Len(m.columns) = Width(b) /\ DOMAIN m.columns = 1 .. Width(b)
        /\ \A c \in 1 .. Width(b) : /\ m.columns[c].offset = PrefixSums(Size[b])[c - 1]
                                    /\ m.columns[c].size = Size[b][c]
    BY <2>1, ColumnInfosIs DEF LocalOffset
  <2>3. /\ Payload(b) \in Seq(Cell) /\ Len(Payload(b)) \in Nat
        /\ \A c \in 1 .. Width(b) :
               /\ PrefixSums(Size[b])[c - 1] \in Nat
               /\ PrefixSums(Size[b])[c - 1] + Size[b][c] <= Len(Payload(b))
               /\ \A u \in 1 .. Size[b][c] :
                      Payload(b)[PrefixSums(Size[b])[c - 1] + u] = Content(b, c)[u]
    BY <2>1, PayloadIs
  <2>4. ASSUME NEW k \in 1 .. Len(Payload(b))
        PROVE  Lands(m.start + k - 1, Payload(b)[k])
    <3>1. CASE ~FooterPlaced
      <4>1. PayloadLands(b, m.start, Len(Payload(b)))
        BY <1>1, <3>1 DEF FileInv, BeforeFooter, RecordedLand, m, b
      <4> QED
        BY <4>1 DEF PayloadLands
    <3>2. CASE FooterPlaced
      <4>1. /\ m.start + Len(Payload(b)) <= group.start
            /\ disk[m.start + k] = Payload(b)[k]
        BY <1>1, <3>2 DEF FileInv, AfterFooter, RecordedOnDisk, m, b
      <4>2. group.start \in Nat
        BY <1>1, Types DEF FileInv
      <4>3. /\ m.start + k - 1 \in Nat /\ m.start + k - 1 >= HeaderSize
            /\ m.start + k - 1 < group.start /\ (m.start + k - 1) + 1 = m.start + k
        BY <2>1, <2>3, <4>1, <4>2 DEF HeaderSize
      <4> QED
        BY <1>1, <3>2, <4>1, <4>3, DiskLands
    <3> QED
      BY <3>1, <3>2
  <2>5. ASSUME NEW c \in 1 .. Width(b)
        PROVE  /\ m.columns[c].size = Len(Content(b, c))
               /\ \A u \in DOMAIN Content(b, c) :
                      Lands(m.start + m.columns[c].offset + u - 1, Content(b, c)[u])
    <3>1. Len(Content(b, c)) = Size[b][c] /\ DOMAIN Content(b, c) = 1 .. Size[b][c]
      BY <2>1, ContentIs DEF Content
    <3> SUFFICES ASSUME NEW u \in 1 .. Size[b][c]
                 PROVE  Lands(m.start + m.columns[c].offset + u - 1, Content(b, c)[u])
      BY <2>2, <3>1
    <3> DEFINE o == PrefixSums(Size[b])[c - 1]
               z == Size[b][c]
               len == Len(Payload(b))
    <3>2. /\ o \in Nat /\ o + z <= len /\ m.columns[c].offset = o
          /\ Payload(b)[o + u] = Content(b, c)[u]
      BY <2>2, <2>3
    <3>3. z \in Nat /\ len \in Nat
      BY <2>1, <2>3, BatchAssumption DEF Width
    <3>4. u \in 1 .. z
      OBVIOUS
    <3> HIDE DEF o, z, len
    <3>5. o + u \in 1 .. len /\ m.start + o + u - 1 = m.start + (o + u) - 1
      BY <2>1, <3>2, <3>3, <3>4
    <3>6. Lands(m.start + (o + u) - 1, Payload(b)[o + u])
      BY <2>4, <3>5 DEF len
    <3> QED
      BY <3>2, <3>5, <3>6
  <2> QED
    BY <2>1, <2>2, <2>5 DEF m, b
<1> QED
  BY <1>1, FileInvAlways, PTL

\* A reader that got through its constructor holds the metadata of every batch
\* that was, or ever will be, stored, and each of these is as wide as the
\* schema: the footer's offset reaches the disk before the footer does, and
\* the reader throws on a footer that ends early.
THEOREM AcceptedIsComplete == Spec => []AcceptedMeansComplete
<1>1. ASSUME FileInv PROVE AcceptedMeansComplete
  <2> SUFFICES ASSUME rpc \in {"ready", "reading"}
               PROVE  /\ metadata.row_groups = row_groups
                      /\ metadata.row_count = Total
                      /\ \A i \in DOMAIN stored : Width(stored[i]) = ColumnCount
    BY DEF AcceptedMeansComplete
  <2>1. /\ Len(metadata.row_groups) = Len(row_groups)
        /\ metadata.row_count = row_count
        /\ \A i \in 1 .. Len(metadata.row_groups) :
               metadata.row_groups[i] = row_groups[i] /\ Width(stored[i]) = ColumnCount
    BY <1>1 DEF FileInv, ReaderHolds
  <2>2. /\ metadata.row_groups \in Seq(RowGroupMeta) /\ row_groups \in Seq(RowGroupMeta)
        /\ DOMAIN stored = 1 .. Len(row_groups)
    BY <1>1, Types DEF FileInv, TypeOK, FileTypes, ReaderTypes
  <2>3. metadata.row_groups = row_groups
    BY <2>1, <2>2, SeqEqual
  <2> QED
    BY <1>1, <2>1, <2>2, <2>3 DEF FileInv, MetadataHolds
<1> QED
  BY <1>1, FileInvAlways, PTL

\* Once Finalize has returned to the caller, or the destructor has run, the
\* file is complete: the destructor finalizes what the caller did not, after a
\* batch that threw as well, and the stream drains before it is closed.
THEOREM FinalizedIsPublished == Spec => []FinalizedMeansPublished
<1>1. ASSUME FileInv PROVE FinalizedMeansPublished
  <2> SUFFICES ASSUME good, status = "ok" \/ wpc = "gone"
               PROVE  Published
    BY DEF FinalizedMeansPublished
  <2>1. finalized /\ FooterPlaced
    BY <1>1 DEF FileInv, Control
  <2>2. Present = Len(Footer)
    BY <1>1, <2>1 DEF FileInv, AfterFooter, FooterUnderWay
  <2>3. Present > 0
    <3>1. Len(row_groups) \in Nat /\ Len(Footer) = 1 + Len(row_groups)
      BY <1>1, Types, FooterIs DEF FileInv
    <3> QED
      BY <2>2, <3>1
  <2>4. disk[OffsetPosition + 1] = OffsetCell(group.start)
    BY <1>1, <2>1, <2>3 DEF FileInv, AfterFooter, FooterPresent
  <2> QED
    BY <1>1, <2>1, <2>2, <2>4, PublishedIs
<1> QED
  BY <1>1, FileInvAlways, PTL

\* A complete file is left alone: the one routine that changes the disk has
\* nothing pending that is not there yet.
LEMMA PublishedLeftAlone ==
    ASSUME FileInv, [Next]_vars, Published
    PROVE  disk' = disk
<1>1. /\ FooterPlaced /\ disk[OffsetPosition + 1] = OffsetCell(group.start)
      /\ Present = Len(Footer)
  BY PublishedIs
<1>2. CASE Drain
  <2>1. OffsetDrains \/ FooterDrains
    BY <1>1, <1>2, DrainsAfter
  <2>0. Len(row_groups) \in Nat /\ Len(Footer) = 1 + Len(row_groups)
    BY Types, FooterIs DEF FileInv
  <2>2. CASE OffsetDrains
    BY <1>1, <2>0, <2>2 DEF OffsetDrains
  <2>3. CASE FooterDrains
    BY <1>1, <2>0, <2>3 DEF FooterDrains
  <2> QED
    BY <2>1, <2>2, <2>3
<1>3. CASE WriterNext /\ ~Drain
  BY <1>3 DEF WriterNext, WriteCell, DeviceFails, Open, HeaderWritten, WriteAfterFinalize,
              MakeBatchMeta, EncodeColumns, EncodeThrows, RecordRowGroup, Finalize,
              StartFinalize, SeekHeader, OffsetWritten, SeekFooter, FooterWritten, Flushed,
              FlushFails, Finalized, Catch, Destroy, Close, Killed
<1>4. CASE ReaderNext
  BY <1>4 DEF ReaderNext, ReadHeader, ReadFooterHead, ReadRowGroupMeta, Reset,
              SkipNextBatch, ReadNextBatch, ReadColumn, ReadColumnThrows, BatchReturned
<1> QED
  BY <1>2, <1>3, <1>4 DEF Next, vars

\* Once the file is complete no call of the writer, no failure and no reader
\* changes a cell of it: a second Finalize, a batch offered after Finalize and
\* the destructor write nothing.
THEOREM CompleteIsFinal == Spec => PublishedIsFinal
<1>1. FileInv /\ [Next]_vars => [Published => disk' = disk]_vars
  BY PublishedLeftAlone
<1> QED
  BY <1>1, FileInvAlways, PTL DEF Spec, PublishedIsFinal

\* What a reader of a complete file does not fail on.
LEMMA CompleteIsRead ==
    ASSUME FileInv, Published
    PROVE  /\ Readable(disk, 0, HeaderSize) /\ disk[OffsetPosition + 1].at # 0
           /\ rpc = "footer" => Readable(disk, footer_pos, 1)
           /\ rpc = "groups" /\ Len(metadata.row_groups) < row_group_count =>
                  Readable(disk, footer_pos, 1)
<1>1. /\ FooterPlaced /\ disk[OffsetPosition + 1] = OffsetCell(group.start)
      /\ Present = Len(Footer)
  BY PublishedIs
<1>2. Readable(disk, 0, HeaderSize) /\ disk[OffsetPosition + 1].at # 0
  BY DEF Published
<1>3. /\ Len(disk) = group.start + (1 + Len(row_groups))
      /\ Len(row_groups) \in Nat /\ group.start \in Nat
  <2>1. /\ Len(row_groups) \in Nat /\ group.start \in Nat /\ Len(disk) \in Nat
        /\ Len(Footer) = 1 + Len(row_groups)
    BY Types, FooterIs DEF FileInv
  <2> QED
    BY <1>1, <2>1 DEF Present
<1>4. rpc = "footer" => Readable(disk, footer_pos, 1)
  BY <1>3 DEF FileInv, ReaderHolds, Readable
<1>5. ASSUME rpc = "groups", Len(metadata.row_groups) < row_group_count
      PROVE  Readable(disk, footer_pos, 1)
  <2>1. /\ footer_pos = group.start + 1 + Len(metadata.row_groups)
        /\ row_group_count = Len(row_groups)
    BY <1>5 DEF FileInv, ReaderHolds
  <2>2. Len(metadata.row_groups) \in Nat
    BY DEF FileInv, TypeOK, ReaderTypes
  <2> QED
    BY <1>3, <1>5, <2>1, <2>2 DEF Readable
<1> QED
  BY <1>2, <1>4, <1>5

\* The constructor of the reader throws on no complete file whose batches are
\* as wide as the schema, at whatever moment the file became complete.
THEOREM CompleteIsAccepted == Spec => CompleteNeverRejected
<1> DEFINE Excused == ~Published \/ \E i \in DOMAIN stored : Width(stored[i]) # ColumnCount
<1>1. ASSUME FileInv, [Next]_vars, rpc # "rejected", rpc' = "rejected"
      PROVE  Excused
  <2>1. SUFFICES ASSUME Published
                 PROVE  \E i \in DOMAIN stored : Width(stored[i]) # ColumnCount
    OBVIOUS
  <2>2. ReadHeader \/ ReadFooterHead \/ ReadRowGroupMeta
    BY <1>1 DEF Next, vars, readerVars, ReaderNext, Reset, SkipNextBatch, ReadNextBatch,
                ReadColumn, ReadColumnThrows, BatchReturned
  <2>3. ~ReadHeader
    BY <1>1, <2>1, CompleteIsRead DEF ReadHeader
  <2>4. ~ReadFooterHead
    BY <1>1, <2>1, CompleteIsRead DEF ReadFooterHead
  <2>5. CASE ReadRowGroupMeta
    <3> DEFINE i == Len(metadata.row_groups) + 1
    <3>1. /\ rpc = "groups" /\ Len(metadata.row_groups) < row_group_count
          /\ Readable(disk, footer_pos, 1)
      BY <1>1, <2>1, <2>5, CompleteIsRead DEF ReadRowGroupMeta
    <3>2. i \in 1 .. Len(row_groups) /\ Len(disk[footer_pos + 1].meta.columns) = Width(stored[i])
      BY <1>1, <3>1, GroupSeen
    <3>3. Len(disk[footer_pos + 1].meta.columns) # ColumnCount
      BY <1>1, <2>5, <3>1 DEF ReadRowGroupMeta
    <3> QED
      BY <1>1, <3>2, <3>3, Types DEF FileInv
  <2> QED
    BY <2>2, <2>3, <2>4, <2>5
<1>2. FileInv /\ [Next]_vars => [rpc # "rejected" /\ rpc' = "rejected" => Excused]_vars
  BY <1>1
<1> QED
  BY <1>2, FileInvAlways, PTL DEF Spec, CompleteNeverRejected

-----------------------------------------------------------------------------
(* The archive.                                                              *)

\* The archive's reader is open when the constructor has returned.
LEMMA PhaseIs ==
    ASSUME ReaderTypes
    PROVE  /\ rpc \in {"closed", "footer", "groups"} <=> Phase = "opening"
           /\ rpc \in {"ready", "reading"} <=> Phase = "open"
           /\ rpc = "rejected" <=> Phase = "rejected"
BY DEF ReaderTypes, Phase

\* And changes with the place of the reader only.
LEMMA PhaseFollows ==
    /\ rpc' \in {"closed", "footer", "groups"} => Phase' = "opening"
    /\ rpc' \in {"ready", "reading"} => Phase' = "open"
    /\ rpc' = "rejected" => Phase' = "rejected"
    /\ rpc' = rpc => Phase' = Phase
BY DEF Phase

\* A step of the writer stores a batch, seals the file or means nothing.
LEMMA WriterImplements ==
    ASSUME FileInv, WriterNext, UNCHANGED readerVars
    PROVE  [Promise!Next]_(Promise!vars)
<1> USE DEF readerVars
<1>0. Phase' = Phase /\ UNCHANGED <<next_row_group, todo, got>>
  BY PhaseFollows
<1>1. CASE RecordRowGroup
  <2>1. ~FooterPlaced /\ batch \in Batch /\ stored' = Append(stored, batch) /\ disk' = disk
    BY <1>1, Records DEF RecordRowGroup
  <2>2. ~Published /\ ~Published'
    <3>1. ~(Readable(disk, 0, HeaderSize) /\ disk[OffsetPosition + 1].at # 0)
      BY <2>1, OffsetSeen
    <3> QED
      BY <2>1, <3>1 DEF Published
  <2>3. Published' = Published
    BY <2>2 DEF Published
  <2>4. Promise!Store(batch)
    BY <1>0, <2>1, <2>2, <2>3 DEF Promise!Store
  <2> QED
    BY <2>1, <2>4 DEF Promise!Next
<1>2. CASE ~RecordRowGroup
  <2>1. UNCHANGED <<stored, row_groups>>
    BY <1>2 DEF WriterNext, Drain, WriteCell, DeviceFails, Open, HeaderWritten,
                WriteAfterFinalize, MakeBatchMeta, EncodeColumns, EncodeThrows, Finalize,
                StartFinalize, SeekHeader, OffsetWritten, SeekFooter, FooterWritten, Flushed,
                FlushFails, Finalized, Catch, Destroy, Close, Killed, metaVars
  <2>2. CASE Published
    <3>1. disk' = disk
      BY <2>2, PublishedLeftAlone DEF Next
    <3>2. Published' = Published
      BY <2>1, <3>1 DEF Published
    <3> QED
      BY <1>0, <2>1, <3>2 DEF Promise!vars
  <2>3. CASE ~Published /\ ~Published'
    <3>1. Published' = Published
      BY <2>3 DEF Published
    <3> QED
      BY <1>0, <2>1, <3>1 DEF Promise!vars
  <2>4. CASE Published'
    <3>1. Published' = TRUE
      BY <2>4 DEF Published
    <3>2. Promise!Seal
      BY <1>0, <2>1, <3>1 DEF Promise!Seal
    <3> QED
      BY <3>2 DEF Promise!Next
  <2> QED
    BY <2>2, <2>3, <2>4
<1> QED
  BY <1>1, <1>2

\* A reader past its constructor has the whole footer before it.
LEMMA AcceptedSeesAll ==
    ASSUME FileInv, rpc \in {"groups", "ready", "reading"},
           Len(metadata.row_groups) = Len(row_groups)
    PROVE  Published
<1>1. /\ FooterPlaced /\ disk[OffsetPosition + 1] = OffsetCell(group.start)
      /\ footer_pos = group.start + 1 + Len(row_groups) /\ footer_pos <= Len(disk)
  BY DEF FileInv, ReaderHolds
<1>2. /\ Len(row_groups) \in Nat /\ group.start \in Nat /\ Len(disk) \in Nat
      /\ Len(Footer) = 1 + Len(row_groups)
  BY Types, FooterIs DEF FileInv
<1>3. Present \in 0 .. Len(Footer)
  BY <1>1 DEF FileInv, AfterFooter, FooterPresent
<1>4. Present = Len(Footer)
  BY <1>1, <1>2, <1>3 DEF Present
<1> QED
  BY <1>1, <1>4, PublishedIs

\* The chunk a reader asks for is on the disk, and it is what was stored.
LEMMA ChunkIsStored ==
    ASSUME FileInv, rpc = "reading", NEW c \in Nat, c < Len(RowGroup.columns)
    PROVE  LET chunk == RowGroup.columns[c + 1]
           IN  /\ Readable(disk, ChunkPosition(chunk), chunk.size)
               /\ Slice(disk, ChunkPosition(chunk), chunk.size)
                      = Content(stored[next_row_group], c + 1)
<1> DEFINE g == next_row_group
           b == stored[g]
           start == row_groups[g].start
           o == PrefixSums(Size[b])[c]
           z == Size[b][c + 1]
           len == Len(Payload(b))
           chunk == RowGroup.columns[c + 1]
<1>1. /\ g \in 1 .. Len(row_groups) /\ g \in DOMAIN row_groups /\ RowGroup = row_groups[g]
      /\ b \in Batch /\ start \in Nat /\ g \in DOMAIN stored
  BY RowGroupIs, Types DEF FileInv
<1>2. Width(b) > 0 /\ row_groups[g].columns = ColumnInfos(b)
  BY <1>1 DEF FileInv, MetadataHolds, Describes
<1>3. c + 1 \in 1 .. Width(b) /\ Len(RowGroup.columns) = Width(b)
  BY <1>1, <1>2, ColumnInfosIs
<1>4. chunk.offset = o /\ chunk.size = z
  BY <1>1, <1>2, <1>3, ColumnInfosIs DEF LocalOffset
<1>5. /\ o \in Nat /\ o + z <= len /\ Payload(b) \in Seq(Cell) /\ len \in Nat
      /\ \A u \in 1 .. z : Payload(b)[o + u] = Content(b, c + 1)[u]
  BY <1>1, <1>2, <1>3, PayloadIs
<1>6. z \in Nat /\ Content(b, c + 1) \in Seq(Cell) /\ Len(Content(b, c + 1)) = z
  BY <1>1, <1>3, ContentIs, BatchAssumption DEF Width
<1>7. /\ FooterPlaced /\ group.start \in Nat /\ Len(disk) \in Nat /\ disk \in Seq(Cell)
      /\ group.start <= Len(disk)
  <2>1. FooterPlaced
    BY DEF FileInv, ReaderHolds
  <2>2. group.start \in Nat /\ Len(disk) \in Nat /\ disk \in Seq(Cell) /\ Len(Footer) \in Nat
    BY Types, FooterIs DEF FileInv, TypeOK, FileTypes
  <2>3. Present \in 0 .. Len(Footer)
    BY <2>1 DEF FileInv, AfterFooter, FooterPresent
  <2> QED
    BY <2>1, <2>2, <2>3 DEF Present
<1>8. start + len <= group.start /\ \A k \in 1 .. len : disk[start + k] = Payload(b)[k]
  BY <1>1, <1>7 DEF FileInv, AfterFooter, RecordedOnDisk
<1>9. ChunkPosition(chunk) = start + o
  BY <1>1, <1>4 DEF ChunkPosition
<1> DEFINE content == Content(b, c + 1)
           read == SubSeq(disk, (start + o) + 1, (start + o) + z)
<1> HIDE DEF o, z, len, start
<1>10. Readable(disk, start + o, z)
  BY <1>1, <1>5, <1>6, <1>7, <1>8 DEF Readable
<1>11. /\ read \in Seq(Cell) /\ Len(read) = z
       /\ \A u \in 1 .. z : read[u] = disk[start + o + u]
  BY <1>1, <1>5, <1>6, <1>7, <1>10 DEF Readable
<1>12. \A u \in 1 .. z : disk[start + o + u] = content[u]
  <2> SUFFICES ASSUME NEW u \in 1 .. z PROVE disk[start + o + u] = content[u]
    OBVIOUS
  <2>1. o + u \in 1 .. len /\ start + (o + u) = start + o + u
    BY <1>1, <1>5, <1>6
  <2> QED
    BY <1>5, <1>8, <2>1
<1> HIDE DEF content, read
<1>13. read = content
  BY <1>6, <1>11, <1>12, SeqEqual DEF content
<1> QED
  BY <1>4, <1>9, <1>10, <1>13 DEF Slice, content, read

\* A step of the reader opens the archive, refuses, hands out what was stored
\* or means nothing.
LEMMA ReaderImplements ==
    ASSUME FileInv, ReaderNext, UNCHANGED writerVars
    PROVE  [Promise!Next]_(Promise!vars)
<1>0. UNCHANGED <<disk, stored, row_groups>> /\ ReaderTypes /\ ReaderHolds
  BY DEF ReaderNext, ReadHeader, ReadFooterHead, ReadRowGroupMeta, Reset, SkipNextBatch,
         ReadNextBatch, ReadColumn, ReadColumnThrows, BatchReturned, writerVars, metaVars,
         FileInv, TypeOK
<1>1. Published' = Published
  BY <1>0 DEF Published
<1>2. CASE ReadHeader \/ ReadFooterHead \/ ReadRowGroupMeta
  <2>1. /\ rpc \in {"closed", "footer", "groups"}
        /\ rpc' \in {"closed", "footer", "groups", "rejected"}
        /\ UNCHANGED <<next_row_group, todo, got>>
    BY <1>2 DEF ReadHeader, ReadFooterHead, ReadRowGroupMeta, Reject
  <2>2. Phase = "opening" /\ Phase' \in {"opening", "rejected"}
    BY <1>0, <2>1, PhaseIs, PhaseFollows
  <2>3. CASE Phase' = "opening"
    BY <1>0, <1>1, <2>1, <2>2, <2>3 DEF Promise!vars
  <2>4. CASE Phase' = "rejected"
    BY <1>0, <1>1, <2>1, <2>2, <2>4 DEF Promise!Reject, Promise!Next
  <2> QED
    BY <2>2, <2>3, <2>4
<1>3. CASE Reset
  <2>1. Len(metadata.row_groups) = Len(row_groups) /\ rpc = "groups" /\ rpc' = "ready"
    BY <1>0, <1>3 DEF Reset, ReaderHolds
  <2>2. Published = TRUE
    BY <2>1, AcceptedSeesAll DEF Published
  <2>3. Phase = "opening" /\ Phase' = "open" /\ next_row_group' = next_row_group
    BY <1>0, <1>3, <2>1, PhaseIs, PhaseFollows DEF Reset, ReaderHolds
  <2> QED
    BY <1>0, <1>1, <1>3, <2>2, <2>3 DEF Reset, Promise!Accept, Promise!Next
<1>4. CASE SkipNextBatch \/ \E p \in Projections : ReadNextBatch(p)
  <2>1. /\ rpc = "ready" /\ rpc' \in {"ready", "reading"} /\ todo = <<>>
        /\ next_row_group < Len(stored)
        /\ next_row_group' = next_row_group + 1
        /\ got' = <<>>
    BY <1>0, <1>4, Types DEF SkipNextBatch, ReadNextBatch, HasNext, ReaderHolds, FileInv
  <2>2. Phase = "open" /\ Phase' = "open"
    BY <1>0, <2>1, PhaseIs, PhaseFollows
  <2>3. todo' \in Projections \cup {<<>>}
    BY <1>4, <2>1 DEF SkipNextBatch, ReadNextBatch
  <2>4. Promise!Take(todo')
    BY <1>0, <1>1, <2>1, <2>2 DEF Promise!Take
  <2> QED
    BY <2>3, <2>4 DEF Promise!Next
<1>5. ASSUME rpc = "reading", todo # <<>>
      PROVE  /\ Head(todo) \in Nat /\ Len(RowGroup.columns) = ColumnCount
  <2>1. todo \in Seq(Nat)
    BY <1>0 DEF ReaderTypes
  <2>2. next_row_group \in 1 .. Len(row_groups) /\ RowGroup = row_groups[next_row_group]
    BY <1>5, RowGroupIs
  <2>3. /\ Width(stored[next_row_group]) > 0 /\ stored[next_row_group] \in Batch
        /\ RowGroup.columns = ColumnInfos(stored[next_row_group])
    BY <2>2, Types DEF FileInv, MetadataHolds, Describes
  <2>4. Width(stored[next_row_group]) = ColumnCount
    BY <1>0, <1>5, <2>2 DEF ReaderHolds
  <2>5. Len(RowGroup.columns) = ColumnCount
    BY <2>3, <2>4, ColumnInfosIs
  <2> QED
    BY <1>5, <2>1, <2>5
<1>6. CASE ReadColumn
  <2>1. /\ rpc = "reading" /\ todo # <<>> /\ Head(todo) < Len(RowGroup.columns)
        /\ UNCHANGED <<rpc, next_row_group>> /\ todo' = Tail(todo)
    BY <1>6 DEF ReadColumn
  <2>2. Head(todo) \in Nat /\ Head(todo) < ColumnCount
    BY <1>5, <2>1
  <2>3. got' = Append(got, Content(stored[next_row_group], Head(todo) + 1))
    BY <1>6, <2>1, <2>2, ChunkIsStored DEF ReadColumn
  <2>4. Phase' = Phase
    BY <2>1, PhaseFollows
  <2> QED
    BY <1>0, <1>1, <2>1, <2>2, <2>3, <2>4 DEF Promise!HandOut, Promise!Next
<1>7. CASE ReadColumnThrows
  <2>1. /\ rpc = "reading" /\ rpc' = "ready" /\ todo # <<>>
        /\ todo' = <<>> /\ got' = <<>> /\ next_row_group' = next_row_group
    BY <1>7 DEF ReadColumnThrows
  <2>2. ~(Head(todo) < Len(RowGroup.columns))
    BY <1>5, <1>7, <2>1, ChunkIsStored DEF ReadColumnThrows
  <2>3. Head(todo) >= ColumnCount
    BY <1>5, <2>1, <2>2, BatchAssumption
  <2>4. Phase' = Phase
    BY <1>0, <2>1, PhaseIs, PhaseFollows
  <2> QED
    BY <1>0, <1>1, <2>1, <2>3, <2>4 DEF Promise!Refuse, Promise!Next
<1>8. CASE BatchReturned
  <2>1. Phase' = Phase /\ UNCHANGED <<next_row_group, todo, got>>
    BY <1>0, <1>8, PhaseIs, PhaseFollows DEF BatchReturned
  <2> QED
    BY <1>0, <1>1, <2>1 DEF Promise!vars
<1> QED
  BY <1>2, <1>3, <1>4, <1>6, <1>7, <1>8 DEF ReaderNext

\* Writer and reader together, with their buffer, their offsets and their
\* crashes, do what the archive does: a reader is handed exactly what was
\* stored and is refused nothing but columns the schema does not have.
THEOREM FileImplementsArchive == Spec => ImplementsArchive
<1>1. Init => Promise!Init
  BY PhaseIs DEF Init, WriterInit, ReaderInit, Promise!Init, Published,
                 Readable, HeaderSize, Phase
<1>2. FileInv /\ [Next]_vars => [Promise!Next]_(Promise!vars)
  <2>1. CASE UNCHANGED vars
    <3>1. Published' = Published /\ Phase' = Phase
      BY <2>1 DEF vars, writerVars, metaVars, readerVars, Published, Phase
    <3> QED
      BY <2>1, <3>1 DEF vars, writerVars, metaVars, readerVars, Promise!vars
  <2> QED
    BY <2>1, WriterImplements, ReaderImplements DEF Next
<1> QED
  BY <1>1, <1>2, FileInvAlways, PTL DEF Spec, ImplementsArchive, Promise!Spec
=============================================================================
