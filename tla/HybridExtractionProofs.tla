----------------------- MODULE HybridExtractionProofs -----------------------
(***************************************************************************)
(* Theorems about HybridExtraction, for any books and words under the cut: *)
(* what a field ends with, what a prompt is sent and what is heard of it,  *)
(* and the page that the evidence of a field names.                        *)
(*                                                                         *)
(* The invariant says which batches have an answer and which fields the    *)
(* answers gave.  The rest is about the operators: the filter of a         *)
(* sequence, the windows of a batch, the text of a prompt, and the         *)
(* extractors.  What a recursive function computes is found by induction   *)
(* up to a bound (UpTo), for a set of numbers instead of a predicate.      *)
(***************************************************************************)
EXTENDS HybridExtraction, WellFoundedInduction, NaturalsInduction, SequenceTheorems,
        FiniteSetTheorems, TLAPS

(* Induction and recursion up to a bound. *)
\* A set of numbers has a least one.
LEMMA LeastOf ==
  ASSUME NEW T \in SUBSET Nat, T # {}
  PROVE  \E x \in T : \A y \in T : x <= y
<1>1. IsWellFoundedOn(OpToRel(<, Nat), Nat)  BY NatLessThanWellFounded
<1>2. PICK x \in T : \A y \in T : <<y, x>> \notin OpToRel(<, Nat)  BY <1>1, WFMin
<1>3. \A y \in T : ~(y < x)  BY <1>2 DEF OpToRel
<1>4. QED  BY <1>3

\* Induction up to N, for a set: of two numbers in a row the second is in it
\* with the first.
LEMMA UpTo ==
  ASSUME NEW N \in Nat, NEW S, 0 \in S, \A n \in 1..N : n - 1 \in S => n \in S
  PROVE  \A n \in 0..N : n \in S
<1> DEFINE T == {n \in 0..N : n \notin S}
<1>1. SUFFICES ASSUME T # {} PROVE FALSE  OBVIOUS
<1>2. T \in SUBSET Nat  OBVIOUS
<1>3. PICK x \in T : \A y \in T : x <= y  BY <1>1, <1>2, LeastOf
<1>4. x \in 1..N /\ x - 1 \in 0..N /\ ~(x <= x - 1)  BY <1>3
<1>5. x - 1 \in S  BY <1>3, <1>4
<1>6. QED  BY <1>3, <1>4, <1>5

\* A function whose values follow one from another, by G, exists.
Steps(T, N) == [T \X (1..N) -> T]
Follows(f, T, N, a, G) ==
  f \in [0..N -> T] /\ f[0] = a /\ \A n \in 1..N : f[n] = G[<<f[n - 1], n>>]
LEMMA Recursion ==
  ASSUME NEW T, NEW N \in Nat, NEW a \in T, NEW G \in Steps(T, N)
  PROVE  \E f : Follows(f, T, N, a, G)
<1> USE DEF Steps
<1> DEFINE Up(f, m) == f[0] = a /\ \A n \in 1..m : f[n] = G[<<f[n - 1], n>>]
           Has(m) == \E f \in [0..m -> T] : Up(f, m)
           S == {m \in 0..N : Has(m)}
<1>1. Has(0)
  <2>1. [i \in 0..0 |-> a] \in [0..0 -> T] /\ Up([i \in 0..0 |-> a], 0)  OBVIOUS
  <2>2. QED  BY <2>1
<1>2. ASSUME NEW m \in 1..N, Has(m - 1) PROVE Has(m)
  <2>1. PICK f \in [0..(m - 1) -> T] : Up(f, m - 1)  BY <1>2
  <2> DEFINE g == [i \in 0..m |-> IF i = m THEN G[<<f[m - 1], m>>] ELSE f[i]]
  <2>2. m - 1 \in 0..(m - 1) /\ m \in 1..N  BY <1>2
  <2>3. G[<<f[m - 1], m>>] \in T  BY <2>1, <2>2
  <2>4. g \in [0..m -> T]  BY <2>1, <2>3
  <2>5. ASSUME NEW n \in 1..m PROVE g[n] = G[<<g[n - 1], n>>]
    <3>1. n - 1 \in 0..(m - 1) /\ n - 1 # m /\ n \in 0..m /\ n - 1 \in 0..m  BY <2>2
    <3>2. g[n - 1] = f[n - 1]  BY <3>1
    <3>3. CASE n = m  BY <3>2, <3>3
    <3>4. CASE n # m
      <4>1. n \in 1..(m - 1)  BY <2>2, <3>4
      <4>2. g[n] = f[n] /\ f[n] = G[<<f[n - 1], n>>]  BY <2>1, <3>4, <4>1
      <4>3. QED  BY <3>2, <4>2
    <3>5. QED  BY <3>3, <3>4
  <2>6. g[0] = a  BY <2>1, <2>2
  <2>7. Up(g, m)  BY <2>5, <2>6
  <2> HIDE DEF g, Up
  <2>8. QED  BY <2>4, <2>7
<1> HIDE DEF Has
<1>3. \A m \in 0..N : m \in S
  <2>1. 0 \in S /\ \A m \in 1..N : m - 1 \in S => m \in S  BY <1>1, <1>2
  <2> HIDE DEF S
  <2>2. QED  BY <2>1, UpTo
<1>4. Has(N)  BY <1>3
<1>5. QED  BY <1>4 DEF Has, Follows

\* What Picked is computed from.
Picking(s, I, f) ==
  /\ f[0] = <<>>
  /\ \A n \in 1..Len(s) : f[n] = IF n \in I THEN Append(f[n - 1], s[n]) ELSE f[n - 1]

LEMMA PickedBy ==
  ASSUME NEW S, NEW s \in Seq(S), NEW I
  PROVE  \E f : Picking(s, I, f) /\ Picked(s, I) = f[Len(s)]
<1> DEFINE G == [x \in Seq(S) \X (1..Len(s)) |->
                   IF x[2] \in I THEN Append(x[1], s[x[2]]) ELSE x[1]]
           Solves(f) == f = [n \in 0..Len(s) |-> IF n = 0 THEN <<>>
                                             ELSE IF n \in I THEN Append(f[n - 1], s[n])
                                             ELSE f[n - 1]]
<1>1. Len(s) \in Nat /\ <<>> \in Seq(S) /\ \A n \in 1..Len(s) : s[n] \in S  OBVIOUS
<1>2. G \in Steps(Seq(S), Len(s))
  <2>1. ASSUME NEW x \in Seq(S) \X (1..Len(s))
        PROVE  (IF x[2] \in I THEN Append(x[1], s[x[2]]) ELSE x[1]) \in Seq(S)
    <3>1. x[1] \in Seq(S) /\ s[x[2]] \in S  BY <1>1
    <3>2. Append(x[1], s[x[2]]) \in Seq(S)  BY <3>1
    <3>3. QED  BY <3>1, <3>2
  <2>2. QED  BY <2>1 DEF Steps
<1>3. PICK f : Follows(f, Seq(S), Len(s), <<>>, G)
  <2> HIDE DEF G
  <2>1. QED  BY <1>1, <1>2, Recursion
<1> USE DEF Follows
<1>4. ASSUME NEW n \in 1..Len(s)
      PROVE  f[n] = IF n \in I THEN Append(f[n - 1], s[n]) ELSE f[n - 1]
  <2>1. f[n - 1] \in Seq(S)  BY <1>1, <1>3
  <2>2. <<f[n - 1], n>> \in Seq(S) \X (1..Len(s))  BY <2>1
  <2>3. f[n] = G[<<f[n - 1], n>>]  BY <1>3
  <2>4. QED  BY <2>2, <2>3
<1>5. Solves(f)
  <2>1. \A n \in 0..Len(s) : n = 0 \/ n \in 1..Len(s)  BY <1>1
  <2> HIDE DEF G
  <2>2. f = [n \in 0..Len(s) |-> f[n]]  BY <1>3
  <2>3. QED  BY <1>3, <1>4, <2>1, <2>2
<1> DEFINE u == CHOOSE g : Solves(g)
<1>6. Solves(u)  BY <1>5
<1>7. Picked(s, I) = u[Len(s)]  BY DEF Picked
<1>8. \A n \in 0..Len(s) : u[n] = IF n = 0 THEN <<>>
                                  ELSE IF n \in I THEN Append(u[n - 1], s[n])
                                  ELSE u[n - 1]
      BY <1>6
<1> HIDE DEF u
<1>9. Picking(s, I, u)  BY <1>1, <1>8 DEF Picking
<1>10. QED  BY <1>7, <1>9

\* h gives the positions in s of the elements of p: those in J, in their order.
Positions(h, p, s, J) ==
  /\ h \in [1..Len(p) -> J]
  /\ \A i, j \in 1..Len(p) : i < j => h[i] < h[j]
  /\ \A i \in 1..Len(p) : p[i] = s[h[i]]
  /\ \A k \in J : \E i \in 1..Len(p) : h[i] = k

LEMMA PickedPositions ==
  ASSUME NEW S, NEW s \in Seq(S), NEW I \in SUBSET (1..Len(s))
  PROVE  Picked(s, I) \in Seq(S) /\ \E h : Positions(h, Picked(s, I), s, I)
<1>1. PICK f : Picking(s, I, f) /\ Picked(s, I) = f[Len(s)]  BY PickedBy
<1> DEFINE J(n) == {k \in I : k <= n}
           Good(n) == f[n] \in Seq(S) /\ \E h : Positions(h, f[n], s, J(n))
           G == {n \in 0..Len(s) : Good(n)}
<1>2. Len(s) \in Nat /\ \A k \in I : k \in Nat /\ 1 <= k /\ k <= Len(s)  OBVIOUS
<1>3. Good(0)
  <2>1. f[0] = <<>> /\ J(0) = {}
    <3>1. \A k \in I : ~(k <= 0)  BY <1>2
    <3>2. QED  BY <1>1, <3>1 DEF Picking
  <2>2. Positions(<<>>, <<>>, s, {})  BY DEF Positions
  <2>3. f[0] \in Seq(S)  BY <2>1
  <2>4. QED  BY <2>1, <2>2, <2>3
<1>4. ASSUME NEW n \in 1..Len(s), NEW k \in I PROVE k <= n <=> k <= n - 1 \/ k = n
      BY <1>2
<1>5. ASSUME NEW n \in 1..Len(s), Good(n - 1) PROVE Good(n)
  <2>1. PICK h : Positions(h, f[n - 1], s, J(n - 1))  BY <1>5
  <2>2. f[n - 1] \in Seq(S) /\ s[n] \in S  BY <1>5
  <2>3. CASE n \in I
    <3> DEFINE p == f[n - 1]
               m == Len(p)
               g == [i \in 1..(m + 1) |-> IF i = m + 1 THEN n ELSE h[i]]
    <3>1. f[n] = Append(p, s[n])  BY <1>1, <2>3 DEF Picking
    <3>2. m \in Nat /\ f[n] \in Seq(S) /\ Len(f[n]) = m + 1 /\ f[n][m + 1] = s[n]
          /\ \A i \in 1..m : f[n][i] = p[i]
          BY <2>2, <3>1
    <3> HIDE DEF p
    <3>3. h \in [1..m -> J(n - 1)] /\ (\A i, j \in 1..m : i < j => h[i] < h[j])
          /\ (\A i \in 1..m : p[i] = s[h[i]]) /\ \A k \in J(n - 1) : \E i \in 1..m : h[i] = k
          BY <2>1 DEF Positions, p
    <3> HIDE DEF m
    <3>4. J(n) = J(n - 1) \cup {n} /\ \A k \in J(n - 1) : k < n /\ k \in Nat
      <4>1. J(n) = J(n - 1) \cup {n}  BY <1>4, <2>3
      <4>2. \A k \in J(n - 1) : k < n /\ k \in Nat  BY <1>2
      <4>3. QED  BY <4>1, <4>2
    <3>5. \A i \in 1..(m + 1) : i = m + 1 \/ (i \in 1..m /\ i # m + 1)  BY <3>2
    <3>6. g \in [1..(m + 1) -> J(n)]  BY <3>3, <3>4, <3>5
    <3>7. ASSUME NEW i \in 1..(m + 1), NEW j \in 1..(m + 1), i < j PROVE g[i] < g[j]
      <4>1. i \in 1..m /\ i # m + 1  BY <3>2, <3>7
      <4>2. g[i] = h[i] /\ h[i] \in J(n - 1)  BY <3>3, <4>1
      <4>3. CASE j = m + 1  BY <3>4, <4>2, <4>3
      <4>4. CASE j # m + 1  BY <3>3, <3>5, <4>1, <4>2, <4>4, <3>7
      <4>5. QED  BY <4>3, <4>4
    <3>8. ASSUME NEW i \in 1..(m + 1) PROVE f[n][i] = s[g[i]]
          BY <3>2, <3>3, <3>5
    <3>9. ASSUME NEW k \in J(n) PROVE \E i \in 1..(m + 1) : g[i] = k
      <4>1. CASE k = n  BY <3>2, <4>1
      <4>2. CASE k # n
        <5>1. PICK i \in 1..m : h[i] = k  BY <3>3, <3>4, <4>2
        <5>2. i \in 1..(m + 1) /\ g[i] = k  BY <3>2, <5>1
        <5>3. QED  BY <5>2
      <4>3. QED  BY <4>1, <4>2
    <3> HIDE DEF g, J
    <3>10. Positions(g, f[n], s, J(n))  BY <3>2, <3>6, <3>7, <3>8, <3>9 DEF Positions
    <3>11. QED  BY <3>2, <3>10
  <2>4. CASE n \notin I
    <3>1. f[n] = f[n - 1]  BY <1>1, <2>4 DEF Picking
    <3>2. J(n) = J(n - 1)  BY <1>4, <2>4
    <3>3. QED  BY <2>1, <2>2, <3>1, <3>2
  <2>5. QED  BY <2>3, <2>4
<1>6. Good(Len(s))
  <2> HIDE DEF Good
  <2>1. 0 \in G /\ \A n \in 1..Len(s) : n - 1 \in G => n \in G  BY <1>3, <1>5
  <2> HIDE DEF G
  <2>2. \A n \in 0..Len(s) : n \in G  BY <1>2, <2>1, UpTo
  <2>3. QED  BY <2>2 DEF G
<1>7. J(Len(s)) = I  BY <1>2
<1>8. QED  BY <1>1, <1>6, <1>7
-----------------------------------------------------------------------------
(* The pages of a batch. *)
\* p is made of pages of P, each once and in their order: h says which.
Takes(h, p, P) ==
  /\ h \in [1..Len(p) -> 1..Len(P)]
  /\ \A i, j \in 1..Len(p) : i < j => h[i] < h[j]
  /\ \A i \in 1..Len(p) : p[i] = P[h[i]]

LEMMA PagesLength ==
  ASSUME NEW P, IsPages(P)
  PROVE  Len(P) \in Nat /\ Len(P) >= 1 /\ DOMAIN P = 1..Len(P)
  BY DEF IsPages

LEMMA PagesFields ==
  ASSUME NEW P, IsPages(P)
  PROVE  /\ \A i \in 1..Len(P) : P[i].number \in Nat /\ P[i].chars \in Nat \ {0}
         /\ \A i, j \in 1..Len(P) : i < j => P[i].number < P[j].number
<1>1. DOMAIN P = 1..Len(P)  BY PagesLength
<1>2. \A i \in 1..Len(P) : P[i].number \in 1..LargestNumber /\ P[i].chars \in Nat \ {0}
      BY <1>1 DEF IsPages
<1>3. \A i, j \in 1..Len(P) : i < j => P[i].number < P[j].number
      BY <1>1 DEF IsPages
<1>4. \A n \in 1..LargestNumber : n \in Nat  BY DEF LargestNumber
<1>5. QED  BY <1>2, <1>3, <1>4

\* The front window: the pages up to some k.
LEMMA FrontWindow ==
  ASSUME NEW P, IsPages(P), NEW b \in BatchNames
  PROVE  \E k \in 1..Len(P) : Slice(P, BATCH_PAGE_SLICES[b]) = SubSeq(P, 1, k)
<1> DEFINE at == BATCH_PAGE_SLICES[b]
           k == IF at[2] = ToEnd THEN Len(P) ELSE AtMost(at[2], Len(P))
<1>1. Len(P) \in Nat /\ Len(P) >= 1  BY PagesLength
<1>2. at[1] = 0 /\ at[2] \in {3, 4, 5, 8, ToEnd}
      BY DEF BATCH_PAGE_SLICES, BatchNames
<1> HIDE DEF at
<1>3. k \in 1..Len(P)  BY <1>1, <1>2 DEF AtMost, ToEnd
<1>4. Resolve(at, Len(P)) = <<0, k>>
      BY <1>1, <1>2 DEF Resolve, Position, AtMost, ToEnd
<1>5. Slice(P, at) = SubSeq(P, 1, k)
  <2> HIDE DEF k
  <2>1. <<0, k>>[1] + 1 = 1 /\ <<0, k>>[2] = k  OBVIOUS
  <2>2. QED  BY <1>4, <2>1 DEF Slice
<1>6. QED  BY <1>3, <1>5 DEF at

\* The back window: the pages after some m.
LEMMA BackWindow ==
  ASSUME NEW P, IsPages(P)
  PROVE  \E m \in 0..Len(P) : Slice(P, BackMatter) = SubSeq(P, m + 1, Len(P))
<1> DEFINE m == AtLeast(Len(P) + (-3), 0)
<1>1. Len(P) \in Nat /\ Len(P) >= 1  BY PagesLength
<1>2. m \in 0..Len(P)  BY <1>1 DEF AtLeast
<1>3. Resolve(BackMatter, Len(P)) = <<m, Len(P)>>
      BY <1>1 DEF Resolve, Position, AtLeast, BackMatter, ToEnd
<1>4. Slice(P, BackMatter) = SubSeq(P, m + 1, Len(P))
  <2> HIDE DEF m
  <2>1. <<m, Len(P)>>[1] = m /\ <<m, Len(P)>>[2] = Len(P)  OBVIOUS
  <2>2. QED  BY <1>3, <2>1 DEF Slice
<1>5. QED  BY <1>2, <1>4

\* The pages of the back window that are not in the front one come after it.
LEMMA UnseenAfter ==
  ASSUME NEW P, IsPages(P), NEW k \in 1..Len(P), NEW m \in 0..Len(P)
  PROVE  LET p == Unseen(SubSeq(P, m + 1, Len(P)), Numbers(SubSeq(P, 1, k)))
         IN p \in Seq(Range(P)) /\ \E h : Takes(h, p, P) /\ \A i \in 1..Len(p) : h[i] > k
<1> DEFINE s == SubSeq(P, m + 1, Len(P))
           f == SubSeq(P, 1, k)
           I == {i \in DOMAIN s : s[i].number \notin Numbers(f)}
           p == Picked(s, I)
<1>1. Len(P) \in Nat /\ Len(P) >= 1 /\ P \in Seq(Range(P)) /\ DOMAIN P = 1..Len(P)
      BY PagesLength DEF IsPages
<1>2. /\ s \in Seq(Range(P)) /\ Len(s) = Len(P) - m /\ DOMAIN s = 1..Len(s)
      /\ \A i \in 1..Len(s) : s[i] = P[m + i]
  <2>1. m + 1 \in Int /\ Len(P) \in Int /\ \A i \in (m + 1)..Len(P) : P[i] \in Range(P)
        BY <1>1
  <2>2. /\ s \in Seq(Range(P))
        /\ Len(s) = IF m + 1 <= Len(P) THEN Len(P) - (m + 1) + 1 ELSE 0
        /\ \A i \in 1..(Len(P) - (m + 1) + 1) : s[i] = P[(m + 1) + i - 1]
        BY <2>1, SubSeqProperties
  <2> HIDE DEF s
  <2>3. Len(s) = Len(P) - m  BY <1>1, <2>2
  <2>4. \A i \in 1..Len(s) : s[i] = P[m + i]
    <3> TAKE i \in 1..Len(s)
    <3>1. i \in 1..(Len(P) - (m + 1) + 1) /\ (m + 1) + i - 1 = m + i  BY <1>1, <2>3
    <3>2. QED  BY <2>2, <3>1
  <2>5. QED  BY <2>2, <2>3, <2>4
<1>3. \A i \in 1..k : P[i].number \in Numbers(f)
  <2>1. DOMAIN f = 1..k /\ \A i \in 1..k : f[i] = P[i]  BY <1>1
  <2>2. QED  BY <2>1 DEF Numbers
<1> HIDE DEF s, f
<1>4. I \in SUBSET (1..Len(s))  BY <1>2
<1> HIDE DEF I
<1>5. p \in Seq(Range(P)) /\ \E h : Positions(h, p, s, I)  BY <1>2, <1>4, PickedPositions
<1> HIDE DEF p
<1>6. PICK g : Positions(g, p, s, I)  BY <1>5
<1>7. /\ g \in [1..Len(p) -> I] /\ (\A i, j \in 1..Len(p) : i < j => g[i] < g[j])
      /\ \A i \in 1..Len(p) : p[i] = s[g[i]]
      BY <1>6 DEF Positions
<1> DEFINE h == [i \in 1..Len(p) |-> m + g[i]]
<1>8. \A i \in 1..Len(p) : g[i] \in 1..Len(s) /\ h[i] \in 1..Len(P) /\ p[i] = P[h[i]]
  <2> TAKE i \in 1..Len(p)
  <2>1. g[i] \in 1..Len(s)  BY <1>4, <1>7
  <2>2. p[i] = P[m + g[i]]  BY <1>2, <1>7, <2>1
  <2>3. m + g[i] \in 1..Len(P)  BY <1>1, <1>2, <2>1
  <2>4. QED  BY <2>1, <2>2, <2>3
<1>9. \A i, j \in 1..Len(p) : i < j => h[i] < h[j]
  <2> TAKE i, j \in 1..Len(p)
  <2>1. g[i] \in Nat /\ g[j] \in Nat /\ (i < j => g[i] < g[j])  BY <1>1, <1>2, <1>7, <1>8
  <2>2. QED  BY <2>1
<1>10. \A i \in 1..Len(p) : h[i] > k
  <2> TAKE i \in 1..Len(p)
  <2>1. g[i] \in I /\ g[i] \in 1..Len(s)  BY <1>7, <1>8
  <2>2. P[h[i]].number \notin Numbers(f)  BY <1>2, <2>1 DEF I
  <2>3. h[i] \notin 1..k  BY <1>3, <2>2
  <2>4. QED  BY <1>8, <2>3
<1>11. Takes(h, p, P)  BY <1>8, <1>9 DEF Takes
<1>12. p = Unseen(SubSeq(P, m + 1, Len(P)), Numbers(SubSeq(P, 1, k)))
       BY DEF Unseen, p, I, s, f
<1>13. QED  BY <1>5, <1>10, <1>11, <1>12

\* What comes after a front of k pages continues it.
LEMMA FrontThen ==
  ASSUME NEW P, IsPages(P), NEW k \in 1..Len(P), NEW p \in Seq(Range(P)), NEW g,
         Takes(g, p, P), \A i \in 1..Len(p) : g[i] > k
  PROVE  LET q == SubSeq(P, 1, k) \o p
         IN q \in Seq(Range(P)) /\ Len(q) = k + Len(p) /\ \E h : Takes(h, q, P)
<1> DEFINE f == SubSeq(P, 1, k)
           q == f \o p
           h == [i \in 1..(k + Len(p)) |-> IF i <= k THEN i ELSE g[i - k]]
<1>1. Len(P) \in Nat /\ P \in Seq(Range(P))  BY PagesLength DEF IsPages
<1>2. f \in Seq(Range(P)) /\ Len(f) = k /\ \A i \in 1..k : f[i] = P[i]  BY <1>1
<1> HIDE DEF f
<1>3. Len(p) \in Nat /\ k \in Nat  BY <1>1
<1>4. /\ q \in Seq(Range(P)) /\ Len(q) = k + Len(p)
      /\ \A i \in 1..Len(q) : q[i] = IF i <= k THEN f[i] ELSE p[i - k]
  <2> DEFINE R == Range(P)
  <2> HIDE DEF R
  <2>1. f \in Seq(R) /\ p \in Seq(R)  BY <1>2 DEF R
  <2>2. /\ q \in Seq(R) /\ Len(q) = Len(f) + Len(p)
        /\ \A i \in 1..(Len(f) + Len(p)) : q[i] = IF i <= Len(f) THEN f[i] ELSE p[i - Len(f)]
        BY <2>1, ConcatProperties
  <2> HIDE DEF q
  <2>3. QED  BY <1>2, <2>2 DEF R
<1>5. /\ g \in [1..Len(p) -> 1..Len(P)] /\ (\A i, j \in 1..Len(p) : i < j => g[i] < g[j])
      /\ \A i \in 1..Len(p) : p[i] = P[g[i]]
      BY DEF Takes
<1>6. \A i \in 1..(k + Len(p)) : (i <= k /\ i \in 1..k) \/ (~(i <= k) /\ i - k \in 1..Len(p))
      BY <1>3
<1> HIDE DEF q
<1>7. \A i \in 1..Len(q) : h[i] \in 1..Len(P) /\ q[i] = P[h[i]]
  <2> TAKE i \in 1..Len(q)
  <2>1. CASE i <= k
    <3>1. i \in 1..k /\ h[i] = i /\ q[i] = f[i]  BY <1>4, <1>6, <2>1
    <3>2. i \in 1..Len(P)  BY <1>1, <3>1
    <3>3. QED  BY <1>2, <3>1, <3>2
  <2>2. CASE ~(i <= k)
    <3>1. i - k \in 1..Len(p) /\ h[i] = g[i - k] /\ q[i] = p[i - k]  BY <1>4, <1>6, <2>2
    <3>2. QED  BY <1>5, <3>1
  <2>3. QED  BY <2>1, <2>2
<1>8. ASSUME NEW i \in 1..Len(q), NEW j \in 1..Len(q), i < j PROVE h[i] < h[j]
  <2>1. CASE j <= k  BY <1>3, <1>4, <1>8, <2>1
  <2>2. CASE i <= k /\ ~(j <= k)
    <3>1. h[i] = i /\ h[j] = g[j - k] /\ j - k \in 1..Len(p)  BY <1>4, <1>6, <2>2
    <3>2. g[j - k] \in Nat /\ g[j - k] > k  BY <1>1, <1>5, <3>1
    <3>3. QED  BY <1>3, <2>2, <3>1, <3>2
  <2>3. CASE ~(i <= k)
    <3>1. ~(j <= k) /\ i - k < j - k  BY <1>3, <1>8, <2>3
    <3>2. h[i] = g[i - k] /\ h[j] = g[j - k] /\ i - k \in 1..Len(p) /\ j - k \in 1..Len(p)
          BY <1>4, <1>6, <2>3, <3>1
    <3>3. QED  BY <1>5, <3>1, <3>2
  <2>4. QED  BY <2>1, <2>2, <2>3
<1>9. Takes(h, q, P)  BY <1>4, <1>7, <1>8 DEF Takes
<1>10. QED  BY <1>4, <1>9 DEF q, f

\* A batch is sent pages of the book, each once, in order, at least one.
LEMMA SelectedPages ==
  ASSUME NEW P, IsPages(P), NEW b \in BatchNames
  PROVE  LET p == SelectPages(P, b)
         IN p \in Seq(Range(P)) /\ Len(p) >= 1 /\ \E h : Takes(h, p, P)
<1> DEFINE front == Slice(P, BATCH_PAGE_SLICES[b])
           back == IF b \in DOMAIN BACK_MATTER_SLICES
                     THEN Unseen(Slice(P, BACK_MATTER_SLICES[b]), Numbers(front))
                     ELSE <<>>
           q == front \o back
<1>1. PICK k \in 1..Len(P) : front = SubSeq(P, 1, k)  BY FrontWindow
<1>2. back \in Seq(Range(P)) /\ \E g : Takes(g, back, P) /\ \A i \in 1..Len(back) : g[i] > k
  <2>1. CASE b \in DOMAIN BACK_MATTER_SLICES
    <3>1. BACK_MATTER_SLICES[b] = BackMatter  BY <2>1 DEF BACK_MATTER_SLICES
    <3>2. PICK m \in 0..Len(P) : Slice(P, BackMatter) = SubSeq(P, m + 1, Len(P))
          BY BackWindow
    <3>3. back = Unseen(SubSeq(P, m + 1, Len(P)), Numbers(SubSeq(P, 1, k)))
          BY <1>1, <2>1, <3>1, <3>2
    <3> HIDE DEF back, front
    <3>4. QED  BY <3>3, UnseenAfter
  <2>2. CASE b \notin DOMAIN BACK_MATTER_SLICES
    <3>1. back = <<>>  BY <2>2
    <3>2. Takes(<<>>, <<>>, P)  BY DEF Takes
    <3>3. <<>> \in Seq(Range(P)) /\ \A i \in 1..Len(<<>>) : <<>>[i] > k  OBVIOUS
    <3> HIDE DEF back, front
    <3>4. QED  BY <3>1, <3>2, <3>3
  <2>3. QED  BY <2>1, <2>2
<1> HIDE DEF front, back
<1>3. PICK g : Takes(g, back, P) /\ \A i \in 1..Len(back) : g[i] > k  BY <1>2
<1>4. q \in Seq(Range(P)) /\ Len(q) = k + Len(back) /\ \E h : Takes(h, q, P)
      BY <1>1, <1>2, <1>3, FrontThen
<1>5. Len(q) >= 1  BY <1>2, <1>4
<1>6. q # <<>>  BY <1>5
<1>7. SelectPages(P, b) = q  BY <1>6 DEF SelectPages, front, back
<1>8. QED  BY <1>4, <1>5, <1>7
-----------------------------------------------------------------------------
(* The text of a prompt. *)
\* The text of pages p in a budget of max characters.
IsText(p) ==
  \E S : /\ p \in Seq(S) /\ Len(p) >= 1
         /\ \A i \in 1..Len(p) : p[i].number \in Nat /\ p[i].chars \in Nat \ {0}

LEMMA TakenText ==
  ASSUME NEW P, IsPages(P), NEW p \in Seq(Range(P)), Len(p) >= 1, NEW h, Takes(h, p, P)
  PROVE  /\ IsText(p)
         /\ \A i, j \in 1..Len(p) : i < j => p[i].number < p[j].number
<1>1. /\ h \in [1..Len(p) -> 1..Len(P)] /\ (\A i, j \in 1..Len(p) : i < j => h[i] < h[j])
      /\ \A i \in 1..Len(p) : p[i] = P[h[i]]
      BY DEF Takes
<1>2. DOMAIN P = 1..Len(P)  BY PagesLength
<1>3. /\ \A i \in 1..Len(P) : P[i].number \in Nat /\ P[i].chars \in Nat \ {0}
      /\ \A i, j \in 1..Len(P) : i < j => P[i].number < P[j].number
      BY PagesFields
<1>4. \A i \in 1..Len(p) : h[i] \in 1..Len(P)  BY <1>1
<1>5. \A i \in 1..Len(p) : p[i].number \in Nat /\ p[i].chars \in Nat \ {0}
      BY <1>1, <1>3, <1>4
<1>6. \A i, j \in 1..Len(p) : i < j => p[i].number < p[j].number
  <2> TAKE i, j \in 1..Len(p)
  <2>1. h[i] \in 1..Len(P) /\ h[j] \in 1..Len(P)  BY <1>4
  <2>2. p[i] = P[h[i]] /\ p[j] = P[h[j]] /\ (i < j => h[i] < h[j])  BY <1>1
  <2>3. QED  BY <1>3, <2>1, <2>2
<1>7. QED  BY <1>5, <1>6 DEF IsText

\* What a page takes with its header and the separator.
Takeup(p, i, max) == Header(p[i]) + Used(p, i, max) + Separator

LEMMA Budget ==
  ASSUME NEW p, IsText(p), NEW max \in Nat
  PROVE  PageBudget(p, max) = max \div Len(p) /\ PageBudget(p, max) \in Nat
<1> DEFINE n == Len(p)
           B == PageBudget(p, max)
<1>1. n \in Nat /\ n >= 1  BY DEF IsText
<1>2. B = max \div AtLeast(n, 1)  BY DEF PageBudget
<1> HIDE DEF n, B
<1>3. B = max \div n  BY <1>1, <1>2 DEF AtLeast
<1>4. B \in Nat  BY <1>1, <1>3
<1>5. QED  BY <1>3, <1>4 DEF n, B

LEMMA Parts ==
  ASSUME NEW p, IsText(p), NEW max \in Nat
  PROVE  /\ Len(p) \in Nat /\ Len(p) >= 1 /\ DOMAIN p = 1..Len(p)
         /\ PageBudget(p, max) \in Nat
         /\ \A i \in 1..Len(p) :
              /\ Header(p[i]) \in 9..12 /\ Used(p, i, max) \in Nat
              /\ Takeup(p, i, max) \in Nat /\ Takeup(p, i, max) <= 19 + PageBudget(p, max)
              /\ Used(p, i, max) <= PageBudget(p, max)
              /\ PageBudget(p, max) > 0 => Used(p, i, max) > 0
<1>1. /\ Len(p) \in Nat /\ Len(p) >= 1 /\ DOMAIN p = 1..Len(p)
      /\ \A i \in 1..Len(p) : p[i].number \in Nat /\ p[i].chars \in Nat \ {0}
      BY DEF IsText
<1> DEFINE n == Len(p)
           B == PageBudget(p, max)
<1>2. B \in Nat  BY Budget
<1> HIDE DEF n, B
<1>3. ASSUME NEW i \in 1..n
      PROVE  /\ Header(p[i]) \in 9..12 /\ Used(p, i, max) \in Nat
             /\ Takeup(p, i, max) \in Nat /\ Takeup(p, i, max) <= 19 + B
             /\ Used(p, i, max) <= B
             /\ B > 0 => Used(p, i, max) > 0
  <2>1. p[i].number \in Nat /\ p[i].chars \in Nat \ {0}  BY <1>1 DEF n
  <2>2. Header(p[i]) \in 9..12  BY <2>1 DEF Header, Digits
  <2>3. Used(p, i, max) = AtMost(p[i].chars, B)  BY DEF Used, B
  <2>4. Used(p, i, max) \in Nat /\ Used(p, i, max) <= B /\ (B > 0 => Used(p, i, max) > 0)
        BY <1>2, <2>1, <2>3 DEF AtMost
  <2>5. Takeup(p, i, max) \in Nat /\ Takeup(p, i, max) <= 19 + B
        BY <1>2, <2>2, <2>4 DEF Takeup, Separator
  <2>6. QED  BY <2>2, <2>4, <2>5
<1>4. QED  BY <1>1, <1>2, <1>3 DEF n, B

\* The sum of what the pages take, as the function it is.
LEMMA EndsAre ==
  ASSUME NEW p, IsText(p), NEW max \in Nat
  PROVE  /\ Ends(p, max) \in [0..Len(p) -> Nat] /\ Ends(p, max)[0] = 0
         /\ \A i \in 1..Len(p) : Ends(p, max)[i] = Ends(p, max)[i - 1] + Takeup(p, i, max)
<1> DEFINE N == Len(p)
           G == [x \in Nat \X (1..N) |-> x[1] + Takeup(p, x[2], max)]
           Solves(f) == f = [i \in 0..N |-> IF i = 0 THEN 0
                           ELSE f[i - 1] + Header(p[i]) + Used(p, i, max) + Separator]
<1>1. N \in Nat /\ \A i \in 1..N : Takeup(p, i, max) \in Nat
                     /\ Header(p[i]) \in Nat /\ Used(p, i, max) \in Nat
  <2>1. \A h \in 9..12 : h \in Nat  OBVIOUS
  <2>2. QED  BY <2>1, Parts
<1>2. G \in Steps(Nat, N)  BY <1>1 DEF Steps
<1>3. PICK f : Follows(f, Nat, N, 0, G)
  <2> HIDE DEF G, N
  <2>1. QED  BY <1>1, <1>2, Recursion
<1> HIDE DEF N
<1>4. f \in [0..N -> Nat] /\ f[0] = 0 /\ \A n \in 1..N : f[n] = G[<<f[n - 1], n>>]
      BY <1>3 DEF Follows
<1>5. ASSUME NEW i \in 1..N
      PROVE  /\ f[i] = f[i - 1] + Takeup(p, i, max)
             /\ f[i] = f[i - 1] + Header(p[i]) + Used(p, i, max) + Separator
  <2>1. i - 1 \in 0..N  BY <1>1
  <2>2. f[i - 1] \in Nat /\ f[i] = G[<<f[i - 1], i>>]  BY <1>4, <2>1
  <2>3. f[i] = f[i - 1] + Takeup(p, i, max)  BY <2>2
  <2>4. QED  BY <1>1, <2>2, <2>3 DEF Takeup, Separator
<1>6. Solves(f)
  <2>1. \A n \in 0..N : n = 0 \/ n \in 1..N  BY <1>1
  <2> HIDE DEF G
  <2>2. f = [n \in 0..N |-> f[n]]  BY <1>4
  <2>3. QED  BY <1>4, <1>5, <2>1, <2>2
<1> DEFINE u == CHOOSE g : Solves(g)
<1>7. Solves(u)  BY <1>6
<1>8. Ends(p, max) = u  BY DEF Ends, N
<1> HIDE DEF u
<1>9. /\ DOMAIN u = 0..N /\ u[0] = 0
      /\ \A i \in 1..N : u[i] = u[i - 1] + Header(p[i]) + Used(p, i, max) + Separator
      BY <1>1, <1>7
<1> DEFINE T == {n \in 0..N : u[n] \in Nat}
<1>10. \A n \in 0..N : u[n] \in Nat
  <2>1. 0 \in T /\ \A n \in 1..N : n - 1 \in T => n \in T  BY <1>1, <1>9 DEF Separator
  <2> HIDE DEF T
  <2>2. \A n \in 0..N : n \in T  BY <1>1, <2>1, UpTo
  <2>3. QED  BY <2>2 DEF T
<1>11. u \in [0..N -> Nat]  BY <1>7, <1>9, <1>10
<1>12. \A i \in 1..N : u[i] = u[i - 1] + Takeup(p, i, max)
  <2> TAKE i \in 1..N
  <2>1. u[i - 1] \in Nat /\ Header(p[i]) \in Nat /\ Used(p, i, max) \in Nat
        BY <1>1, <1>10
  <2>2. QED  BY <1>9, <2>1 DEF Takeup, Separator
<1>13. QED  BY <1>8, <1>9, <1>11, <1>12 DEF N

\* The ends of the pages rise, by no more than a header, a separator and the
\* budget of a page each.
LEMMA EndsBounds ==
  ASSUME NEW p, IsText(p), NEW max \in Nat
  PROVE  /\ \A i \in 0..Len(p) : Ends(p, max)[i] <= i * (19 + PageBudget(p, max))
         /\ \A i \in 1..Len(p) : \A j \in i..Len(p) : Ends(p, max)[i] <= Ends(p, max)[j]
<1> DEFINE N == Len(p)
           e == Ends(p, max)
           K == 19 + PageBudget(p, max)
           S == {n \in 0..N : e[n] <= n * K}
           T == {n \in 0..N : \A i \in 0..n : e[i] <= e[n]}
<1>1. /\ N \in Nat /\ K \in Nat
      /\ \A i \in 1..N : Takeup(p, i, max) \in Nat /\ Takeup(p, i, max) <= K
  <2> DEFINE B == PageBudget(p, max)
  <2>1. /\ N \in Nat /\ B \in Nat
        /\ \A i \in 1..N : Takeup(p, i, max) \in Nat /\ Takeup(p, i, max) <= 19 + B
        BY Parts
  <2>2. 19 + B \in Nat  BY <2>1
  <2>3. QED  BY <2>1, <2>2
<1>2. /\ e \in [0..N -> Nat] /\ e[0] = 0
      /\ \A i \in 1..N : e[i] = e[i - 1] + Takeup(p, i, max)
      BY EndsAre
<1> HIDE DEF N, e, K
<1>3. \A n \in 0..N : n \in S
  <2>1. 0 \in S  BY <1>1, <1>2
  <2>2. ASSUME NEW n \in 1..N, n - 1 \in S PROVE n \in S
    <3>1. e[n - 1] \in Nat /\ e[n - 1] <= (n - 1) * K /\ n \in Nat  BY <1>1, <1>2, <2>2
    <3>2. (n - 1) * K + K = n * K /\ (n - 1) * K \in Int  BY <1>1
    <3>3. e[n] <= n * K  BY <1>1, <1>2, <3>1, <3>2
    <3>4. QED  BY <3>3
  <2> HIDE DEF S
  <2>3. QED  BY <1>1, <2>1, <2>2, UpTo
<1>4. \A n \in 0..N : n \in T
  <2>1. 0 \in T  BY <1>1, <1>2
  <2>2. ASSUME NEW n \in 1..N, n - 1 \in T PROVE n \in T
    <3>1. \A i \in 0..(n - 1) : e[i] <= e[n - 1]  BY <2>2
    <3>2. e[n - 1] \in Nat /\ e[n] \in Nat /\ e[n - 1] <= e[n]  BY <1>1, <1>2
    <3>3. \A i \in 0..n : i = n \/ (i \in 0..(n - 1) /\ e[i] \in Nat)  BY <1>1, <1>2
    <3>4. \A i \in 0..n : e[i] <= e[n]  BY <3>1, <3>2, <3>3
    <3>5. QED  BY <3>4
  <2> HIDE DEF T
  <2>3. QED  BY <1>1, <2>1, <2>2, UpTo
<1>5. \A i \in 1..N : \A j \in i..N : j \in 0..N /\ i \in 0..j  BY <1>1
<1>6. QED  BY <1>3, <1>4, <1>5 DEF N, e, K

\* Where the texts begin: in the order of the pages, each after the one before.
LEMMA Starts ==
  ASSUME NEW p, IsText(p), NEW max \in Nat
  PROVE  /\ \A i \in 1..Len(p) : TextStart(p, i, max) \in Nat
         /\ TextStart(p, 1, max) <= 12
         /\ \A i, j \in 1..Len(p) :
              i < j => TextStart(p, i, max) + Used(p, i, max) + 7 < TextStart(p, j, max)
<1> DEFINE N == Len(p)
           e == Ends(p, max)
           head(i) == Header(p[i])
           used(i) == Used(p, i, max)
<1>1. N \in Nat /\ N >= 1 /\ \A i \in 1..N : head(i) \in 9..12 /\ used(i) \in Nat
  BY Parts
<1>2. /\ e \in [0..N -> Nat] /\ e[0] = 0
      /\ \A i \in 1..N : e[i] = e[i - 1] + Takeup(p, i, max)
  BY EndsAre
<1>3. \A i \in 1..N : \A j \in i..N : e[i] <= e[j]  BY EndsBounds
<1>4. \A i \in 1..N : TextStart(p, i, max) = e[i - 1] + head(i)  BY DEF TextStart
<1>5. \A i \in 1..N : e[i] = e[i - 1] + (head(i) + used(i) + 7)
  BY <1>2 DEF Takeup, Separator
<1> HIDE DEF N, e, head, used
<1>6. ASSUME NEW i \in 1..N
      PROVE  e[i - 1] \in Nat /\ head(i) \in 9..12 /\ used(i) \in Nat
  BY <1>1, <1>2
<1>7. \A i \in 1..N : TextStart(p, i, max) \in Nat  BY <1>4, <1>6
<1>8. TextStart(p, 1, max) <= 12
  <2>1. 1 \in 1..N /\ e[1 - 1] = 0  BY <1>1, <1>2
  <2>2. QED  BY <1>4, <1>6, <2>1
<1>9. ASSUME NEW i \in 1..N, NEW j \in 1..N, i < j
      PROVE  TextStart(p, i, max) + used(i) + 7 < TextStart(p, j, max)
  <2>1. j - 1 \in i..N /\ i \in 1..N  BY <1>1, <1>9
  <2>2. e[i] <= e[j - 1]  BY <1>3, <2>1
  <2>3. e[i] = e[i - 1] + (head(i) + used(i) + 7)  BY <1>5
  <2>4. QED  BY <1>4, <1>6, <2>2, <2>3
<1>10. QED  BY <1>7, <1>8, <1>9 DEF N, used

\* The cut falls in a page of the prompt, and no more than that is kept.
LEMMA CutSomewhere ==
  ASSUME NEW p, IsText(p), NEW max \in Nat, max >= LeastBudget
  PROVE  /\ UnderCut(p, max) \in 1..Len(p)
         /\ TextStart(p, UnderCut(p, max), max) <= max - 4
         /\ TextStart(p, Len(p), max) <= max - 4 => UnderCut(p, max) = Len(p)
<1> DEFINE N == Len(p)
           start(i) == TextStart(p, i, max)
           Under(i) == start(i) <= max - 4 /\ (i < N => start(i + 1) > max - 4)
           u == CHOOSE i \in DOMAIN p : Under(i)
<1>1. N \in Nat /\ N >= 1 /\ DOMAIN p = 1..N  BY Parts
<1>2. /\ \A i \in 1..N : start(i) \in Nat
      /\ start(1) <= 12
      /\ \A i, j \in 1..N : i < j => start(i) < start(j)
  <2> DEFINE used(i) == Used(p, i, max)
  <2>1. /\ \A i \in 1..N : start(i) \in Nat /\ used(i) \in Nat
        /\ start(1) <= 12
        /\ \A i, j \in 1..N : i < j => start(i) + used(i) + 7 < start(j)
    BY Parts, Starts
  <2> HIDE DEF start, used, N
  <2>2. ASSUME NEW i \in 1..N, NEW j \in 1..N, i < j PROVE start(i) < start(j)
    <3>1. start(i) \in Nat /\ start(j) \in Nat /\ used(i) \in Nat  BY <2>1
    <3>2. start(i) + used(i) + 7 < start(j)  BY <2>1, <2>2
    <3>3. QED  BY <3>1, <3>2
  <2>3. QED  BY <2>1, <2>2
<1>3. UnderCut(p, max) = u  BY DEF UnderCut
<1> HIDE DEF N, start, u
<1>4. \E i \in 1..N : Under(i)
  <2> DEFINE T == {k \in Nat : k < N /\ start(N - k) <= max - 4}
  <2>1. N - 1 \in T  BY <1>1, <1>2 DEF LeastBudget
  <2>2. PICK k \in T : \A y \in T : k <= y  BY <2>1, LeastOf
  <2>3. k \in Nat /\ k < N /\ start(N - k) <= max - 4  BY <2>2
  <2>4. N - k \in 1..N  BY <1>1, <2>3
  <2>5. ASSUME N - k < N PROVE start(N - k + 1) > max - 4
    <3>1. k - 1 \in Nat /\ k - 1 < N /\ N - (k - 1) = N - k + 1 /\ ~(k <= k - 1)
      BY <1>1, <2>3, <2>5
    <3>2. k - 1 \notin T  BY <2>2, <3>1
    <3>3. ~(start(N - k + 1) <= max - 4)  BY <3>1, <3>2
    <3>4. start(N - k + 1) \in Nat  BY <1>1, <1>2, <2>3, <2>5
    <3>5. QED  BY <3>3, <3>4
  <2> HIDE DEF T
  <2>6. QED  BY <2>3, <2>4, <2>5
<1>5. u \in 1..N /\ Under(u)  BY <1>1, <1>4 DEF u
<1>6. ASSUME start(N) <= max - 4 PROVE u = N
  <2>1. SUFFICES ASSUME u # N PROVE FALSE  OBVIOUS
  <2>2. u + 1 \in 1..N /\ u < N /\ N \in 1..N  BY <1>1, <1>5, <2>1
  <2>3. start(u + 1) \in Nat /\ start(N) \in Nat /\ (u + 1 < N => start(u + 1) < start(N))
    BY <1>2, <2>2
  <2>4. u + 1 = N \/ u + 1 < N  BY <2>2
  <2>5. start(u + 1) > max - 4  BY <1>5, <2>2
  <2>6. QED  BY <1>6, <2>3, <2>4, <2>5
<1>7. QED  BY <1>3, <1>5, <1>6 DEF N, start

LEMMA KeptIs ==
  ASSUME NEW p, IsText(p), NEW max \in Nat, max >= LeastBudget, NEW wd \in Nat
  PROVE  LET kept == KeptHead(p, max, wd)
             start == TextStart(p, UnderCut(p, max), max)
         IN /\ kept \in Int /\ start \in Nat
            /\ kept <= max - 4 /\ kept >= start - 1 /\ kept >= max - 4 - wd
<1> DEFINE start == TextStart(p, UnderCut(p, max), max)
           ws == LastBlank(p, max, wd)
<1>1. start \in Nat /\ start <= max - 4  BY CutSomewhere, Starts
<1>2. ws = AtLeast(max - 4 - wd, start - 1)  BY DEF LastBlank
<1>3. KeptHead(p, max, wd) = IF ws > max \div 2 THEN ws ELSE max - 4  BY DEF KeptHead
<1> HIDE DEF start, ws
<1>4. ws \in Int /\ ws <= max - 4 /\ ws >= start - 1 /\ ws >= max - 4 - wd
  BY <1>1, <1>2 DEF AtLeast
<1>5. QED  BY <1>1, <1>3, <1>4 DEF start

\* What assemble_ocr_text returns is no longer than the budget.
LEMMA WithinBudget ==
  ASSUME NEW p, IsText(p), NEW max \in Nat, max >= LeastBudget, NEW wd \in Nat
  PROVE  Assemble(p, max, wd).length <= max
<1>1. JoinedLength(p, max) \in Nat
  <2>1. Len(p) \in 1..Len(p)  BY Parts
  <2>2. TextStart(p, Len(p), max) \in Nat /\ Used(p, Len(p), max) \in Nat
    BY <2>1, Starts, Parts
  <2>3. QED  BY <2>2 DEF JoinedLength
<1>2. KeptHead(p, max, wd) \in Int /\ KeptHead(p, max, wd) <= max - 4  BY KeptIs
<1>3. QED  BY <1>1, <1>2 DEF Assemble

\* What eleven headers and separators leave of a budget of 2500.
LEMMA RoomForAll ==
  ASSUME NEW N \in 1..11, NEW max \in Nat, max >= LeastBudget
  PROVE  LET B == max \div N IN B \in Nat /\ B > 0 /\ (N - 1) * (19 + B) + 12 < max - 25
<1>1. N \in {1, 2, 3, 4, 5, 6, 7, 8, 9, 10, 11}  OBVIOUS
<1>2. CASE N = 1  BY <1>2 DEF LeastBudget
<1>3. CASE N = 2  BY <1>3 DEF LeastBudget
<1>4. CASE N = 3  BY <1>4 DEF LeastBudget
<1>5. CASE N = 4  BY <1>5 DEF LeastBudget
<1>6. CASE N = 5  BY <1>6 DEF LeastBudget
<1>7. CASE N = 6  BY <1>7 DEF LeastBudget
<1>8. CASE N = 7  BY <1>8 DEF LeastBudget
<1>9. CASE N = 8  BY <1>9 DEF LeastBudget
<1>10. CASE N = 9  BY <1>10 DEF LeastBudget
<1>11. CASE N = 10  BY <1>11 DEF LeastBudget
<1>12. CASE N = 11  BY <1>12 DEF LeastBudget
<1>13. QED  BY <1>1, <1>2, <1>3, <1>4, <1>5, <1>6, <1>7, <1>8, <1>9, <1>10, <1>11, <1>12

\* What is heard of a page: the cut falls in the text of the last one.
LEMMA AllHeard ==
  ASSUME NEW p, IsText(p), NEW max \in Nat, max >= LeastBudget, NEW wd \in Nat,
         Len(p) <= LongestWindow
  PROVE  LET heard == Assemble(p, max, wd).heard
         IN /\ \A i \in 1..Len(p) : i < Len(p) => heard[i] = Used(p, i, max)
            /\ wd <= LongestWord => heard[Len(p)] > 0
<1> DEFINE N == Len(p)
           B == PageBudget(p, max)
           start(i) == TextStart(p, i, max)
           used(i) == Used(p, i, max)
           joined == JoinedLength(p, max)
           kept == KeptHead(p, max, wd)
           cut == IF joined > max THEN kept ELSE joined
           heard == Assemble(p, max, wd).heard
<1>1. N \in 1..11 /\ N \in 1..N /\ DOMAIN p = 1..N /\ B = max \div N
  <2>1. N \in Nat /\ N >= 1 /\ DOMAIN p = 1..N /\ N <= 11  BY Parts DEF LongestWindow
  <2>2. B = max \div N  BY Budget
  <2> HIDE DEF N, B
  <2>3. QED  BY <2>1, <2>2
<1>2. \A i \in 1..N : start(i) \in Nat /\ used(i) \in Nat /\ (B > 0 => used(i) > 0)
  BY Parts, Starts
<1>3. \A i \in 1..N : i < N => start(i) + used(i) + 7 < start(N)  BY <1>1, Starts
<1>4. B \in Nat /\ B > 0 /\ (N - 1) * (19 + B) + 12 < max - 25
  <2> DEFINE D == max \div N
  <2>1. D \in Nat /\ D > 0 /\ (N - 1) * (19 + D) + 12 < max - 25  BY <1>1, RoomForAll
  <2>2. B = D  BY <1>1
  <2> HIDE DEF D
  <2>3. QED  BY <2>1, <2>2
<1>5. start(N) < max - 25
  <2> DEFINE back == Ends(p, max)[N - 1]
             head == Header(p[N])
             room == (N - 1) * (19 + B)
  <2>1. N - 1 \in 0..N  BY <1>1
  <2>2. back \in Nat /\ back <= room  BY <2>1, EndsAre, EndsBounds
  <2>3. head \in 9..12  BY <1>1, Parts
  <2>4. start(N) = back + head  BY DEF TextStart
  <2>5. room \in Int /\ room + 12 < max - 25  BY <1>1, <1>4
  <2> HIDE DEF back, head, room, start
  <2>6. QED  BY <2>2, <2>3, <2>4, <2>5
<1>6. joined = start(N) + used(N)  BY DEF JoinedLength
<1>7. kept \in Int /\ kept >= start(N) - 1 /\ kept >= max - 4 - wd
  <2>1. UnderCut(p, max) = N
    <3>1. start(N) <= max - 4  BY <1>1, <1>2, <1>5
    <3>2. QED  BY <3>1, CutSomewhere
  <2>2. QED  BY <2>1, KeptIs
<1>8. \A i \in 1..N : heard[i] = AtLeast(AtMost(used(i), cut - start(i)), 0)
  BY <1>1 DEF Assemble
<1> HIDE DEF N, B, start, used, joined, kept, heard
<1>9. ASSUME NEW i \in 1..N, i < N PROVE heard[i] = used(i)
  <2>1. start(i) \in Nat /\ used(i) \in Nat /\ start(N) \in Nat /\ used(N) \in Nat
        /\ start(i) + used(i) + 7 < start(N)
    BY <1>1, <1>2, <1>3, <1>9
  <2>2. cut \in Int /\ cut - start(i) >= used(i)  BY <1>6, <1>7, <2>1
  <2> HIDE DEF cut
  <2>3. QED  BY <1>8, <2>1, <2>2 DEF AtLeast, AtMost
<1>10. ASSUME wd <= LongestWord PROVE heard[N] > 0
  <2>1. start(N) \in Nat /\ used(N) \in Nat /\ used(N) > 0  BY <1>1, <1>2, <1>4
  <2>2. cut \in Int /\ cut > start(N)  BY <1>5, <1>6, <1>7, <1>10, <2>1 DEF LongestWord
  <2> HIDE DEF cut
  <2>3. QED  BY <1>1, <1>8, <2>1, <2>2 DEF AtLeast, AtMost
<1>11. QED  BY <1>9, <1>10 DEF N, used, heard
-----------------------------------------------------------------------------
(* The extractors. *)
\* Flattening does not leave the set.
LEMMA Flattened ==
  ASSUME NEW T, NEW s \in Seq(Seq(T))
  PROVE  FlattenSeq(s) \in Seq(T)
<1> DEFINE N == Len(s)
           G == [x \in Seq(T) \X (1..N) |-> IF x[2] = 1 THEN s[1] ELSE x[1] \o s[x[2]]]
           Solves(f) == f = [i \in 1..N |-> IF i = 1 THEN s[i] ELSE f[i - 1] \o s[i]]
<1>1. N \in Nat /\ (\A i \in 1..N : s[i] \in Seq(T)) /\ <<>> \in Seq(T)  OBVIOUS
<1>2. CASE N = 0
  <2>1. FlattenSeq(s) = s  BY <1>2 DEF FlattenSeq
  <2>2. s = <<>>  BY <1>2
  <2>3. QED  BY <1>1, <2>1, <2>2
<1>3. CASE N # 0
  <2>1. FlattenSeq(s) = (CHOOSE f : Solves(f))[N]  BY <1>3 DEF FlattenSeq
  <2> HIDE DEF N
  <2>2. N >= 1 /\ 1 \in 1..N /\ N \in 1..N  BY <1>1, <1>3
  <2>3. G \in Steps(Seq(T), N)
    <3>1. ASSUME NEW x \in Seq(T) \X (1..N)
          PROVE  (IF x[2] = 1 THEN s[1] ELSE x[1] \o s[x[2]]) \in Seq(T)
      <4>1. x[1] \in Seq(T) /\ s[x[2]] \in Seq(T) /\ s[1] \in Seq(T)  BY <1>1, <2>2
      <4>2. x[1] \o s[x[2]] \in Seq(T)  BY <4>1
      <4>3. QED  BY <4>1, <4>2
    <3>2. QED  BY <3>1 DEF Steps
  <2>4. PICK f : Follows(f, Seq(T), N, <<>>, G)
    <3> HIDE DEF G
    <3>1. QED  BY <1>1, <2>3, Recursion
  <2> DEFINE g == [i \in 1..N |-> f[i]]
  <2>5. \A i \in 0..N : f[i] \in Seq(T)  BY <2>4 DEF Follows
  <2>6. ASSUME NEW i \in 1..N PROVE g[i] = IF i = 1 THEN s[i] ELSE g[i - 1] \o s[i]
    <3>1. i - 1 \in 0..N /\ (i # 1 => i - 1 \in 1..N)  BY <1>1
    <3>2. <<f[i - 1], i>> \in Seq(T) \X (1..N)  BY <2>5, <3>1
    <3>3. f[i] = G[<<f[i - 1], i>>]  BY <2>4 DEF Follows
    <3>4. f[i] = IF i = 1 THEN s[1] ELSE f[i - 1] \o s[i]  BY <3>2, <3>3
    <3>5. QED  BY <3>1, <3>4
  <2>7. Solves(g)
    <3>1. g = [i \in 1..N |-> g[i]]  OBVIOUS
    <3> HIDE DEF g
    <3>2. QED  BY <2>6, <3>1
  <2> DEFINE u == CHOOSE h : Solves(h)
  <2>8. Solves(u)  BY <2>7
  <2>9. \A i \in 1..N : u[i] = IF i = 1 THEN s[i] ELSE u[i - 1] \o s[i]  BY <2>8
  <2>10. FlattenSeq(s) = u[N]  BY <2>1
  <2> HIDE DEF u
  <2> DEFINE S == {n \in 0..N : n = 0 \/ u[n] \in Seq(T)}
  <2>11. ASSUME NEW n \in 1..N, n - 1 \in S PROVE n \in S
    <3>1. s[n] \in Seq(T)  BY <1>1
    <3>2. CASE n = 1  BY <2>9, <3>1, <3>2
    <3>3. CASE n # 1
      <4>1. u[n - 1] \in Seq(T)  BY <1>1, <2>11, <3>3
      <4>2. u[n - 1] \o s[n] \in Seq(T)  BY <3>1, <4>1
      <4>3. u[n] = u[n - 1] \o s[n]  BY <2>9, <3>3
      <4>4. u[n] \in Seq(T) /\ n \in 0..N  BY <1>1, <4>2, <4>3
      <4>5. QED  BY <4>4
    <3>4. QED  BY <3>2, <3>3
  <2>12. 0 \in S  BY <1>1
  <2> HIDE DEF S
  <2>13. \A n \in 0..N : n \in S  BY <1>1, <2>11, <2>12, UpTo
  <2>14. u[N] \in Seq(T)  BY <1>1, <2>2, <2>13 DEF S
  <2>15. QED  BY <2>10, <2>14
<1>4. QED  BY <1>2, <1>3

\* Of weights in a row there is a first of the heaviest.
Heaviest(i, w, N) ==
  i \in 1..N /\ \A j \in 1..N : w[j] < w[i] \/ (w[j] = w[i] /\ i <= j)
LEMMA HeaviestExists ==
  ASSUME NEW N \in Nat, N >= 1, NEW w \in [1..N -> Nat]
  PROVE  \E i \in 1..N : Heaviest(i, w, N)
<1> DEFINE S == {n \in 0..N : n = 0 \/ \E i \in 1..n : Heaviest(i, w, n)}
<1>1. ASSUME NEW n \in 1..N, n - 1 \in S PROVE n \in S
  <2>1. CASE n = 1  BY <2>1 DEF Heaviest
  <2>2. CASE n # 1
    <3>1. PICK i \in 1..(n - 1) : Heaviest(i, w, n - 1)  BY <1>1, <2>2
    <3>2. \A j \in 1..(n - 1) : w[j] < w[i] \/ (w[j] = w[i] /\ i <= j)
          BY <3>1 DEF Heaviest
    <3>3. /\ \A j \in 1..n : w[j] \in Nat /\ (j = n \/ j \in 1..(n - 1))
          /\ i \in 1..n /\ n \in 1..n /\ i <= n
          OBVIOUS
    <3>4. CASE w[i] < w[n]
      <4>1. \A j \in 1..n : w[j] < w[n] \/ (w[j] = w[n] /\ n <= j)  BY <3>2, <3>3, <3>4
      <4>2. Heaviest(n, w, n)  BY <3>3, <4>1 DEF Heaviest
      <4>3. QED  BY <3>3, <4>2
    <3>5. CASE ~(w[i] < w[n])
      <4>1. \A j \in 1..n : w[j] < w[i] \/ (w[j] = w[i] /\ i <= j)  BY <3>2, <3>3, <3>5
      <4>2. Heaviest(i, w, n)  BY <3>3, <4>1 DEF Heaviest
      <4>3. QED  BY <3>3, <4>2
    <3>6. QED  BY <3>4, <3>5
  <2>3. QED  BY <2>1, <2>2
<1>2. 0 \in S  OBVIOUS
<1> HIDE DEF S
<1>3. \A n \in 0..N : n \in S  BY <1>1, <1>2, UpTo
<1>4. N \in S  BY <1>3
<1>5. QED  BY <1>4 DEF S

\* The pages of a book with their tokens.
HasTokens(P) == IsPages(P) /\ \A p \in Range(P) : p.tokens \in Seq(Range(p.tokens))
\* A number is seen on a page: what the candidates of the patterns are.
Counted(p) == {t \in Range(p.tokens) : t.is \in Numeric}
Seen(P) == UNION {{[page |-> p.number, value |-> t.of] : t \in Counted(p)} : p \in Range(P)}
ShownOn(P, value, number) ==
  \E p \in Range(P) : p.number = number /\ \E t \in Counted(p) : t.of = value

Patterns == {"ISBN_RE", "ISBN10_RE", "YEAR_RE", "PAGES_RE", "arabic_pp"}

LEMMA PatternsAreNumeric ==
  ASSUME NEW pattern \in Patterns, NEW t, Is(pattern, t)
  PROVE  t.is \in Numeric
<1>1. CASE pattern = "ISBN_RE"  BY <1>1 DEF Is, Numeric
<1>2. CASE pattern = "ISBN10_RE"  BY <1>2 DEF Is, Numeric
<1>3. CASE pattern = "YEAR_RE"  BY <1>3 DEF Is, Numeric
<1>4. CASE pattern = "PAGES_RE"  BY <1>4 DEF Is, Numeric
<1>5. CASE pattern = "arabic_pp"  BY <1>5 DEF Is, Numeric
<1>6. QED  BY <1>1, <1>2, <1>3, <1>4, <1>5 DEF Patterns

LEMMA SeenShown ==
  ASSUME NEW P, NEW c \in Seen(P)
  PROVE  ShownOn(P, c.value, c.page)
<1>1. PICK p \in Range(P) : c \in {[page |-> p.number, value |-> t.of] : t \in Counted(p)}
      BY DEF Seen
<1>2. PICK t \in Counted(p) : c = [page |-> p.number, value |-> t.of]  BY <1>1
<1>3. c.page = p.number /\ c.value = t.of  BY <1>2
<1>4. QED  BY <1>3 DEF ShownOn

LEMMA OnSeen ==
  ASSUME NEW P, HasTokens(P), NEW p \in Range(P), NEW pattern \in Patterns
  PROVE  On(p, pattern) \in Seq(Seen(P))
<1> DEFINE I == {i \in DOMAIN p.tokens : Is(pattern, p.tokens[i])}
           ts == Picked(p.tokens, I)
           c(i) == [page |-> p.number, value |-> ts[i].of]
<1>1. p.tokens \in Seq(Range(p.tokens)) /\ DOMAIN p.tokens = 1..Len(p.tokens)
      BY DEF HasTokens
<1>2. I \in SUBSET (1..Len(p.tokens))  BY <1>1
<1>3. On(p, pattern) = [i \in DOMAIN ts |-> c(i)]  BY DEF On
<1> HIDE DEF I
<1>4. ts \in Seq(Range(p.tokens)) /\ \E h : Positions(h, ts, p.tokens, I)
      BY <1>1, <1>2, PickedPositions
<1> HIDE DEF ts
<1>5. PICK h : Positions(h, ts, p.tokens, I)  BY <1>4
<1>6. ASSUME NEW i \in 1..Len(ts) PROVE c(i) \in Seen(P)
  <2>1. h[i] \in I /\ ts[i] = p.tokens[h[i]]  BY <1>5 DEF Positions
  <2>2. Is(pattern, ts[i]) /\ ts[i] \in Range(p.tokens)  BY <1>4, <2>1 DEF I
  <2>3. ts[i] \in Counted(p)  BY <2>2, PatternsAreNumeric DEF Counted
  <2>4. QED  BY <2>3 DEF Seen
<1>7. DOMAIN ts = 1..Len(ts) /\ Len(ts) \in Nat  BY <1>4
<1> HIDE DEF c
<1>8. [i \in 1..Len(ts) |-> c(i)] \in Seq(Seen(P))  BY <1>6, <1>7
<1>9. QED  BY <1>3, <1>7, <1>8

LEMMA MatchesSeen ==
  ASSUME NEW P, HasTokens(P), NEW Q \in Seq(Range(P)), NEW pattern \in Patterns
  PROVE  Matches(Q, pattern) \in Seq(Seen(P))
<1> DEFINE T == Seen(P)
           found == [i \in DOMAIN Q |-> On(Q[i], pattern)]
<1>1. DOMAIN Q = 1..Len(Q) /\ Len(Q) \in Nat /\ \A i \in 1..Len(Q) : Q[i] \in Range(P)
      OBVIOUS
<1>2. \A i \in 1..Len(Q) : On(Q[i], pattern) \in Seq(T)  BY <1>1, OnSeen
<1> HIDE DEF T
<1>3. found \in Seq(Seq(T))  BY <1>1, <1>2
<1>4. Matches(Q, pattern) = FlattenSeq(found)  BY DEF Matches
<1> HIDE DEF found
<1>5. QED  BY <1>3, <1>4, Flattened DEF T

LEMMA CountsSeen ==
  ASSUME NEW P, HasTokens(P), NEW Q \in Seq(Range(P))
  PROVE  FlattenSeq([i \in DOMAIN Q |-> FirstOn(Q[i], "arabic_pp")]) \in Seq(Seen(P))
<1> DEFINE T == Seen(P)
           first == [i \in DOMAIN Q |-> FirstOn(Q[i], "arabic_pp")]
<1>1. DOMAIN Q = 1..Len(Q) /\ Len(Q) \in Nat /\ \A i \in 1..Len(Q) : Q[i] \in Range(P)
      OBVIOUS
<1>2. \A i \in 1..Len(Q) : On(Q[i], "arabic_pp") \in Seq(T)
      BY <1>1, OnSeen DEF Patterns
<1> HIDE DEF T
<1>3. ASSUME NEW i \in 1..Len(Q) PROVE FirstOn(Q[i], "arabic_pp") \in Seq(T)
  <2> DEFINE found == On(Q[i], "arabic_pp")
  <2>1. found \in Seq(T)  BY <1>2
  <2>2. FirstOn(Q[i], "arabic_pp") = SubSeq(found, 1, IF found = <<>> THEN 0 ELSE 1)
        BY DEF FirstOn
  <2> HIDE DEF found
  <2>3. QED  BY <2>1, <2>2
<1>4. first \in Seq(Seq(T))  BY <1>1, <1>3
<1> HIDE DEF first
<1>5. FlattenSeq(first) \in Seq(T)  BY <1>4, Flattened
<1>6. QED  BY <1>5 DEF T, first

LEMMA BestIsOne ==
  ASSUME NEW T, NEW c \in Seq(T), c # <<>>
  PROVE  Best(c) \in 1..Len(c)
<1> DEFINE N == Len(c)
           Same(i) == {j \in DOMAIN c : c[j].value = c[i].value}
           w == [i \in 1..N |-> Cardinality(Same(i))]
<1>1. N \in Nat /\ N >= 1 /\ DOMAIN c = 1..N  OBVIOUS
<1>2. \A i \in 1..N : Cardinality(Same(i)) \in Nat
  <2> TAKE i \in 1..N
  <2>1. IsFiniteSet(1..N)  BY <1>1, FS_Interval
  <2>2. Same(i) \subseteq 1..N  BY <1>1
  <2> HIDE DEF Same, N
  <2>3. QED  BY <2>1, <2>2, FS_Subset, FS_CardinalityType
<1>3. w \in [1..N -> Nat]  BY <1>2
<1>4. Best(c) = CHOOSE i \in DOMAIN c : \A j \in DOMAIN c :
                  Cardinality(Same(j)) < Cardinality(Same(i))
                  \/ (Cardinality(Same(j)) = Cardinality(Same(i)) /\ i <= j)
      BY DEF Best
<1>5. PICK i \in 1..N : Heaviest(i, w, N)
  <2> HIDE DEF N, w
  <2>1. QED  BY <1>1, <1>3, HeaviestExists
<1> HIDE DEF Same, N
<1>6. \A j \in 1..N : Cardinality(Same(j)) < Cardinality(Same(i))
                      \/ (Cardinality(Same(j)) = Cardinality(Same(i)) /\ i <= j)
      BY <1>5 DEF Heaviest
<1>7. QED  BY <1>1, <1>4, <1>6 DEF N

LEMMA FromBestShown ==
  ASSUME NEW P, NEW c \in Seq(Seen(P)), FromBest(c) # NotFound
  PROVE  ShownOn(P, FromBest(c).value, FromBest(c).page)
<1>1. c # <<>>  BY DEF FromBest
<1>2. Best(c) \in 1..Len(c)  BY <1>1, BestIsOne
<1>3. c[Best(c)] \in Seen(P)  BY <1>2
<1>4. FromBest(c).value = c[Best(c)].value /\ FromBest(c).page = c[Best(c)].page
      BY <1>1 DEF FromBest, MostCommon, Found
<1>5. QED  BY <1>3, <1>4, SeenShown

\* A filter keeps some of what passes it, and only that.
LEMMA PickedSome ==
  ASSUME NEW S, NEW s \in Seq(S), NEW I \in SUBSET (1..Len(s))
  PROVE  /\ Picked(s, I) \in Seq(S)
         /\ \A i \in 1..Len(Picked(s, I)) : \E k \in I : Picked(s, I)[i] = s[k]
         /\ I # {} => Len(Picked(s, I)) >= 1
<1> DEFINE p == Picked(s, I)
<1>1. p \in Seq(S) /\ \E h : Positions(h, p, s, I)  BY PickedPositions
<1> HIDE DEF p
<1>2. PICK h : Positions(h, p, s, I)  BY <1>1
<1>3. \A i \in 1..Len(p) : h[i] \in I /\ p[i] = s[h[i]]  BY <1>2 DEF Positions
<1>4. I # {} => \E i \in 1..Len(p) : TRUE  BY <1>2 DEF Positions
<1>5. Len(p) \in Nat  BY <1>1
<1>6. I # {} => Len(p) >= 1  BY <1>4, <1>5
<1>7. QED  BY <1>1, <1>3, <1>6 DEF p

LEMMA FirstShown ==
  ASSUME NEW P, HasTokens(P), NEW m \in Seq(Seen(P)), m # <<>>
  PROVE  ShownOn(P, FromFirst(P, m).value, FromFirst(P, m).page)
<1> DEFINE v == m[1].value
           Has(p) == \E t \in Range(p.tokens) : t.is \in Numeric /\ t.of = v
           I == {i \in DOMAIN P : Has(P[i])}
           q == Picked(P, I)
<1>1. P \in Seq(Range(P)) /\ DOMAIN P = 1..Len(P)  BY PagesLength DEF HasTokens, IsPages
<1>2. m[1] \in Seen(P)  OBVIOUS
<1>3. PICK p \in Range(P) : p.number = m[1].page /\ \E t \in Counted(p) : t.of = v
      BY <1>2, SeenShown DEF ShownOn
<1>4. Has(p)  BY <1>3 DEF Counted
<1>5. FromFirst(P, m).value = v /\ FromFirst(P, m).page = q[1].number
      BY DEF FromFirst, FindPage, Found
<1> HIDE DEF Has, v
<1>6. PICK k \in DOMAIN P : P[k] = p  BY DEF Range
<1>7. I # {} /\ I \in SUBSET (1..Len(P))  BY <1>1, <1>4, <1>6
<1> HIDE DEF I
<1>8. /\ q \in Seq(Range(P)) /\ Len(q) >= 1
      /\ \A i \in 1..Len(q) : \E j \in I : q[i] = P[j]
      BY <1>1, <1>7, PickedSome
<1> HIDE DEF q
<1>9. 1 \in 1..Len(q)  BY <1>8
<1>10. q[1] \in Range(P)  BY <1>8, <1>9
<1>11. Has(q[1])  BY <1>8, <1>9 DEF I
<1>12. QED  BY <1>5, <1>10, <1>11 DEF Has, ShownOn, Counted

\* The fields of the regular expressions.
LEMMA RegexShown ==
  ASSUME NEW B, HasTokens(B.pages), NEW f \in DOMAIN RegexRegistry(B),
         RegexRegistry(B)[f] # NotFound
  PROVE  /\ f # "publisher"
         /\ ShownOn(B.pages, RegexRegistry(B)[f].value, RegexRegistry(B)[f].page)
<1> DEFINE P == B.pages
           r == RegexRegistry(B)
<1>1. P \in Seq(Range(P)) /\ Len(P) \in Nat /\ P # <<>> BY PagesLength DEF HasTokens, IsPages
<1>2. /\ f \in {"isbn", "publication_date", "pages"}
      /\ r["isbn"] = ExtractIsbn(P) /\ r["publication_date"] = ExtractPublicationYear(P)
      /\ r["pages"] = ExtractPages(P)
      BY DEF RegexRegistry
<1> HIDE DEF r
<1>3. CASE f = "isbn"
  <2> DEFINE long == Matches(P, "ISBN_RE")
             short == Matches(P, "ISBN10_RE")
  <2>1. long \in Seq(Seen(P)) /\ short \in Seq(Seen(P))
        BY <1>1, MatchesSeen DEF Patterns
  <2>2. ExtractIsbn(P) = IF long # <<>> THEN FromFirst(P, long)
                         ELSE IF short # <<>> THEN FromFirst(P, short) ELSE NotFound
        BY DEF ExtractIsbn
  <2> HIDE DEF P, long, short
  <2>3. ExtractIsbn(P) # NotFound  BY <1>2, <1>3 DEF P, r
  <2>4. ShownOn(P, ExtractIsbn(P).value, ExtractIsbn(P).page)
    <3>1. CASE long # <<>>  BY <2>1, <2>2, <3>1, FirstShown DEF P
    <3>2. CASE long = <<>>  BY <2>1, <2>2, <2>3, <3>2, FirstShown DEF P
    <3>3. QED  BY <3>1, <3>2
  <2>5. QED  BY <1>2, <1>3, <2>4 DEF P, r
<1>4. CASE f = "publication_date"
  <2> DEFINE Q == FrontMatter(P)
             c == Matches(Q, "YEAR_RE")
  <2>1. Q \in Seq(Range(P))
    <3>1. \A i \in 1..Len(P) : P[i] \in Range(P)  BY <1>1
    <3>2. QED  BY <1>1, <3>1 DEF FrontMatter
  <2>2. c \in Seq(Seen(P))  BY <2>1, MatchesSeen DEF Patterns
  <2>3. ExtractPublicationYear(P) = FromBest(c)  BY DEF ExtractPublicationYear
  <2> HIDE DEF P, c
  <2>4. FromBest(c) # NotFound  BY <1>2, <1>4, <2>3 DEF P, r
  <2>5. ShownOn(P, FromBest(c).value, FromBest(c).page)  BY <2>2, <2>4, FromBestShown
  <2>6. QED  BY <1>2, <1>4, <2>3, <2>5 DEF P, r
<1>5. CASE f = "pages"
  <2> DEFINE cues == Matches(P, "PAGES_RE")
             counts == FlattenSeq([i \in DOMAIN P |-> FirstOn(P[i], "arabic_pp")])
             c == IF cues # <<>> THEN cues ELSE counts
  <2>1. cues \in Seq(Seen(P))  BY <1>1, MatchesSeen DEF Patterns
  <2>2. counts \in Seq(Seen(P))  BY <1>1, CountsSeen
  <2>3. ExtractPages(P) = FromBest(c)  BY DEF ExtractPages
  <2> HIDE DEF P, cues, counts
  <2>4. c \in Seq(Seen(P))  BY <2>1, <2>2
  <2> HIDE DEF c
  <2>5. FromBest(c) # NotFound  BY <1>2, <1>5, <2>3 DEF P, r
  <2>6. ShownOn(P, FromBest(c).value, FromBest(c).page)  BY <2>4, <2>5, FromBestShown
  <2>7. QED  BY <1>2, <1>5, <2>3, <2>6 DEF P, r
<1>6. QED  BY <1>2, <1>3, <1>4, <1>5

\* The pages that say a phrase.
LEMMA Saying ==
  ASSUME NEW P, HasTokens(P), NEW phrase
  PROVE  /\ FirstPageSaying(P, phrase) \in Seq(Range(P))
         /\ \A i \in 1..Len(FirstPageSaying(P, phrase)) : Says(FirstPageSaying(P, phrase)[i], phrase)
<1> DEFINE I == {i \in DOMAIN P : Says(P[i], phrase)}
           q == Picked(P, I)
<1>1. P \in Seq(Range(P)) /\ DOMAIN P = 1..Len(P)  BY PagesLength DEF HasTokens, IsPages
<1>2. I \in SUBSET (1..Len(P))  BY <1>1
<1>3. FirstPageSaying(P, phrase) = q  BY DEF FirstPageSaying
<1> HIDE DEF I
<1>4. q \in Seq(Range(P)) /\ \A i \in 1..Len(q) : \E k \in I : q[i] = P[k]
      BY <1>1, <1>2, PickedSome
<1> HIDE DEF q
<1>5. QED  BY <1>3, <1>4 DEF I

LEMMA PublishersKnown ==
  /\ KNOWN_PUBLISHERS \in Seq(Range(KNOWN_PUBLISHERS))
  /\ DOMAIN KNOWN_PUBLISHERS = 1..Len(KNOWN_PUBLISHERS)
  /\ \A i \in DOMAIN KNOWN_PUBLISHERS : KNOWN_PUBLISHERS[i].length \in Nat
<1> DEFINE K == KNOWN_PUBLISHERS
<1>1. Len(K) = 7 /\ DOMAIN K = 1..7  BY DEF KNOWN_PUBLISHERS
<1>2. /\ K[1].length = 14 /\ K[2].length = 4 /\ K[3].length = 17 /\ K[4].length = 3
      /\ K[5].length = 19 /\ K[6].length = 15 /\ K[7].length = 15
      BY DEF KNOWN_PUBLISHERS, Known
<1>3. K = [i \in 1..7 |-> K[i]]  BY DEF KNOWN_PUBLISHERS
<1> HIDE DEF K
<1>4. \A i \in 1..7 : K[i].length \in Nat
  <2>1. \A i \in 1..7 : i \in {1, 2, 3, 4, 5, 6, 7}  OBVIOUS
  <2>2. QED  BY <1>2, <2>1
<1>5. \A i \in 1..7 : K[i] \in Range(K)  BY <1>1 DEF Range
<1>6. K \in Seq(Range(K))  BY <1>3, <1>5
<1>7. QED  BY <1>1, <1>4, <1>6 DEF K

PublisherOn(P, value, number) ==
  \E p \in Range(P) : p.number = number /\ \E t \in Range(p.tokens) : Shows("publisher", value, t)

LEMMA PublisherShown ==
  ASSUME NEW P, HasTokens(P), ExtractPublisher(P) # NotFound
  PROVE  PublisherOn(P, ExtractPublisher(P).value, ExtractPublisher(P).page)
<1> DEFINE K == KNOWN_PUBLISHERS
           I == {i \in DOMAIN K : FirstPageSaying(P, K[i].needle) # <<>>}
           hits == Picked(K, I)
           N == Len(hits)
           w == [i \in 1..N |-> hits[i].length]
           best == CHOOSE i \in DOMAIN hits : \A j \in DOMAIN hits :
                     hits[j].length < hits[i].length \/ (hits[j].length = hits[i].length /\ i <= j)
           k == hits[best]
           named == FirstPageSaying(P, k.canonical)
           spelled == FirstPageSaying(P, k.needle)
           at == named \o spelled
<1>1. K \in Seq(Range(K)) /\ I \in SUBSET (1..Len(K))
      BY PublishersKnown
<1>2. ExtractPublisher(P) = IF hits = <<>> THEN NotFound
                            ELSE Found(k.canonical, "dictionary", at[1].number)
      BY DEF ExtractPublisher
<1>3. hits # <<>>  BY <1>2
<1>4. /\ ExtractPublisher(P).value = k.canonical
      /\ ExtractPublisher(P).page = at[1].number
  <2> HIDE DEF k, at, hits
  <2>1. QED  BY <1>2, <1>3 DEF Found
<1> HIDE DEF K, I
<1>5. hits \in Seq(Range(K)) /\ \A i \in 1..N : \E j \in I : hits[i] = K[j]
      BY <1>1, PickedSome
<1> HIDE DEF hits
<1>6. N \in Nat /\ N >= 1 /\ DOMAIN hits = 1..N  BY <1>3, <1>5
<1>7. \A i \in 1..N : hits[i].length \in Nat
      BY <1>5, PublishersKnown DEF I, K
<1>8. w \in [1..N -> Nat]  BY <1>7
<1>9. PICK i \in 1..N : Heaviest(i, w, N)
  <2> HIDE DEF N, w
  <2>1. QED  BY <1>6, <1>8, HeaviestExists
<1> HIDE DEF N
<1>10. \A j \in 1..N : hits[j].length < hits[i].length \/ (hits[j].length = hits[i].length /\ i <= j)
      BY <1>9 DEF Heaviest
<1>11. best \in 1..N  BY <1>6, <1>10
<1> HIDE DEF best
<1>12. PICK j \in I : k = K[j]  BY <1>5, <1>11
<1>13. j \in DOMAIN KNOWN_PUBLISHERS /\ k = KNOWN_PUBLISHERS[j] /\ spelled # <<>>
       BY <1>12 DEF I, K
<1> HIDE DEF k
<1>14. /\ named \in Seq(Range(P)) /\ spelled \in Seq(Range(P))
       /\ \A n \in 1..Len(named) : Says(named[n], k.canonical)
       /\ \A n \in 1..Len(spelled) : Says(spelled[n], k.needle)
       BY Saying
<1> HIDE DEF named, spelled
<1>15. at[1] \in Range(P) /\ (Says(at[1], k.canonical) \/ Says(at[1], k.needle))
  <2>1. CASE named = <<>>
    <3>1. at = spelled  BY <1>14, <2>1
    <3>2. 1 \in 1..Len(spelled)  BY <1>13, <1>14
    <3>3. QED  BY <1>14, <3>1, <3>2
  <2>2. CASE named # <<>>
    <3>1. 1 \in 1..Len(named) /\ at[1] = named[1]  BY <1>14, <2>2
    <3>2. QED  BY <1>14, <3>1
  <2>3. QED  BY <2>1, <2>2
<1> HIDE DEF at
<1>16. PICK t \in Range(at[1].tokens) :
         t.is = "publisher" /\ (Within(k.canonical, t.of) \/ Within(k.needle, t.of))
       BY <1>15 DEF Says
<1>17. Shows("publisher", k.canonical, t)  BY <1>13, <1>16 DEF Shows
<1>18. QED  BY <1>4, <1>15, <1>16, <1>17 DEF PublisherOn
-----------------------------------------------------------------------------
(* The steps of an extraction. *)
\* What the first two tiers find.
Cheap == Merge(Resolved(RegexRegistry(book)), Resolved(DictRegistry(book)))
\* The gaps whose batch has an answer that gives them.
Given == {f \in FullMetadata \ DOMAIN Cheap :
            FIELD_TO_BATCH[f] \in DOMAIN replied /\ f \in replied[FIELD_TO_BATCH[f]]}

InputsGiven == book \in Books /\ word \in WordLengths
PhaseResults ==
  /\ phase \in {"cheap", "filling", "done"}
  /\ phase = "cheap" => results = EmptyMap /\ calling = {} /\ replied = <<>> /\ llm_results = EmptyMap
  /\ phase = "filling" => results = Cheap
  /\ phase = "done" => results = Merge(Cheap, llm_results)
\* The batches of the gaps.
ToCall == {FIELD_TO_BATCH[f] : f \in FullMetadata \ DOMAIN Cheap}
CallsAnswered ==
  /\ calling \subseteq called /\ called \subseteq BatchNames /\ called \subseteq ToCall
  /\ DOMAIN replied = called \ calling
  /\ phase = "done" => calling = {} /\ DOMAIN replied = ToCall
FromReplies ==
  /\ DOMAIN llm_results = Given
  /\ \A f \in DOMAIN llm_results : llm_results[f].method = "llm" /\ llm_results[f].page = NoPage
IInv == InputsGiven /\ PhaseResults /\ CallsAnswered /\ FromReplies

\* The batches share no field.
LEMMA BatchesDisjoint ==
  ASSUME NEW b \in BatchNames, NEW c \in BatchNames, b # c
  PROVE  METADATA_BATCHES[b] \intersect METADATA_BATCHES[c] = {}
  BY DEF BatchNames, METADATA_BATCHES

LEMMA BatchOfField ==
  ASSUME NEW f \in FullMetadata
  PROVE  /\ FIELD_TO_BATCH[f] \in BatchNames
         /\ \A b \in BatchNames : f \in METADATA_BATCHES[b] <=> b = FIELD_TO_BATCH[f]
<1>1. \E b \in BatchNames : f \in METADATA_BATCHES[b]
  <2>1. DOMAIN METADATA_BATCHES = BatchNames  BY DEF METADATA_BATCHES, BatchNames
  <2>2. QED  BY <2>1 DEF FullMetadata, Range
<1>2. FIELD_TO_BATCH[f] = CHOOSE b \in BatchNames : f \in METADATA_BATCHES[b]
      BY DEF FIELD_TO_BATCH
<1>3. FIELD_TO_BATCH[f] \in BatchNames /\ f \in METADATA_BATCHES[FIELD_TO_BATCH[f]]
      BY <1>1, <1>2
<1>4. QED  BY <1>3, BatchesDisjoint

\* The fields found: a registry has no field of the other.
LEMMA CheapFound ==
  /\ DOMAIN Cheap = {f \in DOMAIN Sources : Sources[f] # NotFound}
  /\ \A f \in DOMAIN Cheap : Cheap[f] = Sources[f]
<1> DEFINE R == RegexRegistry(book)
           D == DictRegistry(book)
<1>1. DOMAIN R \intersect DOMAIN D = {}  BY DEF RegexRegistry, DictRegistry
<1> HIDE DEF R, D
<1> DEFINE r == Resolved(R)
           d == Resolved(D)
<1>2. /\ DOMAIN r = {f \in DOMAIN R : R[f] # NotFound} /\ \A f \in DOMAIN r : r[f] = R[f]
      /\ DOMAIN d = {f \in DOMAIN D : D[f] # NotFound} /\ \A f \in DOMAIN d : d[f] = D[f]
      BY DEF Resolved, Restrict
<1>3. Cheap = Merge(r, d) /\ Sources = Merge(R, D)  BY DEF Cheap, Sources, R, D
<1> HIDE DEF r, d
<1>4. QED  BY <1>1, <1>2, <1>3 DEF Merge

LEMMA InitIInv == Init => IInv
<1> SUFFICES ASSUME Init PROVE IInv
  OBVIOUS
<1> USE DEF Init
<1>1. InputsGiven  BY DEF InputsGiven
<1>2. DOMAIN replied = {} /\ DOMAIN llm_results = {}  BY DEF EmptyMap
<1>3. PhaseResults  BY DEF PhaseResults
<1>4. CallsAnswered  BY <1>2 DEF CallsAnswered
<1>5. Given = {}  BY <1>2 DEF Given
<1>6. FromReplies  BY <1>2, <1>5 DEF FromReplies
<1>7. QED  BY <1>1, <1>3, <1>4, <1>6 DEF IInv

\* What a step leaves of the definitions over the state.
LEMMA InputKept ==
  ASSUME UNCHANGED input
  PROVE  Cheap' = Cheap /\ Sources' = Sources /\ (InputsGiven => InputsGiven')
  BY DEF input, Cheap, Sources, InputsGiven

LEMMA NextIInv == IInv /\ [Next]_vars => IInv'
<1> SUFFICES ASSUME IInv, [Next]_vars PROVE IInv'
  OBVIOUS
<1>1. UNCHANGED input
  BY DEF Next, vars, CheapTiers, Call, Answer, Finish
<1>2. Cheap' = Cheap /\ ToCall' = ToCall /\ InputsGiven'  BY <1>1, InputKept DEF IInv, ToCall
<1>3. phase = "filling" => Gaps = FullMetadata \ DOMAIN Cheap /\ Needed = ToCall
      BY DEF IInv, PhaseResults, Gaps, Needed, ToCall
<1> USE DEF IInv
<1>4. CASE CheapTiers
  <2>1. /\ phase = "cheap" /\ phase' = "filling" /\ results' = Cheap
        /\ UNCHANGED <<called, calling, replied, llm_results>>
        BY <1>4 DEF CheapTiers, Cheap
  <2>2. Given' = Given  BY <1>2, <2>1 DEF Given
  <2>3. PhaseResults'  BY <1>2, <2>1 DEF PhaseResults
  <2>4. CallsAnswered'  BY <1>2, <2>1 DEF CallsAnswered
  <2>5. FromReplies'  BY <2>1, <2>2 DEF FromReplies
  <2>6. QED  BY <1>2, <2>3, <2>4, <2>5
<1>5. ASSUME NEW b \in BatchNames, Call(b) PROVE IInv'
  <2>1. /\ phase = "filling" /\ b \in Needed \ called
        /\ called' = called \union {b} /\ calling' = calling \union {b}
        /\ UNCHANGED <<phase, results, replied, llm_results>>
        BY <1>5 DEF Call
  <2>2. Given' = Given  BY <1>2, <2>1 DEF Given
  <2>3. PhaseResults'  BY <1>2, <2>1 DEF PhaseResults
  <2>4. CallsAnswered'  BY <1>2, <1>3, <2>1 DEF CallsAnswered
  <2>5. FromReplies'  BY <2>1, <2>2 DEF FromReplies
  <2>6. QED  BY <1>2, <2>3, <2>4, <2>5
<1>6. ASSUME NEW b \in BatchNames, Answer(b) PROVE IInv'
  <2>1. PICK fields : /\ replied' = Merge(replied, [c \in {b} |-> fields])
                      /\ llm_results' = Merge(ParsedFiltered(b, fields), llm_results)
        BY <1>6 DEF Answer
  <2>2. /\ b \in calling /\ calling' = calling \ {b}
        /\ UNCHANGED <<phase, results, called>>
        BY <1>6 DEF Answer
  <2>3. phase = "filling" /\ b \notin DOMAIN replied
        BY <2>2 DEF PhaseResults, CallsAnswered
  <2>4. /\ DOMAIN replied' = DOMAIN replied \union {b} /\ replied'[b] = fields
        /\ \A c \in DOMAIN replied : replied'[c] = replied[c]
        BY <2>1, <2>3 DEF Merge
  <2> DEFINE new == ParsedFiltered(b, fields)
  <2>5. /\ DOMAIN new = fields \intersect {f \in FullMetadata \ DOMAIN Cheap : FIELD_TO_BATCH[f] = b}
        /\ \A f \in DOMAIN new : new[f].method = "llm" /\ new[f].page = NoPage
    <3>1. GapFields(b) = {f \in FullMetadata \ DOMAIN Cheap : FIELD_TO_BATCH[f] = b}
          BY <1>3, <2>3, BatchOfField DEF GapFields
    <3>2. QED  BY <3>1 DEF ParsedFiltered, Found
  <2>6. llm_results' = Merge(new, llm_results)  BY <2>1
  <2> HIDE DEF new
  <2>7. /\ DOMAIN llm_results' = DOMAIN new \union DOMAIN llm_results
        /\ \A f \in DOMAIN new : llm_results'[f] = new[f]
        /\ \A f \in DOMAIN llm_results \ DOMAIN new : llm_results'[f] = llm_results[f]
        BY <2>6 DEF Merge
  <2>8. Given' = Given \union DOMAIN new
    <3>1. Given' = {f \in FullMetadata \ DOMAIN Cheap :
                      FIELD_TO_BATCH[f] \in DOMAIN replied' /\ f \in replied'[FIELD_TO_BATCH[f]]}
          BY <1>2 DEF Given
    <3>2. QED  BY <2>3, <2>4, <2>5, <3>1 DEF Given
  <2>9. PhaseResults'  BY <1>2, <2>2, <2>3 DEF PhaseResults
  <2>10. CallsAnswered'  BY <1>2, <2>2, <2>3, <2>4 DEF CallsAnswered
  <2>11. FromReplies'  BY <2>5, <2>7, <2>8 DEF FromReplies
  <2>12. QED  BY <1>2, <2>9, <2>10, <2>11
<1>7. CASE Finish
  <2>1. /\ phase = "filling" /\ phase' = "done" /\ DOMAIN replied = Needed
        /\ results' = Merge(results, llm_results)
        /\ UNCHANGED <<called, calling, replied, llm_results>>
        BY <1>7 DEF Finish
  <2>2. Given' = Given  BY <1>2, <2>1 DEF Given
  <2>3. PhaseResults'  BY <1>2, <2>1 DEF PhaseResults
  <2>4. CallsAnswered'  BY <1>2, <1>3, <2>1 DEF CallsAnswered
  <2>5. FromReplies'  BY <2>1, <2>2 DEF FromReplies
  <2>6. QED  BY <1>2, <2>3, <2>4, <2>5
<1>8. CASE UNCHANGED vars
  <2>1. UNCHANGED <<phase, results, called, calling, replied, llm_results>>  BY <1>8 DEF vars
  <2>2. Given' = Given  BY <1>2, <2>1 DEF Given
  <2>3. PhaseResults'  BY <1>2, <2>1 DEF PhaseResults
  <2>4. CallsAnswered'  BY <1>2, <2>1 DEF CallsAnswered
  <2>5. FromReplies'  BY <2>1, <2>2 DEF FromReplies
  <2>6. QED  BY <1>2, <2>3, <2>4, <2>5
<1>9. QED  BY <1>4, <1>5, <1>6, <1>7, <1>8 DEF Next

LEMMA Invariance == Spec => []IInv
<1>1. Init => IInv  BY InitIInv
<1>2. IInv /\ [Next]_vars => IInv'  BY NextIInv
<1>3. QED  BY <1>1, <1>2, PTL DEF Spec

LEMMA AnswersKept == IInv => EveryAnswerKept
<1> SUFFICES ASSUME IInv, phase = "done", NEW f \in FullMetadata
             PROVE  IF f \in DOMAIN Sources /\ Sources[f] # NotFound
                      THEN results[f] = Sources[f]
                      ELSE /\ f \in DOMAIN results <=> f \in replied[FIELD_TO_BATCH[f]]
                           /\ f \in DOMAIN results => results[f].method = "llm"
  BY DEF EveryAnswerKept
<1>1. /\ DOMAIN results = DOMAIN Cheap \union DOMAIN llm_results
      /\ \A g \in DOMAIN Cheap : results[g] = Cheap[g]
      /\ \A g \in DOMAIN llm_results \ DOMAIN Cheap : results[g] = llm_results[g]
      BY DEF IInv, PhaseResults, Merge
<1>2. CASE f \in DOMAIN Sources /\ Sources[f] # NotFound
      BY <1>1, <1>2, CheapFound
<1>3. CASE ~(f \in DOMAIN Sources /\ Sources[f] # NotFound)
  <2>1. f \in FullMetadata \ DOMAIN Cheap  BY <1>3, CheapFound
  <2>2. FIELD_TO_BATCH[f] \in DOMAIN replied  BY <2>1 DEF IInv, CallsAnswered, ToCall
  <2>3. f \in DOMAIN llm_results <=> f \in replied[FIELD_TO_BATCH[f]]
        BY <2>1, <2>2 DEF IInv, FromReplies, Given
  <2>4. f \in DOMAIN llm_results => llm_results[f].method = "llm"
        BY DEF IInv, FromReplies
  <2>5. QED  BY <1>1, <1>3, <2>1, <2>3, <2>4
<1>4. QED  BY <1>2, <1>3

\* What is sent in a prompt: pages of the book, in order, and their text.
LEMMA SentPages ==
  ASSUME IInv, NEW b \in calling
  PROVE  LET p == Routed(b).selected
         IN /\ IsText(p) /\ Routed(b).text = Assemble(p, MAX_OCR_CHARS, word)
            /\ DOMAIN p = 1..Len(p)
            /\ \A i, j \in 1..Len(p) : i < j => p[i].number < p[j].number
<1> DEFINE P == book.pages
           p == SelectPages(P, b)
<1>1. IsPages(P) /\ b \in BatchNames
      BY BooksAssumption DEF IInv, InputsGiven, CallsAnswered
<1>2. Routed(b).selected = p /\ Routed(b).text = Assemble(p, MAX_OCR_CHARS, word)
      BY DEF Routed
<1> HIDE DEF P, p
<1>3. p \in Seq(Range(P)) /\ Len(p) >= 1 /\ \E h : Takes(h, p, P)
      BY <1>1, SelectedPages DEF p
<1>4. IsText(p) /\ \A i, j \in 1..Len(p) : i < j => p[i].number < p[j].number
      BY <1>1, <1>3, TakenText
<1>5. DOMAIN p = 1..Len(p)  BY <1>3
<1>6. QED  BY <1>2, <1>4, <1>5

LEMMA SentOnce == IInv => SentOnceWithinBudget
<1> SUFFICES ASSUME IInv, NEW b \in calling
             PROVE  LET sent == Routed(b) IN
                      /\ sent.text.length <= MAX_OCR_CHARS
                      /\ \A i, j \in DOMAIN sent.selected :
                           i < j => sent.selected[i].number < sent.selected[j].number
  BY DEF SentOnceWithinBudget, Prompt
<1>1. MAX_OCR_CHARS \in Nat /\ MAX_OCR_CHARS >= LeastBudget /\ word \in Nat
      BY BudgetAssumption, WordsAssumption DEF IInv, InputsGiven
<1>2. QED  BY <1>1, SentPages, WithinBudget

LEMMA PagesHeard == IInv => RoutedPagesHeard
<1> SUFFICES ASSUME IInv, NEW b \in calling, Len(Routed(b).selected) <= LongestWindow
             PROVE  LET p == Routed(b).selected
                        heard == Routed(b).text.heard
                    IN /\ \A i \in DOMAIN p : i < Len(p) => heard[i] = Used(p, i, MAX_OCR_CHARS)
                       /\ word <= LongestWord => heard[Len(p)] > 0
  BY DEF RoutedPagesHeard, Prompt
<1>1. word \in Nat /\ MAX_OCR_CHARS \in Nat /\ MAX_OCR_CHARS >= LeastBudget
      BY BudgetAssumption, WordsAssumption DEF IInv, InputsGiven
<1> DEFINE p == Routed(b).selected
<1>2. /\ IsText(p) /\ Routed(b).text = Assemble(p, MAX_OCR_CHARS, word)
      /\ DOMAIN p = 1..Len(p)
      BY SentPages
<1>3. Len(p) <= LongestWindow  OBVIOUS
<1> HIDE DEF p
<1>4. LET heard == Assemble(p, MAX_OCR_CHARS, word).heard
      IN /\ \A i \in 1..Len(p) : i < Len(p) => heard[i] = Used(p, i, MAX_OCR_CHARS)
         /\ word <= LongestWord => heard[Len(p)] > 0
      BY <1>1, <1>2, <1>3, AllHeard
<1>5. QED  BY <1>2, <1>4 DEF p

\* The page of a field of the first two tiers.
Evidenced(f, found) ==
  found.page # NoPage => \E p \in Range(book.pages) :
    p.number = found.page /\ \E t \in Range(p.tokens) : Shows(f, found.value, t)

LEMMA CheapEvidenced ==
  ASSUME IInv, NEW f \in DOMAIN Cheap
  PROVE  Evidenced(f, Cheap[f])
<1> DEFINE P == book.pages
           R == RegexRegistry(book)
           D == DictRegistry(book)
<1>1. HasTokens(P)  BY BooksAssumption DEF IInv, InputsGiven, HasTokens
<1>2. /\ f \in DOMAIN Sources /\ Sources[f] # NotFound /\ Cheap[f] = Sources[f]
      /\ Sources = Merge(R, D)
      BY CheapFound DEF Sources
<1>3. CASE f \in DOMAIN R
  <2>1. Cheap[f] = R[f] /\ R[f] # NotFound  BY <1>2, <1>3 DEF Merge
  <2>2. f # "publisher" /\ ShownOn(P, R[f].value, R[f].page)  BY <1>1, <1>3, <2>1, RegexShown
  <2> HIDE DEF R
  <2>3. QED  BY <2>1, <2>2 DEF ShownOn, Counted, Shows, Evidenced
<1>4. CASE f \in DOMAIN D /\ f \notin DOMAIN R
  <2>1. Cheap[f] = D[f] /\ D[f] # NotFound  BY <1>2, <1>4 DEF Merge
  <2>2. /\ f \in {"publisher", "language"}
        /\ D["publisher"] = ExtractPublisher(P) /\ D["language"] = DetectLanguage(book.sample)
        BY <1>4 DEF DictRegistry
  <2> HIDE DEF D, P
  <2>3. CASE f = "publisher"
    <3>1. PublisherOn(P, Cheap[f].value, Cheap[f].page)
          BY <1>1, <2>1, <2>2, <2>3, PublisherShown
    <3>2. QED  BY <2>3, <3>1 DEF PublisherOn, Evidenced, P
  <2>4. CASE f = "language"
    <3>1. Cheap[f].page = NoPage
      <4>1. \E l : DetectLanguage(book.sample) = NotFound
                   \/ DetectLanguage(book.sample) = Found(l, "dictionary", NoPage)
            BY DEF DetectLanguage
      <4>2. QED  BY <2>1, <2>2, <2>4, <4>1 DEF Found
    <3>2. QED  BY <3>1 DEF Evidenced
  <2>5. QED  BY <2>2, <2>3, <2>4
<1>5. DOMAIN Sources = DOMAIN R \union DOMAIN D  BY <1>2 DEF Merge
<1>6. QED  BY <1>2, <1>3, <1>4, <1>5

LEMMA PagesHaveValues == IInv => SourcePageHasValue
<1> SUFFICES ASSUME IInv, NEW f \in DOMAIN results PROVE Evidenced(f, results[f])
  BY DEF SourcePageHasValue, Evidenced
<1>1. CASE phase = "cheap"
  <2>1. DOMAIN results = {}  BY <1>1 DEF IInv, PhaseResults, EmptyMap
  <2>2. QED  BY <2>1
<1>2. CASE phase = "filling"
  <2>1. results = Cheap  BY <1>2 DEF IInv, PhaseResults
  <2>2. QED  BY <2>1, CheapEvidenced
<1>3. CASE phase = "done"
  <2>1. /\ DOMAIN results = DOMAIN Cheap \union DOMAIN llm_results
        /\ \A g \in DOMAIN Cheap : results[g] = Cheap[g]
        /\ \A g \in DOMAIN llm_results \ DOMAIN Cheap : results[g] = llm_results[g]
        BY <1>3 DEF IInv, PhaseResults, Merge
  <2>2. CASE f \in DOMAIN Cheap  BY <2>1, <2>2, CheapEvidenced
  <2>3. CASE f \notin DOMAIN Cheap
    <3>1. results[f].page = NoPage  BY <2>1, <2>3 DEF IInv, FromReplies
    <3>2. QED  BY <3>1 DEF Evidenced
  <2>4. QED  BY <2>2, <2>3
<1>4. QED  BY <1>1, <1>2, <1>3 DEF IInv, PhaseResults

(* Whatever the order and the quality of the answers of the LLM, a field ends
   with the value that a cheap extractor found, and only without one with a value
   of the LLM: run_hybrid_extraction and _llm_fill, for any books. *)
THEOREM AnswersAreKept == Spec => []EveryAnswerKept
<1>1. IInv => EveryAnswerKept  BY AnswersKept
<1>2. QED  BY <1>1, Invariance, PTL

(* The page in the evidence of a field has its value: the extractors, for any
   pages and tokens. *)
THEOREM EvidenceHasValue == Spec => []SourcePageHasValue
<1>1. IInv => SourcePageHasValue  BY PagesHaveValues
<1>2. QED  BY <1>1, Invariance, PTL

(* Every prompt is within the budget, and has its pages once and in order:
   select_pages_for_batch and assemble_ocr_text, for any pages, budget and word
   under the cut. *)
THEOREM SentWithinBudget == Spec => []SentOnceWithinBudget
<1>1. IInv => SentOnceWithinBudget  BY SentOnce
<1>2. QED  BY <1>1, Invariance, PTL

(* A batch of up to LongestWindow pages hears the whole share of each but the last,
   and something of the last unless a word of more than LongestWord characters is
   under the cut: select_pages_for_batch and assemble_ocr_text, for any pages, any
   words and a budget of 2500 or more. *)
THEOREM RoutedAreHeard == Spec => []RoutedPagesHeard
<1>1. IInv => RoutedPagesHeard  BY PagesHeard
<1>2. QED  BY <1>1, Invariance, PTL
=============================================================================
