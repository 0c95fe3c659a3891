---------------------------- MODULE SequenceFacts ---------------------------
(***************************************************************************)
(* Facts about data the proofs need: induction over the numbers, that a    *)
(* function defined by recursion exists, and what FlattenSeq of the        *)
(* community modules gives.                                                *)
(*                                                                         *)
(* A principle of induction with an operator for its hypothesis cannot be  *)
(* used here; this one has a set: the numbers of which the claim is true.  *)
(***************************************************************************)
EXTENDS SequencesExt, SequenceTheorems, WellFoundedInduction, TLAPS

(***************************************************************************)
(* Induction and recursion.                                                *)
(***************************************************************************)
LEMMA Smallest ==
  ASSUME NEW T \in SUBSET Nat, T # {}
  PROVE  \E x \in T : \A y \in T : x <= y
<1> DEFINE R == OpToRel(<, Nat)
<1>1. IsWellFoundedOn(R, Nat)
  BY NatLessThanWellFounded
<1>2. \A x \in Nat, y \in Nat : y < x => <<y, x>> \in R
  BY DEF OpToRel
<1> HIDE DEF R
<1>3. PICK x \in T : \A y \in T : ~(<<y, x>> \in R)
  BY <1>1, WFMin
<1>4. \A y \in T : ~(y < x) /\ y \in Nat /\ x \in Nat
  BY <1>2, <1>3
<1> QED
  BY <1>3, <1>4

LEMMA Induction ==
  ASSUME NEW S, 0 \in S, \A n \in Nat : n \in S => n + 1 \in S
  PROVE  Nat \subseteq S
<1> DEFINE T == Nat \ S
<1> SUFFICES ASSUME T # {} PROVE FALSE
  OBVIOUS
<1>1. PICK x \in T : \A y \in T : x <= y
  BY Smallest
<1>2. x # 0 /\ x - 1 \in Nat /\ x - 1 < x /\ (x - 1) + 1 = x
  BY <1>1
<1>3. x - 1 \notin T
  BY <1>1, <1>2
<1> QED
  BY <1>2, <1>3

\* f begins with b, and its n steps follow G, a function of the number of the step
\* and of what the step before it gave.
Follows(f, b, n, G) == f[0] = b /\ \A i \in 1..n : f[i] = G[<<i, f[i - 1]>>]

LEMMA Recursion ==
  ASSUME NEW V, NEW b \in V, NEW G \in [Nat \X V -> V], NEW n \in Nat
  PROVE  \E f \in [0..n -> V] : Follows(f, b, n, G)
<1> DEFINE Rec(m, f) == Follows(f, b, m, G)
           S == {m \in Nat : \E f \in [0..m -> V] : Rec(m, f)}
<1> USE DEF Follows
<1>1. 0 \in S
  <2> DEFINE f == [i \in 0..0 |-> b]
  <2>1. f \in [0..0 -> V] /\ Rec(0, f)
    OBVIOUS
  <2>2. QED
    BY <2>1
<1>2. ASSUME NEW m \in Nat, m \in S PROVE m + 1 \in S
  <2>1. PICK f \in [0..m -> V] : Rec(m, f)
    BY <1>2
  <2> DEFINE g == [i \in 0..m + 1 |-> IF i = m + 1 THEN G[<<m + 1, f[m]>>] ELSE f[i]]
  <2>2. /\ g \in [0..m + 1 -> V] /\ g[m + 1] = G[<<m + 1, f[m]>>]
        /\ \A i \in 0..m : g[i] = f[i]
    OBVIOUS
  <2> HIDE DEF g
  <2>3. ASSUME NEW i \in 1..m + 1 PROVE g[i] = G[<<i, g[i - 1]>>]
    <3>1. i - 1 \in 0..m
      OBVIOUS
    <3>2. CASE i = m + 1
      <4>1. i - 1 = m
        BY <3>2
      <4>2. QED
        BY <2>2, <3>1, <3>2, <4>1
    <3>3. CASE i \in 1..m
      <4>1. f[i] = G[<<i, f[i - 1]>>] /\ i \in 0..m
        BY <2>1, <3>3
      <4>2. QED
        BY <2>2, <3>1, <4>1
    <3>4. QED
      BY <3>2, <3>3
  <2>4. Rec(m + 1, g)
    BY <2>1, <2>2, <2>3
  <2> HIDE DEF Rec
  <2>5. \E h \in [0..m + 1 -> V] : Rec(m + 1, h)
    BY <2>2, <2>4
  <2>6. QED
    BY <2>5
<1> HIDE DEF S, Follows
<1>3. n \in S
  BY <1>1, <1>2, Induction
<1> QED
  BY <1>3 DEF S

\* The steps of f follow G for as long as it gives what is in V.
Steps(f, n, G, V) ==
  \A i \in 0..n, j \in 1..n : j = i + 1 /\ f[i] \in V => f[j] = G[<<j, f[i]>>]

\* I is an invariant of the n steps of G: what is in I[i] comes to what is in the next.
Invariant(I, n, G, V) ==
  /\ \A i \in 0..n : I[i] \subseteq V
  /\ \A i \in 0..n, j \in 1..n : j = i + 1 => \A v \in I[i] : G[<<j, v>>] \in I[j]

LEMMA InvariantHolds ==
  ASSUME NEW n \in Nat, NEW V, NEW G, NEW I, Invariant(I, n, G, V),
         NEW f, f[0] \in I[0], Steps(f, n, G, V)
  PROVE  \A i \in 0..n : f[i] \in I[i]
<1> DEFINE S == {m \in Nat : m \in 0..n => f[m] \in I[m]}
<1>1. 0 \in S
  OBVIOUS
<1>2. ASSUME NEW m \in Nat, m \in S PROVE m + 1 \in S
  <2>1. PICK j \in Nat : j = m + 1
    OBVIOUS
  <2>2. ASSUME j \in 0..n PROVE f[j] \in I[j]
    <3>1. m \in 0..n /\ j \in 1..n
      BY <2>1, <2>2
    <3>2. f[m] \in I[m] /\ f[m] \in V
      BY <1>2, <3>1 DEF Invariant
    <3>3. f[j] = G[<<j, f[m]>>]
      BY <2>1, <3>1, <3>2 DEF Steps
    <3>4. G[<<j, f[m]>>] \in I[j]
      BY <2>1, <3>1, <3>2 DEF Invariant
    <3>5. QED
      BY <3>3, <3>4
  <2>3. QED
    BY <2>1, <2>2
<1> HIDE DEF S
<1>3. Nat \subseteq S
  BY <1>1, <1>2, Induction
<1> QED
  BY <1>3 DEF S

LEMMA RecursionIn ==
  ASSUME NEW n \in Nat, NEW V, NEW G, NEW I, Invariant(I, n, G, V), NEW b \in I[0]
  PROVE  \E f \in [0..n -> V] : f[0] = b /\ Steps(f, n, G, V)
<1> DEFINE H == [p \in Nat \X V |-> IF G[p] \in V THEN G[p] ELSE b]
<1>1. b \in V
  BY DEF Invariant
<1>2. H \in [Nat \X V -> V]
  BY <1>1
<1>3. \A j \in 1..n, v \in V : H[<<j, v>>] = IF G[<<j, v>>] \in V THEN G[<<j, v>>] ELSE b
  OBVIOUS
<1> HIDE DEF H
<1>4. PICK f \in [0..n -> V] : Follows(f, b, n, H)
  BY <1>1, <1>2, Recursion
<1>5. \A i \in 0..n, j \in 1..n : j = i + 1 => f[j] = H[<<j, f[i]>>] /\ f[i] \in V
  <2>1. ASSUME NEW i \in 0..n, NEW j \in 1..n, j = i + 1 PROVE f[j] = H[<<j, f[i]>>]
    <3>1. j - 1 = i
      BY <2>1
    <3>2. f[j] = H[<<j, f[j - 1]>>]
      BY <1>4 DEF Follows
    <3>3. QED
      BY <3>1, <3>2
  <2>2. QED
    BY <2>1
<1>6. \A i \in 0..n, j \in 1..n : j = i + 1 => \A v \in I[i] : H[<<j, v>>] \in I[j]
  <2>1. ASSUME NEW i \in 0..n, NEW j \in 1..n, j = i + 1, NEW v \in I[i] PROVE H[<<j, v>>] \in I[j]
    <3>1. G[<<j, v>>] \in I[j] /\ v \in V /\ I[j] \subseteq V
      BY <2>1 DEF Invariant
    <3>2. H[<<j, v>>] = G[<<j, v>>]
      BY <1>3, <3>1
    <3>3. QED
      BY <3>1, <3>2
  <2>2. QED
    BY <2>1
<1>7. Invariant(I, n, H, V) /\ Steps(f, n, H, V) /\ f[0] = b
  BY <1>4, <1>5, <1>6 DEF Invariant, Steps, Follows
<1>8. \A i \in 0..n : f[i] \in I[i]
  BY <1>7, InvariantHolds
<1>9. Steps(f, n, G, V)
  <2>1. ASSUME NEW i \in 0..n, NEW j \in 1..n, j = i + 1, f[i] \in V PROVE f[j] = G[<<j, f[i]>>]
    <3>1. f[j] = H[<<j, f[i]>>]
      BY <1>5, <2>1
    <3>2. G[<<j, f[i]>>] \in V
      BY <1>8, <2>1 DEF Invariant
    <3>3. QED
      BY <1>3, <2>1, <3>1, <3>2
  <2>2. QED
    BY <2>1 DEF Steps
<1>10. QED
  BY <1>7, <1>9

(***************************************************************************)
(* FlattenSeq.                                                             *)
(***************************************************************************)

\* The function FlattenSeq computes: the first i sequences, one after another.
IsFlat(f, s) == f = [i \in 1..Len(s) |-> IF i = 1 THEN s[i] ELSE f[i - 1] \o s[i]]

LEMMA FlatAt ==
  ASSUME NEW s, NEW f, IsFlat(f, s)
  PROVE  /\ 1 \in 1..Len(s) => f[1] = s[1]
         /\ \A i \in 1..Len(s), j \in 1..Len(s) : j = i + 1 => f[j] = f[i] \o s[j]
<1>1. \A i \in 1..Len(s) : f[i] = IF i = 1 THEN s[i] ELSE f[i - 1] \o s[i]
  BY Zenon DEF IsFlat
<1>2. 1 \in 1..Len(s) => f[1] = s[1]
  BY <1>1
<1>3. ASSUME NEW i \in 1..Len(s), NEW j \in 1..Len(s), j = i + 1
      PROVE  f[j] = f[i] \o s[j]
  <2>1. j # 1 /\ j - 1 = i
    BY <1>3
  <2>2. f[j] = IF j = 1 THEN s[j] ELSE f[j - 1] \o s[j]
    BY <1>1
  <2>3. QED
    BY <2>1, <2>2
<1> QED
  BY <1>2, <1>3

LEMMA FlatExists ==
  ASSUME NEW T, NEW s \in Seq(Seq(T))
  PROVE  \E f \in [1..Len(s) -> Seq(T)] : IsFlat(f, s)
<1> DEFINE n == Len(s)
           none == <<>>
           G == [p \in Nat \X Seq(T) |-> IF p[1] \in 1..n THEN p[2] \o s[p[1]] ELSE <<>>]
<1>1. n \in Nat /\ (\A i \in 1..n : s[i] \in Seq(T)) /\ none \in Seq(T)
  BY ElementOfSeq
<1>2. G \in [Nat \X Seq(T) -> Seq(T)]
  <2>1. \A p \in Nat \X Seq(T) : p[1] \in 1..n => p[2] \o s[p[1]] \in Seq(T)
    BY <1>1, ConcatProperties
  <2>2. QED
    BY <1>1, <2>1
<1> HIDE DEF n
<1>3. \A i \in 1..n, t \in Seq(T) : G[<<i, t>>] = t \o s[i]
  <2> TAKE i \in 1..n, t \in Seq(T)
  <2>1. <<i, t>> \in Nat \X Seq(T)
    BY <1>1
  <2>2. QED
    BY <2>1
<1> HIDE DEF G, none
<1>4. PICK h \in [0..n -> Seq(T)] : Follows(h, none, n, G)
  BY <1>1, <1>2, Recursion
<1> DEFINE f == [i \in 1..n |-> h[i]]
<1>5. f \in [1..n -> Seq(T)]
  BY <1>1
<1>6. \A i \in 1..n : h[i] = h[i - 1] \o s[i]
  <2> TAKE i \in 1..n
  <2>1. i - 1 \in 0..n
    BY <1>1
  <2>2. h[i] = G[<<i, h[i - 1]>>] /\ h[i - 1] \in Seq(T)
    BY <1>4, <2>1 DEF Follows
  <2>3. QED
    BY <1>3, <2>2
<1>7. \A i \in 1..n : f[i] = IF i = 1 THEN s[i] ELSE f[i - 1] \o s[i]
  <2> TAKE i \in 1..n
  <2>1. CASE i = 1
    <3>1. h[0] = <<>>
      BY <1>1, <1>4 DEF none, Follows
    <3>2. h[1] = <<>> \o s[1]
      <4>1. h[i] = h[i - 1] \o s[i]
        BY <1>6
      <4>2. i - 1 = 0
        BY <2>1
      <4>3. QED
        BY <2>1, <3>1, <4>1, <4>2
    <3>3. QED
      BY <1>1, <2>1, <3>2, ConcatEmptySeq
  <2>2. CASE i # 1
    <3>1. i - 1 \in 1..n
      BY <1>1, <2>2
    <3>2. f[i] = h[i] /\ f[i - 1] = h[i - 1]
      BY <3>1
    <3>3. QED
      BY <1>6, <2>2, <3>2
  <2>3. QED
    BY <2>1, <2>2
<1> HIDE DEF f
<1>8. f = [i \in 1..n |-> IF i = 1 THEN s[i] ELSE f[i - 1] \o s[i]]
  BY <1>5, <1>7
<1> QED
  BY <1>5, <1>8 DEF n, IsFlat

\* It depends on no more than the sequences it has come to.
LEMMA FlatAgrees ==
  ASSUME NEW s, NEW t, Len(s) \in Nat, Len(t) \in Nat, NEW f, IsFlat(f, s), NEW g, IsFlat(g, t),
         NEW k \in Nat, k <= Len(s), k <= Len(t), \A i \in 1..k : s[i] = t[i]
  PROVE  \A i \in 1..k : f[i] = g[i]
<1> DEFINE S == {m \in Nat : m \in 1..k => f[m] = g[m]}
<1>1. 0 \in S
  OBVIOUS
<1>2. ASSUME NEW m \in Nat, m \in S PROVE m + 1 \in S
  <2> SUFFICES ASSUME NEW i \in 1..k, i = m + 1 PROVE f[i] = g[i]
    OBVIOUS
  <2>1. i \in 1..Len(s) /\ i \in 1..Len(t) /\ s[i] = t[i]
    OBVIOUS
  <2>2. CASE i = 1
    <3>1. 1 \in 1..Len(s) /\ 1 \in 1..Len(t)
      BY <2>1, <2>2
    <3>2. f[1] = s[1] /\ g[1] = t[1]
      BY <3>1, FlatAt
    <3>3. QED
      BY <2>1, <2>2, <3>2
  <2>3. CASE i # 1
    <3>1. m \in 1..Len(s) /\ m \in 1..Len(t) /\ f[m] = g[m]
      BY <1>2, <2>3
    <3>2. f[i] = f[m] \o s[i] /\ g[i] = g[m] \o t[i]
      BY <2>1, <2>3, <3>1, FlatAt
    <3>3. QED
      BY <2>1, <3>1, <3>2
  <2>4. QED
    BY <2>2, <2>3
<1> HIDE DEF S
<1>3. Nat \subseteq S
  BY <1>1, <1>2, Induction
<1> QED
  BY <1>3 DEF S

LEMMA FlattenIs ==
  ASSUME NEW T, NEW s \in Seq(Seq(T)), s # <<>>, NEW f, IsFlat(f, s)
  PROVE  FlattenSeq(s) = f[Len(s)] /\ FlattenSeq(s) \in Seq(T)
<1>1. Len(s) \in Nat /\ Len(s) # 0
  BY EmptySeq
<1>2. PICK h \in [1..Len(s) -> Seq(T)] : IsFlat(h, s)
  BY FlatExists
<1> DEFINE c == CHOOSE c : c = [i \in 1..Len(s) |-> IF i = 1 THEN s[i] ELSE c[i - 1] \o s[i]]
<1>3. FlattenSeq(s) = c[Len(s)]
  BY <1>1 DEF FlattenSeq
<1>4. IsFlat(c, s)
  BY <1>2 DEF IsFlat
<1> HIDE DEF c
<1>5. \A i \in 1..Len(s) : c[i] = f[i] /\ c[i] = h[i]
  BY <1>1, <1>2, <1>4, FlatAgrees
<1>6. Len(s) \in 1..Len(s)
  BY <1>1
<1>7. h[Len(s)] \in Seq(T)
  BY <1>6
<1> QED
  BY <1>3, <1>5, <1>6, <1>7

LEMMA FlattenNone == FlattenSeq(<<>>) = <<>>
BY DEF FlattenSeq

LEMMA FlattenType ==
  ASSUME NEW T, NEW s \in Seq(Seq(T))
  PROVE  FlattenSeq(s) \in Seq(T)
<1>1. CASE s = <<>>
  BY <1>1, FlattenNone, EmptySeq
<1>2. CASE s # <<>>
  <2>1. PICK f : IsFlat(f, s)
    BY FlatExists
  <2>2. QED
    BY <1>2, <2>1, FlattenIs
<1> QED
  BY <1>1, <1>2

LEMMA FlattenAppend ==
  ASSUME NEW T, NEW s \in Seq(Seq(T)), NEW x \in Seq(T)
  PROVE  FlattenSeq(Append(s, x)) = FlattenSeq(s) \o x
<1> DEFINE t == Append(s, x)
           n == Len(s)
<1>1. /\ t \in Seq(Seq(T)) /\ n \in Nat /\ Len(t) = n + 1 /\ t[n + 1] = x
      /\ \A i \in 1..n : t[i] = s[i]
  BY AppendProperties, LenProperties
<1> HIDE DEF t
<1>2. t # <<>>
  BY <1>1, EmptySeq
<1>3. PICK g \in [1..Len(t) -> Seq(T)] : IsFlat(g, t)
  BY <1>1, FlatExists
<1>4. FlattenSeq(t) = g[n + 1]
  BY <1>1, <1>2, <1>3, FlattenIs
<1>5. PICK k : k = n + 1 /\ k \in 1..Len(t)
  BY <1>1
<1>6. (k = 1 => g[k] = x) /\ (k # 1 => g[k] = g[n] \o x)
  <2>1. k # 1 => n \in 1..Len(t)
    BY <1>1, <1>5
  <2>2. t[k] = x
    BY <1>1, <1>5
  <2>3. QED
    BY <1>3, <1>5, <2>1, <2>2, FlatAt
<1>7. CASE s = <<>>
  <2>1. k = 1
    BY <1>5, <1>7
  <2>2. FlattenSeq(t) = x /\ FlattenSeq(s) = <<>>
    BY <1>4, <1>5, <1>6, <1>7, <2>1, FlattenNone
  <2>3. QED
    BY <2>2, ConcatEmptySeq DEF t
<1>8. CASE s # <<>>
  <2>1. n \in 1..n /\ k # 1 /\ n <= Len(s) /\ n <= Len(t) /\ Len(t) \in Nat
    BY <1>1, <1>5, <1>8, EmptySeq
  <2>2. PICK f : IsFlat(f, s)
    BY FlatExists
  <2>3. FlattenSeq(s) = f[n]
    BY <1>8, <2>2, FlattenIs
  <2>4. \A i \in 1..n : s[i] = t[i]
    BY <1>1
  <2>5. \A i \in 1..n : f[i] = g[i]
    <3>1. Len(s) \in Nat /\ n \in Nat
      BY <1>1
    <3> HIDE DEF n
    <3>2. QED
      BY <1>3, <2>1, <2>2, <2>4, <3>1, FlatAgrees, SMTT(30)
  <2>6. FlattenSeq(t) = g[n] \o x
    BY <1>4, <1>5, <1>6, <2>1
  <2>7. QED
    BY <2>1, <2>3, <2>5, <2>6 DEF t
<1> QED
  BY <1>7, <1>8

LEMMA FlattenFirst ==
  ASSUME NEW T, NEW s \in Seq(Seq(T)), s # <<>>
  PROVE  FlattenSeq(s) = Head(s) \o FlattenSeq(Tail(s))
<1> DEFINE t == Tail(s)
           n == Len(s)
<1>1. /\ t \in Seq(Seq(T)) /\ n \in Nat \ {0} /\ Len(t) = n - 1
      /\ \A i \in 1..n - 1 : t[i] = s[i + 1]
  BY HeadTailProperties, EmptySeq
<1>2. Head(s) = s[1] /\ s[1] \in Seq(T)
  BY <1>1, ElementOfSeq
<1> HIDE DEF t, n
<1>3. PICK f \in [1..Len(s) -> Seq(T)] : IsFlat(f, s)
  BY FlatExists
<1>4. FlattenSeq(s) = f[n]
  BY <1>3, FlattenIs DEF n
<1>5. f[1] = s[1]
  <2>1. 1 \in 1..Len(s)
    BY <1>1 DEF n
  <2>2. QED
    BY <1>3, <2>1, FlatAt
<1>6. \A a, b, c \in Seq(T) : (a \o b) \o c = a \o (b \o c)
  BY ConcatAssociative, SMTT(30)
<1>7. CASE n = 1
  <2>1. t = <<>>
    BY <1>1, <1>7
  <2>2. QED
    BY <1>2, <1>4, <1>5, <1>7, <2>1, FlattenNone, ConcatEmptySeq DEF t
<1>8. CASE n # 1
  <2>1. t # <<>>
    BY <1>1, <1>8
  <2>2. PICK g \in [1..Len(t) -> Seq(T)] : IsFlat(g, t)
    BY <1>1, FlatExists
  <2>3. FlattenSeq(t) = g[n - 1]
    BY <1>1, <2>1, <2>2, FlattenIs
  <2> DEFINE Same(i, j) == f[j] = s[1] \o g[i]
             S == {m \in Nat : \A i, j \in 1..n : i = m /\ j = m + 1 => Same(i, j)}
  <2> HIDE DEF Same
  <2>4. 0 \in S
    BY <1>1
  <2>5. ASSUME NEW m \in Nat, m \in S PROVE m + 1 \in S
    <3> SUFFICES ASSUME NEW i \in 1..n, NEW j \in 1..n, i = m + 1, j = i + 1
                 PROVE  Same(i, j)
      BY <1>1
    <3> USE DEF Same
    <3>1. /\ i = j - 1 /\ j # 1 /\ i \in 1..n - 1 /\ j \in 1..Len(s) /\ i \in 1..Len(t)
          /\ m = i - 1 /\ s[j] = t[i]
      BY <1>1 DEF n
    <3>2. f[j] = f[i] \o t[i]
      <4>1. i \in 1..Len(s)
        BY <1>1 DEF n
      <4>2. f[j] = f[i] \o s[j]
        BY <1>3, <3>1, <4>1, FlatAt
      <4>3. QED
        BY <3>1, <4>2
    <3>3. CASE i = 1
      <4>1. g[1] = t[1]
        BY <2>2, <3>1, <3>3, FlatAt
      <4>2. QED
        BY <1>5, <3>2, <3>3, <4>1
    <3>4. CASE i # 1
      <4>1. m \in 1..n /\ m \in 1..Len(t)
        BY <1>1, <3>1, <3>4
      <4>2. g[i] = g[m] \o t[i]
        BY <2>2, <3>1, <4>1, FlatAt
      <4>3. f[i] = s[1] \o g[m]
        BY <2>5, <4>1
      <4>4. g[m] \in Seq(T) /\ t[i] \in Seq(T)
        BY <1>1, <2>2, <3>1, <4>1, ElementOfSeq
      <4>5. (s[1] \o g[m]) \o t[i] = s[1] \o (g[m] \o t[i])
        BY <1>2, <1>6, <4>4
      <4>6. QED
        BY <3>2, <4>2, <4>3, <4>5
    <3>5. QED
      BY <3>3, <3>4
  <2> HIDE DEF S
  <2>6. PICK m \in Nat : m = n - 1 /\ m \in 1..n /\ n \in 1..n /\ n = m + 1
    BY <1>1, <1>8
  <2>7. m \in S
    BY <2>4, <2>5, Induction
  <2>8. f[n] = s[1] \o g[m]
    BY <2>6, <2>7 DEF S, Same
  <2>9. QED
    BY <1>2, <1>4, <2>3, <2>6, <2>8 DEF t
<1> QED
  BY <1>7, <1>8

\* Of empty sequences nothing comes.
LEMMA FlattenEmpty ==
  ASSUME NEW s, Len(s) \in Nat, s \in Seq({<<>>})
  PROVE  FlattenSeq(s) = <<>>
<1>1. <<>> \in Seq({}) /\ \A t \in Seq({}) : t = <<>>
  <2>1. ASSUME NEW t \in Seq({}), t # <<>> PROVE FALSE
    BY <2>1, HeadTailProperties
  <2>2. QED
    BY <2>1
<1>2. s \in Seq(Seq({}))
  BY <1>1, SeqMonotonic, ZenonT(40)
<1> QED
  BY <1>1, <1>2, FlattenType
=============================================================================
