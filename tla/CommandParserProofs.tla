------------------------ MODULE CommandParserProofs ------------------------
(***************************************************************************)
(* Machine-checked proofs about CommandParser, for lines of any length and *)
(* any lookup function.  The theorems of the library about induction and   *)
(* recursive functions take an operator as a parameter, so the proofs here *)
(* take the least counterexample instead (LeastElement).                   *)
(***************************************************************************)
EXTENDS CommandParser, SequenceTheorems, FiniteSetTheorems, TLAPS

-----------------------------------------------------------------------------
(* Recursive functions. *)

\* A set of natural numbers that is not empty has a least element.
LEMMA LeastElement ==
    ASSUME NEW D \in SUBSET Nat, D # {}
    PROVE  \E x \in D : \A y \in D : x <= y
<1> DEFINE R == {p \in Nat \X Nat : p[1] < p[2]}
<1>1. IsWellFoundedOn(R, Nat)
  BY NatLessThanWellFounded DEF OpToRel
<1>2. \A x, y \in Nat : y < x => <<y, x>> \in R
  OBVIOUS
<1> HIDE DEF R
<1>3. PICK x \in D : \A y \in D : ~(<<y, x>> \in R)
  BY <1>1, WFMin
<1>4. \A y \in D : ~(y < x)
  BY <1>2, <1>3, Zenon
<1> QED  BY <1>4

\* A function of the numbers from 1 whose values each follow from the one before, by
\* the step F.
Iterates(f, n, a, F) == f = [i \in 1..n |-> IF i = 1 THEN a ELSE F[<<f[i - 1], i>>]]

\* There is such a function.
LEMMA IterationExists ==
    ASSUME NEW A, NEW a \in A, NEW n \in Nat, NEW F \in [A \X (1..n) -> A]
    PROVE  \E f \in [1..n -> A] : Iterates(f, n, a, F)
<1> DEFINE Upto(f, m) == f \in [1..m -> A] /\ Iterates(f, m, a, F)
           D == {m \in 0..n : ~\E f : Upto(f, m)}
<1>1. D = {}
  <2>1. SUFFICES ASSUME D # {}
                 PROVE  FALSE
    OBVIOUS
  <2>2. D \in SUBSET Nat
    OBVIOUS
  <2>3. PICK m \in D : \A k \in D : m <= k
    <3> HIDE DEF D
    <3> QED  BY <2>1, <2>2, LeastElement
  <2>4. m \in 0..n /\ ~\E f : Upto(f, m)
    OBVIOUS
  <2>5. m # 0
    <3>1. Upto(<<>>, 0)
      BY DEF Iterates
    <3> QED  BY <2>4, <3>1
  <2>6. m - 1 \in 0..n /\ m \in 1..n
    BY <2>4, <2>5
  <2>7. PICK g : Upto(g, m - 1)
    <3>1. m - 1 \notin D
      BY <2>3, <2>6
    <3> QED  BY <2>6, <3>1
  <2> HIDE DEF D
  <2> DEFINE last == IF m = 1 THEN a ELSE F[<<g[m - 1], m>>]
             h == [i \in 1..m |-> IF i = m THEN last ELSE g[i]]
  <2>8. \A i \in 1..(m - 1) : g[i] \in A /\ g[i] = IF i = 1 THEN a ELSE F[<<g[i - 1], i>>]
    BY <2>7 DEF Iterates
  <2>9. last \in A
    <3>1. CASE m = 1
      BY <3>1
    <3>2. CASE m # 1
      <4>1. m - 1 \in 1..(m - 1)
        BY <2>6, <3>2
      <4>2. g[m - 1] \in A
        BY <2>8, <4>1
      <4> QED  BY <2>6, <3>2, <4>2
    <3> QED  BY <3>1, <3>2
  <2>10. \A i \in 1..m : /\ h[i] \in A
                         /\ h[i] = IF i = 1 THEN a ELSE F[<<h[i - 1], i>>]
    <3> SUFFICES ASSUME NEW i \in 1..m
                 PROVE  h[i] \in A /\ h[i] = IF i = 1 THEN a ELSE F[<<h[i - 1], i>>]
      OBVIOUS
    <3>1. CASE i = m
      <4>1. h[i] = last
        BY <3>1
      <4>2. m # 1 => h[m - 1] = g[m - 1]
        BY <2>6
      <4> QED  BY <2>9, <3>1, <4>1, <4>2
    <3>2. CASE i # m
      <4>1. i \in 1..(m - 1) /\ h[i] = g[i]
        BY <2>6, <3>2
      <4>2. i # 1 => h[i - 1] = g[i - 1]
        BY <2>6, <4>1
      <4> HIDE DEF h, last
      <4> QED  BY <2>8, <4>1, <4>2
    <3> QED  BY <3>1, <3>2
  <2>11. h \in [1..m -> A]
    BY <2>10
  <2>12. h = [i \in 1..m |-> IF i = 1 THEN a ELSE F[<<h[i - 1], i>>]]
    BY <2>10
  <2>13. Upto(h, m)
    BY <2>11, <2>12 DEF Iterates
  <2> QED  BY <2>4, <2>13
<1>2. n \in 0..n
  OBVIOUS
<1> QED  BY <1>1, <1>2

\* Induction over the places of a sequence, for a set of places.
LEMMA OneByOne ==
    ASSUME NEW n \in Nat, NEW P,
           \A i \in 1..n : (i # 1 => i - 1 \in P) => i \in P
    PROVE  \A i \in 1..n : i \in P
<1> DEFINE D == {i \in 1..n : i \notin P}
<1>1. SUFFICES ASSUME D # {}
               PROVE  FALSE
  OBVIOUS
<1>2. D \in SUBSET Nat
  OBVIOUS
<1>3. PICK i \in D : \A k \in D : i <= k
  <2> HIDE DEF D
  <2> QED  BY <1>1, <1>2, LeastElement
<1>4. i \in 1..n /\ i \notin P
  OBVIOUS
<1>5. i # 1 /\ i - 1 \notin P
  BY <1>4
<1>6. i - 1 \in D /\ ~(i <= i - 1)
  BY <1>4, <1>5
<1> QED  BY <1>3, <1>6

\* FlattenSeq joins its sequences one after the other.
LEMMA FlattenUnfolds ==
    ASSUME NEW S, NEW seqs \in Seq(Seq(S)), Len(seqs) # 0
    PROVE  \E f \in [1..Len(seqs) -> Seq(S)] :
             /\ \A i \in 1..Len(seqs) : f[i] = IF i = 1 THEN seqs[1] ELSE f[i - 1] \o seqs[i]
             /\ FlattenSeq(seqs) = f[Len(seqs)]
<1> DEFINE n == Len(seqs)
           F == [p \in Seq(S) \X (1..n) |-> p[1] \o seqs[p[2]]]
           flatten[i \in 1..n] == IF i = 1 THEN seqs[i] ELSE flatten[i - 1] \o seqs[i]
<1>1. n \in Nat /\ n \in 1..n /\ \A i \in 1..n : seqs[i] \in Seq(S)
  OBVIOUS
<1>2. F \in [Seq(S) \X (1..n) -> Seq(S)] /\ seqs[1] \in Seq(S)
  <2>1. \A p \in Seq(S) \X (1..n) : p[1] \o seqs[p[2]] \in Seq(S)
    BY <1>1
  <2> QED  BY <1>1, <2>1
<1>3. PICK f \in [1..n -> Seq(S)] : Iterates(f, n, seqs[1], F)
  <2> HIDE DEF F, n
  <2> QED  BY <1>1, <1>2, IterationExists
<1>4. \A i \in 1..n : f[i] = IF i = 1 THEN seqs[i] ELSE f[i - 1] \o seqs[i]
  <2> SUFFICES ASSUME NEW i \in 1..n
               PROVE  f[i] = IF i = 1 THEN seqs[i] ELSE f[i - 1] \o seqs[i]
    OBVIOUS
  <2>1. f[i] = IF i = 1 THEN seqs[1] ELSE F[<<f[i - 1], i>>]
    BY <1>3 DEF Iterates
  <2>2. i # 1 => f[i - 1] \in Seq(S)
    <3>1. i # 1 => i - 1 \in 1..n
      BY <1>1
    <3> QED  BY <3>1
  <2> QED  BY <2>1, <2>2
<1>5. f = [i \in 1..n |-> IF i = 1 THEN seqs[i] ELSE f[i - 1] \o seqs[i]]
  BY <1>4
<1>6. flatten = [i \in 1..n |-> IF i = 1 THEN seqs[i] ELSE flatten[i - 1] \o seqs[i]]
  BY <1>5
<1>7. FlattenSeq(seqs) = flatten[n]
  BY DEF FlattenSeq, flatten
<1> HIDE DEF flatten
<1>8. \A i \in 1..n : f[i] = flatten[i]
  <2> DEFINE P == {i \in 1..n : f[i] = flatten[i]}
  <2>1. \A i \in 1..n : (i # 1 => i - 1 \in P) => i \in P
    <3> SUFFICES ASSUME NEW i \in 1..n, i # 1 => f[i - 1] = flatten[i - 1]
                 PROVE  f[i] = flatten[i]
      OBVIOUS
    <3>1. flatten[i] = IF i = 1 THEN seqs[i] ELSE flatten[i - 1] \o seqs[i]
      BY <1>6
    <3> HIDE DEF n
    <3> QED  BY <1>4, <3>1
  <2>2. \A i \in 1..n : i \in P
    <3> HIDE DEF P, n
    <3> QED  BY <1>1, <2>1, OneByOne
  <2> QED  BY <2>2
<1> QED  BY <1>1, <1>4, <1>7, <1>8

\* Joined, they are a sequence of their elements.
LEMMA FlattenType ==
    ASSUME NEW S, NEW seqs \in Seq(Seq(S))
    PROVE  FlattenSeq(seqs) \in Seq(S)
<1>1. CASE Len(seqs) = 0
  <2>1. FlattenSeq(seqs) = <<>>
    BY <1>1 DEF FlattenSeq
  <2> QED  BY <2>1
<1>2. CASE Len(seqs) # 0
  <2>1. PICK f \in [1..Len(seqs) -> Seq(S)] : FlattenSeq(seqs) = f[Len(seqs)]
    BY <1>2, FlattenUnfolds
  <2>2. Len(seqs) \in 1..Len(seqs)
    BY <1>2
  <2>3. f[Len(seqs)] \in Seq(S)
    BY <2>2
  <2> QED  BY <2>1, <2>3
<1> QED  BY <1>1, <1>2

\* A sequence more is joined at the end.
LEMMA FlattenAppend ==
    ASSUME NEW S, NEW n \in Nat, NEW seqs \in [1..(n + 1) -> Seq(S)],
           NEW before, before = [i \in 1..n |-> seqs[i]]
    PROVE  FlattenSeq(seqs) = FlattenSeq(before) \o seqs[n + 1]
<1>1. /\ seqs \in Seq(Seq(S)) /\ Len(seqs) = n + 1
      /\ before \in Seq(Seq(S)) /\ Len(before) = n
  OBVIOUS
<1>2. PICK f \in [1..Len(seqs) -> Seq(S)] :
        /\ \A i \in 1..Len(seqs) : f[i] = IF i = 1 THEN seqs[1] ELSE f[i - 1] \o seqs[i]
        /\ FlattenSeq(seqs) = f[Len(seqs)]
  <2>1. Len(seqs) # 0
    BY <1>1
  <2> HIDE <1>1
  <2> QED  BY <1>1, <2>1, FlattenUnfolds, Zenon
<1>3. \A i \in 1..(n + 1) : /\ f[i] \in Seq(S)
                            /\ f[i] = IF i = 1 THEN seqs[1] ELSE f[i - 1] \o seqs[i]
  BY <1>1, <1>2
<1>4. FlattenSeq(seqs) = f[n + 1]
  BY <1>1, <1>2
<1>5. CASE n = 0
  <2>1. FlattenSeq(before) = <<>>
    BY <1>1, <1>5 DEF FlattenSeq
  <2>2. f[1] = seqs[1] /\ seqs[1] \in Seq(S)
    BY <1>3, <1>5
  <2>3. FlattenSeq(seqs) = seqs[1]
    BY <1>4, <1>5, <2>2
  <2>4. <<>> \in Seq(S) /\ <<>> \o seqs[1] = seqs[1]
    BY <2>2
  <2>5. n + 1 = 1
    BY <1>5
  <2> QED  BY <2>1, <2>3, <2>4, <2>5
<1>6. CASE n # 0
  <2>1. PICK g \in [1..Len(before) -> Seq(S)] :
          /\ \A i \in 1..Len(before) : g[i] = IF i = 1 THEN before[1] ELSE g[i - 1] \o before[i]
          /\ FlattenSeq(before) = g[Len(before)]
    <3>1. Len(before) # 0
      BY <1>1, <1>6
    <3> HIDE <1>1
    <3> QED  BY <1>1, <3>1, FlattenUnfolds, Zenon
  <2>2. \A i \in 1..n : g[i] = IF i = 1 THEN before[1] ELSE g[i - 1] \o before[i]
    BY <1>1, <2>1
  <2>3. \A i \in 1..n : before[i] = seqs[i] /\ i \in 1..(n + 1)
    OBVIOUS
  <2>4. \A i \in 1..n : (i # 1 => f[i - 1] = g[i - 1]) => f[i] = g[i]
    <3> SUFFICES ASSUME NEW i \in 1..n, i # 1 => f[i - 1] = g[i - 1]
                 PROVE  f[i] = g[i]
      OBVIOUS
    <3>1. f[i] = IF i = 1 THEN seqs[1] ELSE f[i - 1] \o seqs[i]
      BY <1>3, <2>3
    <3>2. g[i] = IF i = 1 THEN before[1] ELSE g[i - 1] \o before[i]
      BY <2>2
    <3>3. before[i] = seqs[i]
      BY <2>3
    <3> QED  BY <3>1, <3>2, <3>3
  <2>5. \A i \in 1..n : f[i] = g[i]
    <3> DEFINE P == {i \in 1..n : f[i] = g[i]}
    <3>1. \A i \in 1..n : (i # 1 => i - 1 \in P) => i \in P
      BY <2>4
    <3>2. \A i \in 1..n : i \in P
      <4> HIDE DEF P
      <4> QED  BY <3>1, OneByOne
    <3> QED  BY <3>2
  <2>6. f[n + 1] = f[n] \o seqs[n + 1] /\ f[n] \in Seq(S) /\ f[n] = g[n]
    <3>1. n + 1 \in 1..(n + 1) /\ n + 1 # 1 /\ n + 1 - 1 = n /\ n \in 1..n
      BY <1>6
    <3>2. f[n + 1] = f[n] \o seqs[n + 1]
      <4> DEFINE k == n + 1
      <4>1. k \in 1..k /\ k # 1 /\ k - 1 = n
        BY <3>1
      <4>2. \A i \in 1..k : f[i] = IF i = 1 THEN seqs[1] ELSE f[i - 1] \o seqs[i]
        BY <1>3
      <4> HIDE DEF k
      <4>3. f[k] = IF k = 1 THEN seqs[1] ELSE f[k - 1] \o seqs[k]
        BY <4>1, <4>2
      <4>4. f[k] = f[n] \o seqs[k]
        BY <4>1, <4>3
      <4> QED  BY <4>4 DEF k
    <3> QED  BY <1>3, <2>5, <3>1, <3>2
  <2>7. FlattenSeq(before) = f[n]
    BY <1>1, <2>1, <2>6
  <2> QED  BY <1>4, <2>6, <2>7
<1> QED  BY <1>5, <1>6

\* f[i] is pre[i] followed by what f has at nxt[i], a later place, and nothing
\* after place n.
Chain(f, n, top, pre, nxt) ==
    f = [i \in 1..top |-> IF i > n THEN <<>> ELSE pre[i] \o f[nxt[i]]]

\* There is such a function.
LEMMA ChainExists ==
    ASSUME NEW S, NEW n \in Nat, NEW top \in Nat, NEW pre \in [1..n -> Seq(S)],
           NEW nxt \in [1..n -> 1..top], \A i \in 1..n : i < nxt[i]
    PROVE  \E f : Chain(f, n, top, pre, nxt)
<1> DEFINE Entry(f, i) == IF i > n THEN <<>> ELSE pre[i] \o f[nxt[i]]
           From(f, k) == /\ f \in [k..top -> Seq(S)]
                         /\ \A i \in k..top : f[i] = Entry(f, i)
           D == {m \in 0..top : ~\E f : From(f, top + 1 - m)}
<1>1. D = {}
  <2>1. SUFFICES ASSUME D # {}
                 PROVE  FALSE
    OBVIOUS
  <2>2. D \in SUBSET Nat
    <3> HIDE DEF From
    <3> QED  OBVIOUS
  <2>3. PICK m \in D : \A k \in D : m <= k
    <3> HIDE DEF D
    <3> QED  BY <2>1, <2>2, LeastElement
  <2>4. m \in 0..top /\ ~\E f : From(f, top + 1 - m)
    OBVIOUS
  <2>5. m # 0
    <3>1. From(<<>>, top + 1)
      <4>1. (top + 1)..top = {}
        OBVIOUS
      <4>2. <<>> \in [(top + 1)..top -> Seq(S)]
        BY <4>1
      <4> QED  BY <4>1, <4>2
    <3> HIDE DEF From
    <3> QED  BY <2>4, <3>1
  <2> DEFINE k == top + 1 - m
  <2>6. k \in 1..top /\ k + 1 = top + 1 - (m - 1) /\ m - 1 \in 0..top /\ ~(m <= m - 1)
    BY <2>4, <2>5
  <2>7. PICK g : From(g, k + 1)
    <3> HIDE DEF From, k
    <3>1. m - 1 \notin D
      BY <2>3, <2>6
    <3> QED  BY <2>6, <3>1
  <2> HIDE DEF D, k
  <2>8. /\ g \in [(k + 1)..top -> Seq(S)]
        /\ \A i \in (k + 1)..top : g[i] = Entry(g, i)
    BY <2>7
  <2>9. Entry(g, k) \in Seq(S)
    <3>1. CASE k > n
      BY <3>1
    <3>2. CASE ~(k > n)
      <4>1. k \in 1..n
        BY <2>6, <3>2
      <4>2. nxt[k] \in (k + 1)..top
        BY <2>6, <4>1
      <4>3. pre[k] \in Seq(S) /\ g[nxt[k]] \in Seq(S)
        BY <2>8, <4>1, <4>2
      <4>4. pre[k] \o g[nxt[k]] \in Seq(S)
        BY <4>3
      <4> QED  BY <3>2, <4>4
    <3> QED  BY <3>1, <3>2
  <2> DEFINE h == [i \in k..top |-> IF i = k THEN Entry(g, k) ELSE g[i]]
  <2>10. \A i \in (k + 1)..top : i \in k..top /\ i # k /\ h[i] = g[i]
    BY <2>6
  <2>11. h[k] = Entry(g, k)
    BY <2>6
  <2>12. \A i \in k..top : i > n \/ (i \in 1..n /\ nxt[i] \in (k + 1)..top)
    BY <2>6
  <2>13. \A i \in k..top : Entry(h, i) = Entry(g, i)
    <3> HIDE DEF h
    <3> QED  BY <2>10, <2>12
  <2>14. \A i \in k..top : i = k \/ i \in (k + 1)..top
    BY <2>6
  <2>15. \A i \in k..top : h[i] \in Seq(S) /\ h[i] = Entry(h, i)
    <3> HIDE DEF h, Entry
    <3> QED  BY <2>8, <2>9, <2>10, <2>11, <2>13, <2>14
  <2>16. h \in [k..top -> Seq(S)]
    <3> HIDE DEF Entry
    <3> QED  BY <2>8, <2>9, <2>14
  <2> HIDE DEF h, Entry
  <2> QED  BY <2>4, <2>15, <2>16 DEF k
<1>2. top \in 0..top
  OBVIOUS
<1>3. PICK f : From(f, top + 1 - top)
  <2> HIDE DEF From
  <2> QED  BY <1>1, <1>2
<1>4. top + 1 - top = 1
  OBVIOUS
<1>5. f \in [1..top -> Seq(S)] /\ \A i \in 1..top : f[i] = Entry(f, i)
  BY <1>3, <1>4
<1>6. f = [i \in 1..top |-> Entry(f, i)]
  <2> HIDE DEF Entry
  <2> QED  BY <1>5
<1> QED  BY <1>6 DEF Chain

\* Its values are sequences of the same elements.
LEMMA ChainType ==
    ASSUME NEW S, NEW n \in Nat, NEW top \in Nat, NEW pre \in [1..n -> Seq(S)],
           NEW nxt \in [1..n -> 1..top], \A i \in 1..n : i < nxt[i],
           NEW f, Chain(f, n, top, pre, nxt)
    PROVE  \A i \in 1..top : f[i] \in Seq(S)
<1> DEFINE D == {m \in 0..top : top + 1 - m \in 1..top /\ f[top + 1 - m] \notin Seq(S)}
<1>1. D = {}
  <2>1. SUFFICES ASSUME D # {}
                 PROVE  FALSE
    OBVIOUS
  <2>2. PICK m \in D : \A k \in D : m <= k
    <3>1. D \in SUBSET Nat
      OBVIOUS
    <3> HIDE DEF D
    <3> QED  BY <2>1, <3>1, LeastElement
  <2> DEFINE i == top + 1 - m
  <2>3. m \in 0..top /\ i \in 1..top /\ f[i] \notin Seq(S)
    OBVIOUS
  <2>4. f[i] = IF i > n THEN <<>> ELSE pre[i] \o f[nxt[i]]
    BY <2>3 DEF Chain
  <2>5. i \in 1..n
    BY <2>3, <2>4
  <2>6. /\ nxt[i] \in 1..top /\ i < nxt[i]
        /\ top + 1 - (top + 1 - nxt[i]) = nxt[i] /\ top + 1 - nxt[i] \in 0..top
        /\ ~(m <= top + 1 - nxt[i])
    BY <2>3, <2>5
  <2>7. f[nxt[i]] \in Seq(S)
    BY <2>2, <2>6
  <2>8. pre[i] \in Seq(S) /\ pre[i] \o f[nxt[i]] \in Seq(S)
    BY <2>5, <2>7
  <2> HIDE DEF i
  <2> QED  BY <2>3, <2>4, <2>5, <2>8
<1>2. \A i \in 1..top : top + 1 - i \in 0..top /\ top + 1 - (top + 1 - i) = i
  OBVIOUS
<1> QED  BY <1>1, <1>2

-----------------------------------------------------------------------------
(* Expansion. *)

LEMMA LookupType ==
    ASSUME NEW name
    PROVE  Lookup(name) \in Words
<1>1. <<>> \in Words
  BY DEF Words
<1> QED  BY <1>1, TextAssumption DEF Lookup

\* os.Expand turns a text into a text.
LEMMA OSExpandType ==
    ASSUME NEW w \in Words
    PROVE  OSExpand(w) \in Words
<1> DEFINE n == Len(w)
           IsEnd(i, e) == /\ \A k \in (i + 1)..e : w[k] = "n"
                          /\ e = n \/ w[e + 1] # "n"
           nameEnd(i) == CHOOSE e \in i..n : IsEnd(i, e)
           pre == [i \in 1..n |->
                     IF w[i] # "$" \/ i = n THEN <<w[i]>>
                     ELSE IF w[i + 1] = "$" THEN Lookup(<<"$">>)
                     ELSE IF nameEnd(i) = i THEN <<"$">>
                     ELSE Lookup(SubSeq(w, i + 1, nameEnd(i)))]
           nxt == [i \in 1..n |->
                     IF w[i] # "$" \/ i = n THEN i + 1
                     ELSE IF w[i + 1] = "$" THEN i + 2
                     ELSE IF nameEnd(i) = i THEN i + 1
                     ELSE nameEnd(i) + 1]
           Body(f, i) == IF i > n THEN <<>>
                         ELSE IF w[i] # "$" \/ i = n THEN <<w[i]>> \o f[i + 1]
                         ELSE IF w[i + 1] = "$" THEN Lookup(<<"$">>) \o f[i + 2]
                         ELSE IF nameEnd(i) = i THEN <<"$">> \o f[i + 1]
                         ELSE Lookup(SubSeq(w, i + 1, nameEnd(i))) \o f[nameEnd(i) + 1]
           from[i \in 1..(n + 2)] == Body(from, i)
<1>1. n \in Nat /\ \A i \in 1..n : w[i] \in Runes
  BY DEF Words
<1>2. \A i \in 1..n : nameEnd(i) \in i..n
  <2> SUFFICES ASSUME NEW i \in 1..n
               PROVE  \E e \in i..n : IsEnd(i, e)
    OBVIOUS
  <2> DEFINE D == {e \in i..n : e = n \/ w[e + 1] # "n"}
  <2>1. D \in SUBSET Nat /\ D # {}
    <3>1. n \in D
      BY <1>1
    <3> QED  BY <1>1, <3>1
  <2>2. PICK e \in D : \A k \in D : e <= k
    <3> HIDE DEF D
    <3> QED  BY <2>1, LeastElement
  <2>3. \A k \in (i + 1)..e : w[k] = "n"
    <3> SUFFICES ASSUME NEW k \in (i + 1)..e
                 PROVE  w[k] = "n"
      OBVIOUS
    <3>1. k - 1 \in i..n /\ k - 1 + 1 = k /\ k - 1 # n /\ ~(e <= k - 1)
      BY <1>1
    <3>2. k - 1 \notin D
      BY <2>2, <3>1
    <3> QED  BY <3>1, <3>2
  <2> QED  BY <2>2, <2>3
<1> HIDE DEF nameEnd
<1>3. pre \in [1..n -> Seq(Runes)]
  <2>1. \A name : Lookup(name) \in Seq(Runes)
    BY LookupType DEF Words
  <2>2. \A i \in 1..n : <<w[i]>> \in Seq(Runes)
    BY <1>1
  <2>3. <<"$">> \in Seq(Runes)
    BY DEF Runes
  <2> HIDE DEF n
  <2> QED  BY <2>1, <2>2, <2>3
<1>4. nxt \in [1..n -> 1..(n + 2)] /\ \A i \in 1..n : i < nxt[i]
  <2>1. \A i \in 1..n : nameEnd(i) + 1 \in 1..(n + 2) /\ i < nameEnd(i) + 1
    BY <1>1, <1>2
  <2>2. \A i \in 1..n : i + 1 \in 1..(n + 2) /\ i + 2 \in 1..(n + 2) /\ i < i + 1 /\ i < i + 2
    BY <1>1
  <2> HIDE DEF n
  <2> QED  BY <2>1, <2>2
<1>5. ASSUME NEW f
      PROVE  Chain(f, n, n + 2, pre, nxt) <=> f = [i \in 1..(n + 2) |-> Body(f, i)]
  <2>1. \A i \in 1..(n + 2) : (IF i > n THEN <<>> ELSE pre[i] \o f[nxt[i]]) = Body(f, i)
    <3>1. \A i \in 1..(n + 2) : i > n \/ i \in 1..n
      BY <1>1
    <3> HIDE DEF n
    <3> QED  BY <3>1
  <2> HIDE DEF n, pre, nxt, Body
  <2> QED  BY <2>1 DEF Chain
<1>6. \E f : Chain(f, n, n + 2, pre, nxt)
  <2>1. n + 2 \in Nat
    BY <1>1
  <2> HIDE DEF n, pre, nxt
  <2> QED  BY <1>1, <1>3, <1>4, <2>1, ChainExists
<1>7. \E f : f = [i \in 1..(n + 2) |-> Body(f, i)]
  <2> HIDE DEF n, pre, nxt, Body
  <2> QED  BY <1>5, <1>6
<1>8. from = [i \in 1..(n + 2) |-> Body(from, i)]
  <2> HIDE DEF Body
  <2> QED  BY <1>7
<1> HIDE DEF from
<1>9. from[1] \in Seq(Runes)
  <2>1. n + 2 \in Nat /\ 1 \in 1..(n + 2)
    BY <1>1
  <2> HIDE DEF n, pre, nxt, Body
  <2>2. Chain(from, n, n + 2, pre, nxt)
    BY <1>5, <1>8
  <2> QED  BY <1>1, <1>3, <1>4, <2>1, <2>2, ChainType
<1>10. OSExpand(w) = from[1]
  BY DEF OSExpand, from, nameEnd
<1> QED  BY <1>9, <1>10 DEF Words

\* So does ExpandWindowsEnv.
LEMMA ExpandWindowsEnvType ==
    ASSUME NEW w \in Words
    PROVE  ExpandWindowsEnv(w) \in Words
<1> DEFINE n == Len(w)
           closing(i) == {e \in (i + 1)..n : w[e] = "%"}
           first(S) == CHOOSE e \in S : \A f \in S : e <= f
           pre == [i \in 1..n |->
                     IF w[i] # "%" \/ closing(i) = {} THEN <<w[i]>>
                     ELSE Lookup(SubSeq(w, i + 1, first(closing(i)) - 1))]
           nxt == [i \in 1..n |->
                     IF w[i] # "%" \/ closing(i) = {} THEN i + 1
                     ELSE first(closing(i)) + 1]
           Body(f, i) == IF i > n THEN <<>>
                         ELSE IF w[i] # "%" \/ closing(i) = {} THEN <<w[i]>> \o f[i + 1]
                         ELSE Lookup(SubSeq(w, i + 1, first(closing(i)) - 1))
                                \o f[first(closing(i)) + 1]
           from[i \in 1..(n + 1)] == Body(from, i)
<1>1. n \in Nat /\ \A i \in 1..n : w[i] \in Runes
  BY DEF Words
<1>2. \A i \in 1..n : closing(i) # {} => first(closing(i)) \in (i + 1)..n
  <2> SUFFICES ASSUME NEW i \in 1..n, closing(i) # {}
               PROVE  \E e \in closing(i) : \A f \in closing(i) : e <= f
    OBVIOUS
  <2>1. closing(i) \in SUBSET Nat
    BY <1>1
  <2> HIDE DEF closing
  <2> QED  BY <2>1, LeastElement
<1> HIDE DEF first, closing
<1>3. pre \in [1..n -> Seq(Runes)]
  <2>1. \A name : Lookup(name) \in Seq(Runes)
    BY LookupType DEF Words
  <2>2. \A i \in 1..n : <<w[i]>> \in Seq(Runes)
    BY <1>1
  <2> HIDE DEF n
  <2> QED  BY <2>1, <2>2
<1>4. nxt \in [1..n -> 1..(n + 1)] /\ \A i \in 1..n : i < nxt[i]
  <2>1. \A i \in 1..n : closing(i) # {} =>
          first(closing(i)) + 1 \in 1..(n + 1) /\ i < first(closing(i)) + 1
    BY <1>1, <1>2
  <2>2. \A i \in 1..n : i + 1 \in 1..(n + 1) /\ i < i + 1
    BY <1>1
  <2> HIDE DEF n
  <2> QED  BY <2>1, <2>2
<1>5. ASSUME NEW f
      PROVE  Chain(f, n, n + 1, pre, nxt) <=> f = [i \in 1..(n + 1) |-> Body(f, i)]
  <2>1. \A i \in 1..(n + 1) : (IF i > n THEN <<>> ELSE pre[i] \o f[nxt[i]]) = Body(f, i)
    <3>1. \A i \in 1..(n + 1) : i > n \/ i \in 1..n
      BY <1>1
    <3> HIDE DEF n
    <3> QED  BY <3>1
  <2> HIDE DEF n, pre, nxt, Body
  <2> QED  BY <2>1 DEF Chain
<1>6. \E f : Chain(f, n, n + 1, pre, nxt)
  <2>1. n + 1 \in Nat
    BY <1>1
  <2> HIDE DEF n, pre, nxt
  <2> QED  BY <1>1, <1>3, <1>4, <2>1, ChainExists
<1>7. \E f : f = [i \in 1..(n + 1) |-> Body(f, i)]
  <2> HIDE DEF n, pre, nxt, Body
  <2> QED  BY <1>5, <1>6
<1>8. from = [i \in 1..(n + 1) |-> Body(from, i)]
  <2> HIDE DEF Body
  <2> QED  BY <1>7
<1> HIDE DEF from
<1>9. from[1] \in Seq(Runes)
  <2>1. n + 1 \in Nat /\ 1 \in 1..(n + 1)
    BY <1>1
  <2> HIDE DEF n, pre, nxt, Body
  <2>2. Chain(from, n, n + 1, pre, nxt)
    BY <1>5, <1>8
  <2> QED  BY <1>1, <1>3, <1>4, <2>1, <2>2, ChainType
<1>10. ExpandWindowsEnv(w) = from[1]
  BY DEF ExpandWindowsEnv, from, first, closing
<1> QED  BY <1>9, <1>10 DEF Words

LEMMA ExpandTokenType ==
    ASSUME NEW w \in Words
    PROVE  ExpandToken(w) \in Words
  BY OSExpandType, ExpandWindowsEnvType DEF ExpandToken

\* A function that puts the runes of w one before the other.
OneRune(w)  == [i \in 1..Len(w) |-> <<w[i]>>]
NextRune(w) == [i \in 1..Len(w) |-> i + 1]
Copies(f, w, top) == Chain(f, Len(w), top, OneRune(w), NextRune(w))

LEMMA CopyExists ==
    ASSUME NEW w \in Words, NEW top \in Nat, top > Len(w)
    PROVE  \E f : Copies(f, w, top)
<1> DEFINE n == Len(w)
<1>1. n \in Nat /\ \A i \in 1..n : w[i] \in Runes
  BY DEF Words
<1>2. OneRune(w) \in [1..n -> Seq(Runes)]
  BY <1>1 DEF OneRune
<1>3. NextRune(w) \in [1..n -> 1..top] /\ \A i \in 1..n : i < NextRune(w)[i]
  BY <1>1 DEF NextRune
<1> HIDE DEF n
<1>4. \E f : Chain(f, n, top, OneRune(w), NextRune(w))
  BY <1>1, <1>2, <1>3, ChainExists
<1> QED  BY <1>4 DEF Copies, n

\* It has w at the first place.
LEMMA CopyIsWhole ==
    ASSUME NEW w \in Words, NEW top \in Nat, top > Len(w), NEW f, Copies(f, w, top)
    PROVE  f[1] = w
<1> DEFINE n == Len(w)
           IsRest(t, i) == /\ t \in Seq(Runes) /\ Len(t) = n + 1 - i
                           /\ \A k \in 1..(n + 1 - i) : t[k] = w[i + k - 1]
           P == {j \in 1..(n + 1) : IsRest(f[n + 2 - j], n + 2 - j)}
<1>1. n \in Nat /\ \A i \in 1..n : w[i] \in Runes
  BY DEF Words
<1>2. /\ f[n + 1] = <<>>
      /\ \A i \in 1..n : f[i] = <<w[i]>> \o f[i + 1]
  <2> DEFINE at(i) == IF i > n THEN <<>> ELSE OneRune(w)[i] \o f[NextRune(w)[i]]
  <2>1. f = [i \in 1..top |-> at(i)]
    BY DEF Copies, Chain
  <2>2. /\ n + 1 \in 1..top /\ n + 1 > n
        /\ \A i \in 1..n : i \in 1..top /\ ~(i > n)
    BY <1>1
  <2>3. \A i \in 1..n : OneRune(w)[i] = <<w[i]>> /\ NextRune(w)[i] = i + 1
    BY DEF OneRune, NextRune
  <2>4. \A i \in 1..top : f[i] = at(i)
    <3> HIDE DEF at
    <3> QED  BY <2>1
  <2> HIDE DEF n
  <2> QED  BY <2>2, <2>3, <2>4
<1>3. \A j \in 1..(n + 1) : (j # 1 => j - 1 \in P) => j \in P
  <2> SUFFICES ASSUME NEW j \in 1..(n + 1), j # 1 => j - 1 \in P
               PROVE  j \in P
    OBVIOUS
  <2> DEFINE i == n + 2 - j
  <2>1. CASE j = 1
    <3>1. i = n + 1 /\ n + 1 - i = 0
      BY <1>1, <2>1
    <3>2. f[i] = <<>>
      BY <1>2, <3>1
    <3> HIDE DEF i
    <3>3. <<>> \in Seq(Runes) /\ Len(<<>>) = 0
      BY EmptySeq
    <3>4. IsRest(f[i], i)
      BY <1>1, <3>1, <3>2, <3>3
    <3> QED  BY <3>4 DEF i
  <2>2. CASE j # 1
    <3> DEFINE rest == f[i + 1]
               whole == <<w[i]>> \o rest
    <3>1. i \in 1..n /\ n + 2 - (j - 1) = i + 1
      BY <1>1, <2>2
    <3>2. IsRest(rest, i + 1)
      BY <2>2, <3>1
    <3>3. f[i] = whole /\ w[i] \in Runes
      <4> HIDE DEF i, IsRest
      <4> QED  BY <1>1, <1>2, <3>1
    <3> HIDE DEF rest, i, P
    <3>4. <<w[i]>> \in Seq(Runes) /\ Len(<<w[i]>>) = 1 /\ <<w[i]>>[1] = w[i]
      BY <3>3
    <3>5. /\ whole \in Seq(Runes) /\ Len(whole) = 1 + Len(rest)
          /\ \A k \in 1..(1 + Len(rest)) :
               whole[k] = IF k <= 1 THEN <<w[i]>>[k] ELSE rest[k - 1]
      BY <3>2, <3>4, ConcatProperties
    <3> HIDE DEF whole
    <3>6. Len(whole) = n + 1 - i
      BY <1>1, <3>1, <3>2, <3>5
    <3>7. \A k \in 1..(n + 1 - i) : whole[k] = w[i + k - 1]
      <4> SUFFICES ASSUME NEW k \in 1..(n + 1 - i)
                   PROVE  whole[k] = w[i + k - 1]
        OBVIOUS
      <4>1. CASE k = 1
        BY <1>1, <3>1, <3>2, <3>4, <3>5, <4>1
      <4>2. CASE k # 1
        <5>1. k - 1 \in 1..(n + 1 - (i + 1)) /\ (i + 1) + (k - 1) - 1 = i + k - 1
          BY <1>1, <3>1, <4>2
        <5>2. rest[k - 1] = w[(i + 1) + (k - 1) - 1]
          BY <3>2, <5>1
        <5>3. whole[k] = rest[k - 1]
          BY <1>1, <3>1, <3>2, <3>5, <4>2
        <5> QED  BY <5>1, <5>2, <5>3
      <4> QED  BY <4>1, <4>2
    <3>8. IsRest(f[i], i)
      BY <3>3, <3>5, <3>6, <3>7
    <3> QED  BY <3>8 DEF P, i
  <2> QED  BY <2>1, <2>2
<1>4. n + 1 \in P
  <2>1. n + 1 \in Nat /\ n + 1 \in 1..(n + 1)
    BY <1>1
  <2> HIDE DEF P, n
  <2> QED  BY <1>3, <2>1, OneByOne
<1>5. IsRest(f[1], 1)
  <2>1. n + 2 - (n + 1) = 1
    BY <1>1
  <2> QED  BY <1>4, <2>1
<1>6. Len(f[1]) = Len(w) /\ \A k \in 1..Len(f[1]) : f[1][k] = w[k]
  BY <1>1, <1>5
<1> QED  BY <1>5, <1>6, SeqEqual DEF Words

\* A word without "$" stays as it is.
LEMMA OSExpandKeeps ==
    ASSUME NEW w \in Words, \A k \in DOMAIN w : w[k] # "$"
    PROVE  OSExpand(w) = w
<1> DEFINE n == Len(w)
           nameEnd(i) == CHOOSE e \in i..n : /\ \A k \in (i + 1)..e : w[k] = "n"
                                             /\ e = n \/ w[e + 1] # "n"
           Body(f, i) == IF i > n THEN <<>>
                         ELSE IF w[i] # "$" \/ i = n THEN <<w[i]>> \o f[i + 1]
                         ELSE IF w[i + 1] = "$" THEN Lookup(<<"$">>) \o f[i + 2]
                         ELSE IF nameEnd(i) = i THEN <<"$">> \o f[i + 1]
                         ELSE Lookup(SubSeq(w, i + 1, nameEnd(i))) \o f[nameEnd(i) + 1]
           from[i \in 1..(n + 2)] == Body(from, i)
<1>1. n \in Nat /\ n + 2 \in Nat /\ n + 2 > n /\ \A i \in 1..n : w[i] # "$"
  BY DEF Words
<1> HIDE DEF nameEnd
<1>2. ASSUME NEW f
      PROVE  Copies(f, w, n + 2) <=> f = [i \in 1..(n + 2) |-> Body(f, i)]
  <2>1. \A i \in 1..(n + 2) :
          (IF i > n THEN <<>> ELSE OneRune(w)[i] \o f[NextRune(w)[i]]) = Body(f, i)
    <3>1. \A i \in 1..(n + 2) : i > n \/ i \in 1..n
      BY <1>1
    <3> QED  BY <1>1, <3>1 DEF OneRune, NextRune
  <2> HIDE DEF Body
  <2> QED  BY <2>1 DEF Copies, Chain
<1>3. \E f : f = [i \in 1..(n + 2) |-> Body(f, i)]
  <2> HIDE DEF Body
  <2> QED  BY <1>1, <1>2, CopyExists
<1>4. from = [i \in 1..(n + 2) |-> Body(from, i)]
  <2> HIDE DEF Body
  <2> QED  BY <1>3
<1> HIDE DEF from, Body
<1>5. from[1] = w
  BY <1>1, <1>2, <1>4, CopyIsWhole
<1>6. OSExpand(w) = from[1]
  BY DEF OSExpand, from, nameEnd, Body
<1> QED  BY <1>5, <1>6

\* So does one without "%".
LEMMA ExpandWindowsEnvKeeps ==
    ASSUME NEW w \in Words, \A k \in DOMAIN w : w[k] # "%"
    PROVE  ExpandWindowsEnv(w) = w
<1> DEFINE n == Len(w)
           closing(i) == {e \in (i + 1)..n : w[e] = "%"}
           first(S) == CHOOSE e \in S : \A f \in S : e <= f
           Body(f, i) == IF i > n THEN <<>>
                         ELSE IF w[i] # "%" \/ closing(i) = {} THEN <<w[i]>> \o f[i + 1]
                         ELSE Lookup(SubSeq(w, i + 1, first(closing(i)) - 1))
                                \o f[first(closing(i)) + 1]
           from[i \in 1..(n + 1)] == Body(from, i)
<1>1. n \in Nat /\ n + 1 \in Nat /\ n + 1 > n /\ \A i \in 1..n : w[i] # "%"
  BY DEF Words
<1> HIDE DEF first, closing
<1>2. ASSUME NEW f
      PROVE  Copies(f, w, n + 1) <=> f = [i \in 1..(n + 1) |-> Body(f, i)]
  <2>1. \A i \in 1..(n + 1) :
          (IF i > n THEN <<>> ELSE OneRune(w)[i] \o f[NextRune(w)[i]]) = Body(f, i)
    <3>1. \A i \in 1..(n + 1) : i > n \/ i \in 1..n
      BY <1>1
    <3> QED  BY <1>1, <3>1 DEF OneRune, NextRune
  <2> HIDE DEF Body
  <2> QED  BY <2>1 DEF Copies, Chain
<1>3. \E f : f = [i \in 1..(n + 1) |-> Body(f, i)]
  <2> HIDE DEF Body
  <2> QED  BY <1>1, <1>2, CopyExists
<1>4. from = [i \in 1..(n + 1) |-> Body(from, i)]
  <2> HIDE DEF Body
  <2> QED  BY <1>3
<1> HIDE DEF from, Body
<1>5. from[1] = w
  BY <1>1, <1>2, <1>4, CopyIsWhole
<1>6. ExpandWindowsEnv(w) = from[1]
  BY DEF ExpandWindowsEnv, from, first, closing, Body
<1> QED  BY <1>5, <1>6

\* Expansion leaves a word alone that has neither.
LEMMA ExpandTokenKeeps ==
    ASSUME NEW w \in Words, \A k \in DOMAIN w : w[k] \notin {"$", "%"}
    PROVE  ExpandToken(w) = w
BY OSExpandKeeps, ExpandWindowsEnvKeeps DEF ExpandToken

-----------------------------------------------------------------------------
(* The inductive invariant. *)

\* The values of the tokens.
Values == [k \in DOMAIN scan.tokens |-> scan.tokens[k].value]

\* The tokens of a scanner, with the one that is being read.
Used(sc) == Len(sc.tokens) + (IF sc.started THEN 1 ELSE 0)

\* Every token has one of n columns.
ColumnsIn(sc, n) ==
    /\ \A k \in DOMAIN sc.tokens : sc.tokens[k].column \in 1..n
    /\ sc.column \in 0..n
    /\ sc.started => sc.column # 0

\* While the line is scanned nothing else has happened, and every token, complete or
\* not, took a rune of its own.
ScanInv ==
    phase = "scan" =>
      /\ raw # <<>> /\ line = EmptyLine /\ current = <<>> /\ column = 0
      /\ Used(scan) < next

\* Every token has a column of the line.
ColumnsInv == ColumnsIn(scan, Len(raw))

\* While the tokens are read, none of those that have been read is out of place, the
\* next one is not the target of a redirect, and words are collected exactly when
\* there is one to begin a command with.
ParseInv ==
    phase = "parse" =>
      /\ raw # <<>> /\ scan.quote = NoQuote
      /\ Len(scan.tokens) <= Len(raw) /\ next <= Len(scan.tokens) + 1
      /\ \A j \in Culprits(Values) : next <= j
      /\ ~Target(Values, next)
      /\ current = <<>> <=> NoCommand(Values, next)

\* How many words a command has, up to a place.
Count(v, c, p) == Cardinality(Written(v, c, p))

\* The words up to place p are in their commands, those of the last one in cur.
Collected(v, p, commands, cur) ==
    LET here == CommandAt(v, p + 1) IN
    /\ Len(commands) + 1 = here
    /\ Len(cur) = Count(v, here, p)
    /\ \A c \in 1..Len(commands) : Len(commands[c].words) = Count(v, c, p)
    /\ \A k \in 1..p : Plain(v, k) =>
         LET c == CommandAt(v, k) IN
         IF c = here THEN cur[Count(v, c, k)] = v[k]
         ELSE commands[c].words[Count(v, c, k)] = ExpandToken(v[k])

\* The redirects up to place p are in the line ln.
Redirected(v, p, ln) ==
    /\ IsTarget(ln.input, v, {<<"<">>}, p)
    /\ IsTarget(ln.output, v, {<<">">>, <<">", ">">>}, p)
    /\ ln.append <=> \E k \in 1..p :
                       v[k] = <<">", ">">> /\ \A j \in 1..p : v[j] = <<">">> => j < k
    /\ ln.background <=> \E k \in 1..p : v[k] = <<"&">>

\* While the tokens are read, what has been read of them is in the line.
CollectInv ==
    phase = "parse" => /\ Collected(Values, next - 1, line.commands, current)
                       /\ Redirected(Values, next - 1, line)

IInv ==
    /\ TypeOK /\ ScanInv /\ ColumnsInv /\ ParseInv /\ CollectInv
    /\ ErrorsAreTheFirst /\ LineAgrees

-----------------------------------------------------------------------------
(* Tokens out of place, for a sequence v of their values. *)

LEMMA OperatorsDiffer ==
    /\ <<"|">> \notin Redirects /\ <<"&">> \notin Redirects /\ <<"|">> # <<"&">>
    /\ Redirects \subseteq Operators /\ <<"|">> \in Operators /\ <<"&">> \in Operators
    /\ \A w \in Operators : w \in Redirects \/ w = <<"|">> \/ w = <<"&">>
<1>1. <<"|">>[1] = "|" /\ <<"&">>[1] = "&" /\ <<">", ">">>[1] = ">" /\ <<"<">>[1] = "<"
      /\ <<">">>[1] = ">"
  OBVIOUS
<1> QED  BY <1>1 DEF Redirects, Operators

LEMMA LimitsAndCulprits ==
    ASSUME NEW v \in Seq(Words)
    PROVE  /\ Len(v) \in Nat /\ DOMAIN v = 1..Len(v)
           /\ Limits(v) \subseteq 0..(Len(v) + 1)
           /\ Culprits(v) \subseteq 1..(Len(v) + 1)
           /\ Misplaced(v) \subseteq 1..Len(v)
<1>1. Len(v) \in Nat /\ DOMAIN v = 1..Len(v)
  OBVIOUS
<1>2. Limits(v) \subseteq 0..(Len(v) + 1)
  BY <1>1 DEF Limits
<1> QED  BY <1>1, <1>2 DEF Culprits, Misplaced

\* What may stand where, and when a command is missing at the next place.
LEMMA PipeReads ==
    ASSUME NEW v \in Seq(Words), NEW k \in 1..Len(v), v[k] = <<"|">>
    PROVE  /\ k \notin Misplaced(v)
           /\ k \in Culprits(v) <=> NoCommand(v, k)
           /\ NoCommand(v, k + 1)
           /\ ~Target(v, k + 1)
<1>1. k \notin Misplaced(v)
  BY OperatorsDiffer DEF Misplaced
<1>2. k \in Limits(v) \ {0}
  BY LimitsAndCulprits DEF Limits
<1>3. NoCommand(v, k + 1)
  BY <1>2 DEF NoCommand
<1>4. ~Target(v, k + 1)
  BY OperatorsDiffer DEF Target
<1> QED  BY <1>1, <1>2, <1>3, <1>4 DEF Culprits

LEMMA RedirectReads ==
    ASSUME NEW v \in Seq(Words), NEW k \in 1..Len(v), v[k] \in Redirects
    PROVE  /\ (k = Len(v) \/ v[k + 1] \in Operators) => k \in Misplaced(v) /\ k \in Culprits(v)
           /\ ~(k = Len(v) \/ v[k + 1] \in Operators) =>
                /\ k + 1 \in 1..Len(v)
                /\ k \notin Culprits(v) /\ k + 1 \notin Culprits(v)
                /\ NoCommand(v, k + 2) <=> NoCommand(v, k)
                /\ ~Target(v, k + 2)
<1>1. (k = Len(v) \/ v[k + 1] \in Operators) => k \in Misplaced(v) /\ k \in Culprits(v)
  BY LimitsAndCulprits DEF Misplaced, Culprits
<1>2. ASSUME ~(k = Len(v) \/ v[k + 1] \in Operators)
      PROVE  /\ k + 1 \in 1..Len(v)
             /\ k \notin Culprits(v) /\ k + 1 \notin Culprits(v)
             /\ NoCommand(v, k + 2) <=> NoCommand(v, k)
             /\ ~Target(v, k + 2)
  <2>1. k + 1 \in 1..Len(v)
    BY <1>2, LimitsAndCulprits
  <2>2. k \notin Limits(v) /\ k + 1 \notin Limits(v)
    BY <1>2, <2>1, OperatorsDiffer DEF Limits
  <2>3. k \notin Misplaced(v) /\ k + 1 \notin Misplaced(v)
    BY <1>2, <2>1, OperatorsDiffer DEF Misplaced
  <2>4. ~Plain(v, k) /\ ~Plain(v, k + 1)
    BY OperatorsDiffer DEF Plain, Target
  <2>5. NoCommand(v, k + 2) <=> NoCommand(v, k)
    <3>1. \A b \in Limits(v) : b < k + 2 <=> b < k
      BY <2>2, LimitsAndCulprits
    <3>2. \A b \in Limits(v) : \A j \in (b + 1)..(k + 1) : j \in (b + 1)..(k - 1) \/ j = k \/ j = k + 1
      BY LimitsAndCulprits
    <3>3. \A b \in Limits(v) : \A j \in (b + 1)..(k - 1) : j \in (b + 1)..(k + 1)
      BY LimitsAndCulprits
    <3>4. k + 2 - 1 = k + 1
      OBVIOUS
    <3> QED  BY <2>4, <3>1, <3>2, <3>3, <3>4 DEF NoCommand
  <2>6. ~Target(v, k + 2)
    BY <1>2, OperatorsDiffer DEF Target
  <2> QED  BY <2>1, <2>2, <2>3, <2>5, <2>6 DEF Culprits
<1> QED  BY <1>1, <1>2

LEMMA AmpersandReads ==
    ASSUME NEW v \in Seq(Words), NEW k \in 1..Len(v), v[k] = <<"&">>
    PROVE  /\ k # Len(v) => k \in Misplaced(v) /\ k \in Culprits(v)
           /\ k = Len(v) => k \notin Culprits(v)
           /\ NoCommand(v, k + 1) <=> NoCommand(v, k)
           /\ ~Target(v, k + 1)
<1>1. k \notin Limits(v)
  BY OperatorsDiffer, LimitsAndCulprits DEF Limits
<1>2. k # Len(v) => k \in Misplaced(v)
  BY LimitsAndCulprits DEF Misplaced
<1>3. k = Len(v) => k \notin Misplaced(v)
  BY OperatorsDiffer DEF Misplaced
<1>4. ~Plain(v, k)
  BY OperatorsDiffer DEF Plain
<1>5. NoCommand(v, k + 1) <=> NoCommand(v, k)
  <2>1. \A b \in Limits(v) : b < k + 1 <=> b < k
    BY <1>1, LimitsAndCulprits
  <2>2. \A b \in Limits(v) : \A j \in (b + 1)..k : j \in (b + 1)..(k - 1) \/ j = k
    BY LimitsAndCulprits
  <2>3. \A b \in Limits(v) : \A j \in (b + 1)..(k - 1) : j \in (b + 1)..k
    BY LimitsAndCulprits
  <2>4. k + 1 - 1 = k
    OBVIOUS
  <2> QED  BY <1>4, <2>1, <2>2, <2>3, <2>4 DEF NoCommand
<1>6. ~Target(v, k + 1)
  BY OperatorsDiffer DEF Target
<1> QED  BY <1>1, <1>2, <1>3, <1>5, <1>6 DEF Culprits

LEMMA WordReads ==
    ASSUME NEW v \in Seq(Words), NEW k \in 1..Len(v), v[k] \notin Operators, ~Target(v, k)
    PROVE  /\ k \notin Culprits(v)
           /\ ~NoCommand(v, k + 1)
           /\ ~Target(v, k + 1)
<1>1. k \notin Limits(v)
  BY OperatorsDiffer, LimitsAndCulprits DEF Limits
<1>2. k \notin Misplaced(v)
  BY OperatorsDiffer DEF Misplaced
<1>3. Plain(v, k)
  BY DEF Plain
<1>4. \A b \in Limits(v) : b < k + 1 => k \in (b + 1)..(k + 1 - 1)
  BY <1>1, LimitsAndCulprits
<1>5. ~NoCommand(v, k + 1)
  BY <1>3, <1>4 DEF NoCommand
<1>6. ~Target(v, k + 1)
  BY OperatorsDiffer DEF Target
<1> QED  BY <1>1, <1>2, <1>5, <1>6 DEF Culprits

LEMMA EndReads ==
    ASSUME NEW v \in Seq(Words)
    PROVE  /\ Len(v) + 1 \notin Misplaced(v)
           /\ Len(v) + 1 \in Culprits(v) <=> NoCommand(v, Len(v) + 1)
<1>1. Len(v) + 1 \in Limits(v) \ {0}
  BY LimitsAndCulprits DEF Limits
<1>2. Len(v) + 1 \notin Misplaced(v)
  BY LimitsAndCulprits
<1> QED  BY <1>1, <1>2 DEF Culprits

-----------------------------------------------------------------------------
(* Words and the commands they are written for. *)

LEMMA BeforeIsFinite ==
    ASSUME NEW n \in Nat, NEW D \in SUBSET (1..n)
    PROVE  IsFiniteSet(D) /\ Cardinality(D) \in Nat /\ Cardinality(D) <= n
<1>1. IsFiniteSet(1..n) /\ Cardinality(1..n) = n
  BY FS_Interval
<1>2. IsFiniteSet(D) /\ Cardinality(D) <= Cardinality(1..n)
  BY <1>1, FS_Subset
<1> QED  BY <1>1, <1>2, FS_CardinalityType

\* The commands are numbered from 1, and a pipe begins the next one.
LEMMA CommandAtCounts ==
    ASSUME NEW v \in Seq(Words)
    PROVE  /\ CommandAt(v, 1) = 1
           /\ \A k \in 1..(Len(v) + 1) : CommandAt(v, k) \in Nat /\ CommandAt(v, k) >= 1
           /\ \A k \in 1..Len(v) :
                CommandAt(v, k + 1) = IF v[k] = <<"|">> THEN CommandAt(v, k) + 1
                                      ELSE CommandAt(v, k)
           /\ \A k \in 1..(Len(v) + 1) : \A j \in 1..k : CommandAt(v, j) <= CommandAt(v, k)
<1> DEFINE Pipes(k) == {j \in 1..(k - 1) : v[j] = <<"|">>}
<1>1. Len(v) \in Nat
  OBVIOUS
<1>2. \A k \in 1..(Len(v) + 1) : IsFiniteSet(Pipes(k)) /\ Cardinality(Pipes(k)) \in Nat
  <2> SUFFICES ASSUME NEW k \in 1..(Len(v) + 1)
               PROVE  IsFiniteSet(Pipes(k)) /\ Cardinality(Pipes(k)) \in Nat
    OBVIOUS
  <2>1. k - 1 \in Nat /\ Pipes(k) \in SUBSET (1..(k - 1))
    BY <1>1
  <2> HIDE DEF Pipes
  <2> QED  BY <2>1, BeforeIsFinite
<1>3. \A k : CommandAt(v, k) = 1 + Cardinality(Pipes(k))
  BY DEF CommandAt
<1>4. Pipes(1) = {}
  OBVIOUS
<1>5. \A k \in 1..Len(v) : Pipes(k + 1) = IF v[k] = <<"|">> THEN Pipes(k) \cup {k} ELSE Pipes(k)
  <2> SUFFICES ASSUME NEW k \in 1..Len(v)
               PROVE  Pipes(k + 1) = IF v[k] = <<"|">> THEN Pipes(k) \cup {k} ELSE Pipes(k)
    OBVIOUS
  <2>1. \A j : j \in 1..(k + 1 - 1) <=> j \in 1..(k - 1) \/ j = k
    BY <1>1
  <2> QED  BY <2>1
<1>6. \A k \in 1..Len(v) : k \notin Pipes(k) /\ k \in 1..(Len(v) + 1)
  BY <1>1
<1>7. \A k \in 1..(Len(v) + 1) : \A j \in 1..k : Pipes(j) \subseteq Pipes(k) /\ j \in 1..(Len(v) + 1)
  BY <1>1
<1> HIDE DEF Pipes
<1>8. \A k \in 1..(Len(v) + 1) : CommandAt(v, k) \in Nat /\ CommandAt(v, k) >= 1
  BY <1>2, <1>3
<1>9. \A k \in 1..Len(v) : Cardinality(Pipes(k + 1)) = IF v[k] = <<"|">>
                             THEN Cardinality(Pipes(k)) + 1 ELSE Cardinality(Pipes(k))
  <2> SUFFICES ASSUME NEW k \in 1..Len(v)
               PROVE  Cardinality(Pipes(k + 1)) = IF v[k] = <<"|">>
                        THEN Cardinality(Pipes(k)) + 1 ELSE Cardinality(Pipes(k))
    OBVIOUS
  <2>1. IsFiniteSet(Pipes(k)) /\ k \notin Pipes(k)
    BY <1>2, <1>6
  <2>2. Cardinality(Pipes(k) \cup {k}) = Cardinality(Pipes(k)) + 1
    BY <2>1, FS_AddElement
  <2> QED  BY <1>5, <2>2
<1>10. \A k \in 1..Len(v) :
         CommandAt(v, k + 1) = IF v[k] = <<"|">> THEN CommandAt(v, k) + 1 ELSE CommandAt(v, k)
  <2> SUFFICES ASSUME NEW k \in 1..Len(v)
               PROVE  CommandAt(v, k + 1) = IF v[k] = <<"|">> THEN CommandAt(v, k) + 1
                                            ELSE CommandAt(v, k)
    OBVIOUS
  <2>1. Cardinality(Pipes(k)) \in Nat
    BY <1>2, <1>6
  <2>2. /\ CommandAt(v, k) = 1 + Cardinality(Pipes(k))
        /\ CommandAt(v, k + 1) = 1 + Cardinality(Pipes(k + 1))
    BY <1>3
  <2> QED  BY <1>9, <2>1, <2>2
<1>11. \A k \in 1..(Len(v) + 1) : \A j \in 1..k : Cardinality(Pipes(j)) <= Cardinality(Pipes(k))
  BY <1>2, <1>7, FS_Subset
<1>12. \A k \in 1..(Len(v) + 1) : \A j \in 1..k : CommandAt(v, j) <= CommandAt(v, k)
  BY <1>2, <1>3, <1>7, <1>11
<1>13. CommandAt(v, 1) = 1
  <2>1. Cardinality(Pipes(1)) = 0
    BY <1>4, FS_EmptySet
  <2>2. CommandAt(v, 1) = 1 + Cardinality(Pipes(1))
    BY <1>3
  <2> QED  BY <2>1, <2>2
<1> QED  BY <1>8, <1>10, <1>12, <1>13

LEMMA WordsAreCounted ==
    ASSUME NEW v \in Seq(Words), NEW c
    PROVE  /\ Count(v, c, 0) = 0
           /\ \A p \in 0..Len(v) : Count(v, c, p) \in Nat
           /\ \A k \in 1..Len(v) :
                Count(v, c, k) = IF Plain(v, k) /\ CommandAt(v, k) = c THEN Count(v, c, k - 1) + 1
                                 ELSE Count(v, c, k - 1)
           /\ \A p \in 0..Len(v) : \A k \in 1..p :
                Plain(v, k) /\ CommandAt(v, k) = c => Count(v, c, k) \in 1..Count(v, c, p)
<1> DEFINE W(p) == Written(v, c, p)
<1>1. Len(v) \in Nat
  OBVIOUS
<1>2. \A p \in 0..Len(v) : IsFiniteSet(W(p)) /\ Cardinality(W(p)) \in Nat
  <2> SUFFICES ASSUME NEW p \in 0..Len(v)
               PROVE  IsFiniteSet(W(p)) /\ Cardinality(W(p)) \in Nat
    OBVIOUS
  <2>1. p \in Nat /\ W(p) \in SUBSET (1..p)
    BY <1>1 DEF Written
  <2> HIDE DEF W
  <2> QED  BY <2>1, BeforeIsFinite
<1>3. W(0) = {}
  BY DEF Written
<1>4. \A k \in 1..Len(v) : W(k) = IF Plain(v, k) /\ CommandAt(v, k) = c THEN W(k - 1) \cup {k}
                                  ELSE W(k - 1)
  <2> SUFFICES ASSUME NEW k \in 1..Len(v)
               PROVE  W(k) = IF Plain(v, k) /\ CommandAt(v, k) = c THEN W(k - 1) \cup {k}
                             ELSE W(k - 1)
    OBVIOUS
  <2>1. \A j : j \in 1..k <=> j \in 1..(k - 1) \/ j = k
    BY <1>1
  <2> QED  BY <2>1 DEF Written
<1>5. \A k \in 1..Len(v) : k \notin W(k - 1) /\ k - 1 \in 0..Len(v) /\ k \in 0..Len(v)
  BY <1>1 DEF Written
<1>6. \A p \in 0..Len(v) : \A k \in 1..p :
        /\ W(k) \subseteq W(p) /\ k \in 0..Len(v)
        /\ Plain(v, k) /\ CommandAt(v, k) = c => k \in W(k)
  BY <1>1 DEF Written
<1> HIDE DEF W
<1>7. \A k \in 1..Len(v) :
        Cardinality(W(k)) = IF Plain(v, k) /\ CommandAt(v, k) = c THEN Cardinality(W(k - 1)) + 1
                            ELSE Cardinality(W(k - 1))
  BY <1>2, <1>4, <1>5, FS_AddElement
<1>8. \A p \in 0..Len(v) : \A k \in 1..p :
        Plain(v, k) /\ CommandAt(v, k) = c => Cardinality(W(k)) \in 1..Cardinality(W(p))
  <2> SUFFICES ASSUME NEW p \in 0..Len(v), NEW k \in 1..p, Plain(v, k), CommandAt(v, k) = c
               PROVE  Cardinality(W(k)) \in 1..Cardinality(W(p))
    OBVIOUS
  <2>1. Cardinality(W(k)) <= Cardinality(W(p))
    BY <1>2, <1>6, FS_Subset
  <2>2. Cardinality(W(k)) # 0
    BY <1>2, <1>6, FS_EmptySet
  <2>3. Cardinality(W(k)) \in Nat /\ Cardinality(W(p)) \in Nat
    BY <1>2, <1>6
  <2> QED  BY <2>1, <2>2, <2>3
<1>9. Cardinality(W(0)) = 0
  BY <1>3, FS_EmptySet
<1> QED  BY <1>2, <1>7, <1>8, <1>9 DEF Count, W

-----------------------------------------------------------------------------
(* The scanner. *)

Token == [value : Words, column : Nat]

\* The fields of a scanner.
LEMMA ScannerFields ==
    ASSUME NEW sc \in Scanner
    PROVE  /\ sc.tokens \in Seq(Token) /\ sc.text \in Words /\ sc.column \in Nat
           /\ sc.quote \in {NoQuote, "dq", "sq"} /\ sc.escaping \in BOOLEAN
           /\ sc.started \in BOOLEAN /\ sc.skip \in BOOLEAN
           /\ Len(sc.tokens) \in Nat /\ DOMAIN sc.tokens = 1..Len(sc.tokens)
           /\ \A k \in 1..Len(sc.tokens) : /\ sc.tokens[k] \in Token
                                           /\ sc.tokens[k].value \in Words
                                           /\ sc.tokens[k].column \in Nat
<1>1. sc.tokens \in Seq(Token)
  BY DEF Scanner, Token
<1>2. /\ sc.text \in Words /\ sc.column \in Nat
      /\ sc.quote \in {NoQuote, "dq", "sq"} /\ sc.escaping \in BOOLEAN
      /\ sc.started \in BOOLEAN /\ sc.skip \in BOOLEAN
  BY DEF Scanner
<1>3. /\ Len(sc.tokens) \in Nat /\ DOMAIN sc.tokens = 1..Len(sc.tokens)
      /\ \A k \in 1..Len(sc.tokens) : sc.tokens[k] \in Token
  BY <1>1, LenProperties, ElementOfSeq
<1> QED  BY <1>1, <1>2, <1>3 DEF Token

\* A token is added.
LEMMA AppendKeeps ==
    ASSUME NEW sc \in Scanner, NEW n \in Nat, ColumnsIn(sc, n),
           NEW value \in Words, NEW c \in 1..n,
           NEW new, new = Append(sc.tokens, [value |-> value, column |-> c])
    PROVE  /\ new \in Seq(Token) /\ Len(new) = Len(sc.tokens) + 1
           /\ \A k \in DOMAIN new : new[k].column \in 1..n
<1>1. [value |-> value, column |-> c] \in Token
  BY DEF Token
<1>2. sc.tokens \in Seq(Token) /\ Len(sc.tokens) \in Nat
  BY ScannerFields
<1>3. /\ new \in Seq(Token) /\ Len(new) = Len(sc.tokens) + 1
      /\ DOMAIN new = 1..(Len(sc.tokens) + 1)
      /\ \A k \in 1..Len(sc.tokens) : new[k] = sc.tokens[k]
      /\ new[Len(sc.tokens) + 1] = [value |-> value, column |-> c]
  BY <1>1, <1>2
<1>4. \A k \in 1..Len(sc.tokens) : sc.tokens[k].column \in 1..n
  BY ScannerFields DEF ColumnsIn
<1>5. \A k \in DOMAIN new : k \in 1..Len(sc.tokens) \/ k = Len(sc.tokens) + 1
  BY <1>2, <1>3
<1> QED  BY <1>3, <1>4, <1>5

LEMMA FlushKeeps ==
    ASSUME NEW sc \in Scanner, NEW n \in Nat, ColumnsIn(sc, n)
    PROVE  /\ Flush(sc) \in Scanner /\ ColumnsIn(Flush(sc), n)
           /\ Len(Flush(sc).tokens) = Used(sc) /\ ~Flush(sc).started
           /\ Flush(sc).quote = sc.quote
<1>1. CASE sc.started
  <2> DEFINE new == Append(sc.tokens, [value |-> sc.text, column |-> sc.column])
             fl == [sc EXCEPT !.tokens = new, !.text = <<>>, !.column = 0, !.started = FALSE]
  <2>1. sc.text \in Words /\ sc.column \in 1..n
    BY <1>1, ScannerFields DEF ColumnsIn
  <2>2. /\ new \in Seq(Token) /\ Len(new) = Len(sc.tokens) + 1
        /\ \A k \in DOMAIN new : new[k].column \in 1..n
    BY <2>1, AppendKeeps
  <2>3. Flush(sc) = fl
    BY <1>1 DEF Flush
  <2> HIDE DEF new
  <2>4. /\ fl.tokens = new /\ fl.column = 0 /\ ~fl.started /\ fl.quote = sc.quote
    BY DEF Scanner
  <2>5. fl \in Scanner
    <3>1. new \in Seq([value : Words, column : Nat]) /\ <<>> \in Words
      BY <2>2 DEF Token, Words
    <3> QED  BY <3>1 DEF Scanner
  <2>6. 0 \in 0..n
    OBVIOUS
  <2> HIDE DEF fl
  <2> QED  BY <1>1, <2>2, <2>3, <2>4, <2>5, <2>6 DEF ColumnsIn, Used
<1>2. CASE ~sc.started
  BY <1>2, ScannerFields DEF Flush, Used
<1> QED  BY <1>1, <1>2

LEMMA ExtendKeeps ==
    ASSUME NEW sc \in Scanner, NEW n \in Nat, ColumnsIn(sc, n), NEW i \in 1..n,
           NEW text \in Words
    PROVE  /\ Extend(sc, i, text) \in Scanner /\ ColumnsIn(Extend(sc, i, text), n)
           /\ Extend(sc, i, text).tokens = sc.tokens /\ Extend(sc, i, text).started
<1> DEFINE c == IF sc.column = 0 THEN i ELSE sc.column
           ex == [sc EXCEPT !.column = c, !.started = TRUE, !.text = sc.text \o text]
<1>1. Extend(sc, i, text) = ex
  BY DEF Extend
<1>2. c \in 1..n
  BY DEF ColumnsIn
<1> HIDE DEF c
<1>3. sc.text \o text \in Words
  BY ScannerFields DEF Words
<1>4. ex \in Scanner
  <2> DEFINE all == sc.text \o text
  <2>1. c \in Nat /\ all \in Words
    BY <1>2, <1>3
  <2> HIDE DEF all
  <2>2. [sc EXCEPT !.column = c, !.started = TRUE, !.text = all] \in Scanner
    BY <2>1 DEF Scanner
  <2> QED  BY <2>2 DEF all
<1>5. ex.tokens = sc.tokens /\ ex.column = c /\ ex.started = TRUE
  BY DEF Scanner
<1>6. c \in 0..n /\ c # 0
  BY <1>2
<1> HIDE DEF ex
<1> QED  BY <1>1, <1>4, <1>5, <1>6 DEF ColumnsIn

LEMMA OperatorKeeps ==
    ASSUME NEW sc \in Scanner, NEW s \in Words, NEW i \in 1..Len(s), ColumnsIn(sc, Len(s))
    PROVE  /\ Operator(sc, s, i) \in Scanner /\ ColumnsIn(Operator(sc, s, i), Len(s))
           /\ Len(Operator(sc, s, i).tokens) = Len(sc.tokens) + 1
           /\ Operator(sc, s, i).started = sc.started
<1> DEFINE double == s[i] = ">" /\ i < Len(s) /\ s[i + 1] = ">"
           value == IF double THEN <<">", ">">> ELSE <<s[i]>>
           new == Append(sc.tokens, [value |-> value, column |-> i])
           op == [sc EXCEPT !.tokens = new, !.skip = double]
<1>1. Len(s) \in Nat /\ s[i] \in Runes
  BY DEF Words
<1>2. value \in Words
  <2>1. <<s[i]>> \in Seq(Runes)
    BY <1>1
  <2>2. <<">", ">">> \in Seq(Runes)
    BY DEF Runes, Metas
  <2> HIDE DEF double
  <2> QED  BY <2>1, <2>2 DEF Words
<1>3. Operator(sc, s, i) = op
  BY DEF Operator
<1> HIDE DEF value
<1>4. /\ new \in Seq(Token) /\ Len(new) = Len(sc.tokens) + 1
      /\ \A k \in DOMAIN new : new[k].column \in 1..Len(s)
  BY <1>1, <1>2, AppendKeeps
<1>5. double \in BOOLEAN
  OBVIOUS
<1> HIDE DEF new, double
<1>6. op \in Scanner
  BY <1>4, <1>5 DEF Scanner, Token
<1>7. op.tokens = new /\ op.column = sc.column /\ op.started = sc.started
  BY DEF Scanner
<1> HIDE DEF op
<1> QED  BY <1>3, <1>4, <1>6, <1>7 DEF ColumnsIn

LEMMA UsedCounts ==
    ASSUME NEW sc \in Scanner
    PROVE  /\ Len(sc.tokens) \in Nat /\ Used(sc) \in Nat
           /\ Used(sc) = Len(sc.tokens) \/ Used(sc) = Len(sc.tokens) + 1
<1>1. Len(sc.tokens) \in Nat
  BY ScannerFields
<1>2. CASE sc.started
  BY <1>1, <1>2 DEF Used
<1>3. CASE ~sc.started
  BY <1>1, <1>3 DEF Used
<1> QED  BY <1>2, <1>3

\* A rune adds at most one token.
LEMMA AcceptKeeps ==
    ASSUME NEW sc \in Scanner, NEW s \in Words, NEW i \in 1..Len(s), ColumnsIn(sc, Len(s))
    PROVE  /\ Accept(sc, s, i) \in Scanner /\ ColumnsIn(Accept(sc, s, i), Len(s))
           /\ Used(Accept(sc, s, i)) <= Used(sc) + 1
<1> DEFINE r == s[i]
           n == Len(s)
           Good(new) == new \in Scanner /\ ColumnsIn(new, n) /\ Used(new) <= Used(sc) + 1
<1>1. n \in Nat /\ r \in Runes
  BY DEF Words
<1>2. /\ Len(sc.tokens) \in Nat
      /\ Used(sc) = Len(sc.tokens) \/ Used(sc) = Len(sc.tokens) + 1
  BY UsedCounts
<1>3. ASSUME NEW new \in Scanner, new.tokens = sc.tokens, new.column = sc.column,
             new.started = sc.started
      PROVE  Good(new)
  <2>1. Used(new) = Used(sc)
    BY <1>3 DEF Used
  <2>2. ColumnsIn(new, n)
    BY <1>3 DEF ColumnsIn
  <2> QED  BY <1>2, <2>1, <2>2
<1>4. ASSUME NEW new \in Scanner, NEW text \in Words,
             new.tokens = Extend(sc, i, text).tokens,
             new.column = Extend(sc, i, text).column,
             new.started = Extend(sc, i, text).started
      PROVE  Good(new)
  <2>1. /\ ColumnsIn(Extend(sc, i, text), n)
        /\ Extend(sc, i, text).tokens = sc.tokens /\ Extend(sc, i, text).started
    BY <1>1, ExtendKeeps
  <2>2. Used(new) = Len(sc.tokens) + 1
    BY <1>4, <2>1 DEF Used
  <2>3. ColumnsIn(new, n)
    BY <1>4, <2>1 DEF ColumnsIn
  <2> QED  BY <1>2, <2>2, <2>3
<1>5. ASSUME NEW text \in Words
      PROVE  Extend(sc, i, text) \in Scanner
  BY <1>1, ExtendKeeps
<1>6. <<>> \in Words /\ <<r>> \in Words
  BY <1>1 DEF Words
<1>7. EscapeSequence(r, sc.quote) \in Words
  <2>1. <<r>> \in Seq(Runes) /\ <<"nl">> \in Seq(Runes) /\ <<"bs", r>> \in Seq(Runes)
    BY <1>1 DEF Runes, Spaces
  <2> QED  BY <2>1 DEF EscapeSequence, Words
<1>8. Good([sc EXCEPT !.skip = FALSE]) /\ Good([sc EXCEPT !.quote = NoQuote])
  <2>1. [sc EXCEPT !.skip = FALSE] \in Scanner /\ [sc EXCEPT !.quote = NoQuote] \in Scanner
    BY DEF Scanner
  <2> QED  BY <1>3, <2>1 DEF Scanner
<1>9. Good([sc EXCEPT !.text = @ \o EscapeSequence(r, sc.quote), !.escaping = FALSE])
  <2> DEFINE text == sc.text \o EscapeSequence(r, sc.quote)
             new == [sc EXCEPT !.text = text, !.escaping = FALSE]
  <2>1. text \in Words
    BY <1>7, ScannerFields DEF Words
  <2> HIDE DEF text
  <2>2. new \in Scanner
    BY <2>1 DEF Scanner
  <2>3. new.tokens = sc.tokens /\ new.column = sc.column /\ new.started = sc.started
    BY DEF Scanner
  <2>4. Good(new)
    <3> HIDE DEF new, Good
    <3> QED  BY <1>3, <2>2, <2>3
  <2> QED  BY <2>4 DEF text
<1>10. Good([Extend(sc, i, <<>>) EXCEPT !.escaping = TRUE])
  <2> DEFINE ex == Extend(sc, i, <<>>)
             new == [ex EXCEPT !.escaping = TRUE]
  <2>1. ex \in Scanner
    BY <1>5, <1>6
  <2>2. new \in Scanner
    <3> HIDE DEF ex
    <3> QED  BY <2>1 DEF Scanner
  <2>3. new.tokens = ex.tokens /\ new.column = ex.column /\ new.started = ex.started
    <3> HIDE DEF ex
    <3> QED  BY <2>1 DEF Scanner
  <2> HIDE DEF new, Good
  <2> QED  BY <1>4, <1>6, <2>2, <2>3 DEF new
<1>11. ASSUME r \in {"dq", "sq"}
       PROVE  Good([Extend(sc, i, <<>>) EXCEPT !.quote = r])
  <2> DEFINE ex == Extend(sc, i, <<>>)
             new == [ex EXCEPT !.quote = r]
  <2>1. ex \in Scanner
    BY <1>5, <1>6
  <2>2. new \in Scanner
    <3> HIDE DEF ex
    <3> QED  BY <1>11, <2>1 DEF Scanner
  <2>3. new.tokens = ex.tokens /\ new.column = ex.column /\ new.started = ex.started
    <3> HIDE DEF ex
    <3> QED  BY <2>1 DEF Scanner
  <2> HIDE DEF new, Good
  <2> QED  BY <1>4, <1>6, <2>2, <2>3 DEF new
<1>12. Good(Extend(sc, i, <<r>>))
  <2> HIDE DEF Good
  <2> QED  BY <1>4, <1>5, <1>6
<1>13. /\ Flush(sc) \in Scanner /\ ColumnsIn(Flush(sc), n)
       /\ Len(Flush(sc).tokens) = Used(sc) /\ ~Flush(sc).started
  BY <1>1, FlushKeeps
<1>14. Good(Flush(sc))
  BY <1>2, <1>13 DEF Used
<1>15. Good(Operator(Flush(sc), s, i))
  <2>1. /\ Operator(Flush(sc), s, i) \in Scanner
        /\ ColumnsIn(Operator(Flush(sc), s, i), n)
        /\ Len(Operator(Flush(sc), s, i).tokens) = Len(Flush(sc).tokens) + 1
        /\ Operator(Flush(sc), s, i).started = Flush(sc).started
    BY <1>13, OperatorKeeps
  <2> QED  BY <1>2, <1>13, <2>1 DEF Used
<1>16. \/ Accept(sc, s, i) = [sc EXCEPT !.skip = FALSE]
       \/ Accept(sc, s, i) = [sc EXCEPT !.text = @ \o EscapeSequence(r, sc.quote),
                                        !.escaping = FALSE]
       \/ Accept(sc, s, i) = [Extend(sc, i, <<>>) EXCEPT !.escaping = TRUE]
       \/ r \in {"dq", "sq"} /\ Accept(sc, s, i) = [Extend(sc, i, <<>>) EXCEPT !.quote = r]
       \/ Accept(sc, s, i) = [sc EXCEPT !.quote = NoQuote]
       \/ Accept(sc, s, i) = Operator(Flush(sc), s, i)
       \/ Accept(sc, s, i) = Flush(sc)
       \/ Accept(sc, s, i) = Extend(sc, i, <<r>>)
  BY Zenon DEF Accept
<1>17. Good(Accept(sc, s, i))
  <2> HIDE DEF Good, r
  <2> QED  BY <1>8, <1>9, <1>10, <1>11, <1>12, <1>14, <1>15, <1>16
<1> QED  BY <1>17

LEMMA AtEndKeeps ==
    ASSUME NEW sc \in Scanner, NEW n \in Nat, ColumnsIn(sc, n)
    PROVE  /\ AtEnd(sc) \in Scanner /\ ColumnsIn(AtEnd(sc), n)
           /\ Len(AtEnd(sc).tokens) = Used(sc)
           /\ AtEnd(sc).quote = sc.quote
<1> DEFINE text == Append(sc.text, "bs")
           new == [sc EXCEPT !.text = text, !.escaping = FALSE]
<1>1. text \in Words
  BY ScannerFields DEF Words, Runes
<1>2. AtEnd(sc) = Flush(IF sc.escaping THEN new ELSE sc)
  BY DEF AtEnd
<1> HIDE DEF text
<1>3. /\ new \in Scanner /\ new.tokens = sc.tokens /\ new.column = sc.column
      /\ new.started = sc.started /\ new.quote = sc.quote
  BY <1>1 DEF Scanner
<1> HIDE DEF new
<1>4. ColumnsIn(new, n) /\ Used(new) = Used(sc)
  BY <1>3 DEF ColumnsIn, Used
<1>5. CASE sc.escaping
  BY <1>2, <1>3, <1>4, <1>5, FlushKeeps
<1>6. CASE ~sc.escaping
  BY <1>2, <1>6, FlushKeeps
<1> QED  BY <1>5, <1>6

-----------------------------------------------------------------------------
(* The invariant holds at the start and every step keeps it. *)

CommandType == [words : Seq(Words), raw : Words]
LineType == [commands : Seq(CommandType), input : Words, output : Words,
             append : BOOLEAN, background : BOOLEAN]

\* What is left of a text without the blanks around it is a text.
LEMMA TrimSpaceType ==
    ASSUME NEW s \in Words
    PROVE  TrimSpace(s) \in Words
<1> DEFINE n == Len(s)
           kept == {i \in DOMAIN s : s[i] \notin Spaces}
           least == CHOOSE i \in kept : \A k \in kept : i <= k
           greatest == CHOOSE i \in kept : \A k \in kept : i >= k
<1>1. n \in Nat /\ DOMAIN s = 1..n /\ \A i \in 1..n : s[i] \in Runes
  BY DEF Words
<1>2. CASE kept = {}
  BY <1>2 DEF TrimSpace, Words
<1>3. CASE kept # {}
  <2>1. kept \subseteq 1..n
    BY <1>1
  <2>2. least \in kept
    <3>1. kept \in SUBSET Nat
      BY <1>1
    <3> HIDE DEF kept
    <3> QED  BY <1>3, <3>1, LeastElement
  <2>3. greatest \in kept
    <3> DEFINE D == {n - i : i \in kept}
    <3> HIDE DEF kept
    <3>1. \A i \in kept : i \in 1..n /\ n - i \in Nat
      BY <1>1, <2>1
    <3>2. D \in SUBSET Nat /\ D # {}
      BY <1>3, <3>1
    <3>3. PICK d \in D : \A e \in D : d <= e
      <4> HIDE DEF D
      <4> QED  BY <3>2, LeastElement
    <3>4. PICK i \in kept : d = n - i
      OBVIOUS
    <3>5. \A k \in kept : n - i <= n - k
      BY <3>3, <3>4
    <3>6. \A k \in kept : i >= k
      <4> HIDE DEF n
      <4> QED  BY <1>1, <3>1, <3>5
    <3> QED  BY <3>6
  <2>4. TrimSpace(s) = SubSeq(s, least, greatest)
    BY <1>3 DEF TrimSpace
  <2>5. least \in 1..n /\ greatest \in 1..n
    BY <2>1, <2>2, <2>3
  <2> HIDE DEF least, greatest, kept
  <2>6. least \in Int /\ greatest \in Int /\ \A i \in least..greatest : s[i] \in Runes
    BY <1>1, <2>5
  <2> QED  BY <2>4, <2>6, SubSeqProperties DEF Words
<1> QED  BY <1>2, <1>3

LEMMA CommandIsTyped ==
    ASSUME NEW words \in Seq(Words)
    PROVE  Command(words) \in CommandType
<1> DEFINE n == Len(words)
           joined == [k \in DOMAIN words |-> IF k = 1 THEN words[k] ELSE <<"sp">> \o words[k]]
           expanded == [k \in DOMAIN words |-> ExpandToken(words[k])]
<1>1. n \in Nat /\ DOMAIN words = 1..n /\ \A k \in 1..n : words[k] \in Words
  OBVIOUS
<1>2. \A k \in 1..n : ExpandToken(words[k]) \in Words
  BY <1>1, ExpandTokenType
<1>3. \A k \in 1..n : <<"sp">> \o words[k] \in Words
  <2>1. <<"sp">> \in Seq(Runes)
    BY DEF Runes, Spaces
  <2> QED  BY <1>1, <2>1 DEF Words
<1>4. expanded \in Seq(Words)
  BY <1>1, <1>2
<1>5. joined \in Seq(Words)
  BY <1>1, <1>3
<1> HIDE DEF expanded, joined
<1>6. FlattenSeq(joined) \in Words
  BY <1>5, FlattenType DEF Words
<1>7. Command(words) = [words |-> expanded, raw |-> FlattenSeq(joined)]
  BY DEF Command, expanded, joined
<1> QED  BY <1>4, <1>6, <1>7 DEF CommandType

\* The words up to place p are in their commands, the last one included.
AllCollected(v, p, commands) ==
    /\ Len(commands) = CommandAt(v, p + 1)
    /\ \A c \in 1..Len(commands) : Len(commands[c].words) = Count(v, c, p)
    /\ \A k \in 1..p : Plain(v, k) =>
         LET c == CommandAt(v, k) IN commands[c].words[Count(v, c, k)] = ExpandToken(v[k])

\* A word is collected.
LEMMA CollectWord ==
    ASSUME NEW v \in Seq(Words), NEW k \in 1..Len(v), NEW commands \in Seq(CommandType),
           NEW cur \in Seq(Words), Collected(v, k - 1, commands, cur), Plain(v, k)
    PROVE  Collected(v, k, commands, Append(cur, v[k]))
<1> DEFINE here == CommandAt(v, k)
           new == Append(cur, v[k])
<1>1. /\ CommandAt(v, k - 1 + 1) = here /\ CommandAt(v, k + 1) = here
      /\ k \in 1..k /\ k \in 0..Len(v) /\ k - 1 \in 0..Len(v)
  <2>1. v[k] # <<"|">>
    BY OperatorsDiffer DEF Plain
  <2>2. k - 1 + 1 = k
    OBVIOUS
  <2> QED  BY <2>1, <2>2, CommandAtCounts
<1>2. /\ Count(v, here, k) = Count(v, here, k - 1) + 1
      /\ Count(v, here, k - 1) \in Nat
      /\ Len(cur) = Count(v, here, k - 1)
  BY <1>1, WordsAreCounted DEF Collected
<1>3. /\ Len(new) = Count(v, here, k) /\ new[Count(v, here, k)] = v[k]
      /\ \A i \in 1..Count(v, here, k - 1) : new[i] = cur[i]
  BY <1>2
<1>4. ASSUME NEW c \in 1..Len(commands)
      PROVE  Count(v, c, k) = Count(v, c, k - 1)
  <2>1. c # here
    BY <1>1 DEF Collected
  <2> QED  BY <2>1, WordsAreCounted
<1>5. ASSUME NEW j \in 1..k, Plain(v, j)
      PROVE  LET c == CommandAt(v, j) IN
             IF c = here THEN new[Count(v, c, j)] = v[j]
             ELSE commands[c].words[Count(v, c, j)] = ExpandToken(v[j])
  <2>1. CASE j = k
    BY <1>3, <2>1
  <2>2. CASE j # k
    <3>1. j \in 1..(k - 1)
      BY <2>2
    <3>2. CommandAt(v, j) = here => Count(v, here, j) \in 1..Count(v, here, k - 1)
      BY <1>1, <1>5, <3>1, WordsAreCounted
    <3> HIDE DEF new
    <3> QED  BY <1>1, <1>3, <1>5, <3>1, <3>2 DEF Collected
  <2> QED  BY <2>1, <2>2
<1> HIDE DEF new, here
<1>6. Len(commands) + 1 = here
  BY <1>1 DEF Collected
<1>7. \A c \in 1..Len(commands) : Len(commands[c].words) = Count(v, c, k)
  BY <1>4 DEF Collected
<1>8. Collected(v, k, commands, new)
  BY <1>1, <1>3, <1>5, <1>6, <1>7 DEF Collected
<1> QED  BY <1>8 DEF new

\* What is neither a word of a command nor a pipe changes nothing.
LEMMA CollectNothing ==
    ASSUME NEW v \in Seq(Words), NEW k \in 1..Len(v), NEW commands, NEW cur,
           Collected(v, k - 1, commands, cur), ~Plain(v, k), v[k] # <<"|">>
    PROVE  Collected(v, k, commands, cur)
<1>1. CommandAt(v, k - 1 + 1) = CommandAt(v, k + 1)
  <2>1. k - 1 + 1 = k
    OBVIOUS
  <2> QED  BY <2>1, CommandAtCounts
<1>2. \A c : Count(v, c, k) = Count(v, c, k - 1)
  BY WordsAreCounted
<1>3. \A j \in 1..k : Plain(v, j) => j \in 1..(k - 1)
  <2>1. \A j \in 1..k : j = k \/ j \in 1..(k - 1)
    OBVIOUS
  <2> QED  BY <2>1
<1> QED  BY <1>1, <1>2, <1>3 DEF Collected

\* The command that was collected becomes the last of the line.
LEMMA CollectCommand ==
    ASSUME NEW v \in Seq(Words), NEW p \in 0..Len(v), NEW commands \in Seq(CommandType),
           NEW cur \in Seq(Words), Collected(v, p, commands, cur)
    PROVE  AllCollected(v, p, Append(commands, Command(cur)))
<1> DEFINE all == Append(commands, Command(cur))
           here == CommandAt(v, p + 1)
           m == Len(commands)
<1>1. /\ Command(cur) \in CommandType
      /\ Len(Command(cur).words) = Len(cur)
      /\ \A i \in 1..Len(cur) : Command(cur).words[i] = ExpandToken(cur[i])
  <2>1. Command(cur).words = [i \in 1..Len(cur) |-> ExpandToken(cur[i])]
    BY DEF Command
  <2>2. Command(cur) \in CommandType
    BY CommandIsTyped
  <2>3. Command(cur).words \in Seq(Words)
    BY <2>2 DEF CommandType
  <2>4. DOMAIN Command(cur).words = 1..Len(cur) /\ Len(cur) \in Nat
    BY <2>1
  <2>5. Len(Command(cur).words) = Len(cur)
    <3> HIDE DEF Command
    <3> QED  BY <2>3, <2>4
  <2> QED  BY <2>1, <2>2, <2>5
<1>2. /\ Len(all) = m + 1 /\ m \in Nat
      /\ \A c \in 1..m : all[c] = commands[c]
      /\ all[m + 1] = Command(cur)
  BY <1>1
<1>3. m + 1 = here /\ Len(cur) = Count(v, here, p)
  BY DEF Collected
<1>4. \A c \in 1..(m + 1) : c = here \/ c \in 1..m
  BY <1>2, <1>3
<1>5. ASSUME NEW k \in 1..p, Plain(v, k)
      PROVE  LET c == CommandAt(v, k) IN all[c].words[Count(v, c, k)] = ExpandToken(v[k])
  <2>1. CommandAt(v, k) \in 1..here
    <3>1. p + 1 \in 1..(Len(v) + 1) /\ k \in 1..(p + 1) /\ k \in 1..(Len(v) + 1)
      OBVIOUS
    <3>2. /\ CommandAt(v, k) \in Nat /\ CommandAt(v, k) >= 1 /\ here \in Nat
          /\ CommandAt(v, k) <= here
      BY <3>1, CommandAtCounts
    <3> HIDE DEF here
    <3> QED  BY <3>2
  <2>2. CASE CommandAt(v, k) = here
    <3>1. Count(v, here, k) \in 1..Len(cur)
      BY <1>3, <1>5, <2>2, WordsAreCounted
    <3>2. cur[Count(v, here, k)] = v[k]
      BY <1>5, <2>2 DEF Collected
    <3> QED  BY <1>1, <1>2, <1>3, <2>2, <3>1, <3>2
  <2>3. CASE CommandAt(v, k) # here
    <3>1. CommandAt(v, k) \in 1..m
      BY <1>3, <1>4, <2>1, <2>3
    <3>2. commands[CommandAt(v, k)].words[Count(v, CommandAt(v, k), k)] = ExpandToken(v[k])
      BY <1>5, <2>3 DEF Collected
    <3> QED  BY <1>2, <3>1, <3>2
  <2> QED  BY <2>2, <2>3
<1>6. \A c \in 1..m : Len(commands[c].words) = Count(v, c, p)
  BY DEF Collected
<1>7. \A c \in 1..Len(all) : Len(all[c].words) = Count(v, c, p)
  BY <1>1, <1>2, <1>3, <1>4, <1>6
<1>8. Len(all) = here
  BY <1>2, <1>3
<1> HIDE DEF all
<1>9. AllCollected(v, p, all)
  BY <1>5, <1>7, <1>8 DEF AllCollected
<1> QED  BY <1>9 DEF all

LEMMA CollectPipe ==
    ASSUME NEW v \in Seq(Words), NEW k \in 1..Len(v), NEW commands \in Seq(CommandType),
           NEW cur \in Seq(Words), Collected(v, k - 1, commands, cur), v[k] = <<"|">>
    PROVE  Collected(v, k, Append(commands, Command(cur)), <<>>)
<1> DEFINE all == Append(commands, Command(cur))
           here == CommandAt(v, k)
<1>1. k - 1 \in 0..Len(v) /\ k - 1 + 1 = k /\ k \in 1..(Len(v) + 1)
  OBVIOUS
<1>2. AllCollected(v, k - 1, all)
  BY <1>1, CollectCommand
<1> HIDE DEF all
<1>3. /\ Len(all) = here
      /\ \A c \in 1..Len(all) : Len(all[c].words) = Count(v, c, k - 1)
      /\ \A j \in 1..(k - 1) : Plain(v, j) =>
           LET c == CommandAt(v, j) IN all[c].words[Count(v, c, j)] = ExpandToken(v[j])
  BY <1>1, <1>2 DEF AllCollected
<1>4. CommandAt(v, k + 1) = here + 1 /\ here \in Nat
  BY <1>1, CommandAtCounts
<1>5. ~Plain(v, k)
  BY OperatorsDiffer DEF Plain
<1>6. \A c : Count(v, c, k) = Count(v, c, k - 1)
  BY <1>5, WordsAreCounted
<1>7. \A j \in 1..k : Plain(v, j) => j \in 1..(k - 1) /\ CommandAt(v, j) # here + 1
  <2> SUFFICES ASSUME NEW j \in 1..k, Plain(v, j)
               PROVE  j \in 1..(k - 1) /\ CommandAt(v, j) # here + 1
    OBVIOUS
  <2>1. j \in 1..(k - 1) /\ k \in 1..(Len(v) + 1) /\ j \in 1..(Len(v) + 1)
    <3>1. j # k
      BY <1>5
    <3> QED  BY <3>1
  <2>2. CommandAt(v, j) <= here /\ CommandAt(v, j) \in Nat
    BY <2>1, CommandAtCounts
  <2> QED  BY <1>4, <2>1, <2>2
<1>8. Count(v, here + 1, k) = 0
  \* No word before k + 1 is in the command that begins there.
  <2>1. Written(v, here + 1, k) = {}
    BY <1>7 DEF Written
  <2> QED  BY <2>1, FS_EmptySet DEF Count
<1>9. Len(<<>>) = 0
  OBVIOUS
<1>10. Collected(v, k, all, <<>>)
  <2> HIDE DEF here
  <2> QED  BY <1>3, <1>4, <1>6, <1>7, <1>8, <1>9 DEF Collected
<1> QED  BY <1>10 DEF all

\* Nothing is collected at the start, and at the end everything is.
LEMMA CollectStart ==
    ASSUME NEW v \in Seq(Words)
    PROVE  Collected(v, 0, <<>>, <<>>)
<1>1. Len(<<>>) = 0 /\ 0 + 1 = 1
  OBVIOUS
<1>2. CommandAt(v, 1) = 1 /\ Count(v, 1, 0) = 0
  BY CommandAtCounts, WordsAreCounted
<1> QED  BY <1>1, <1>2 DEF Collected

-----------------------------------------------------------------------------
(* Redirects. *)

LEMMA RedirectsDiffer ==
    /\ <<"<">> # <<">">> /\ <<"<">> # <<">", ">">> /\ <<">">> # <<">", ">">>
    /\ \A w \in Redirects : w # <<"&">> /\ w # <<"|">>
    /\ \A w \in Redirects : w = <<"<">> \/ w = <<">">> \/ w = <<">", ">">>
    /\ <<"<">> \in Redirects /\ <<">">> \in Redirects /\ <<">", ">">> \in Redirects
<1>1. /\ <<"<">>[1] = "<" /\ <<">">>[1] = ">" /\ <<">", ">">>[1] = ">"
      /\ Len(<<">">>) = 1 /\ Len(<<">", ">">>) = 2
  OBVIOUS
<1> QED  BY <1>1, OperatorsDiffer DEF Redirects

\* A token that is none of the redirects changes no target, one that is sets it.
LEMMA TargetStep ==
    ASSUME NEW v, NEW k \in Nat \ {0}, NEW ops
    PROVE  /\ \A t : IsTarget(t, v, ops, k - 1) /\ v[k] \notin ops => IsTarget(t, v, ops, k)
           /\ v[k] \in ops => IsTarget(ExpandToken(v[k + 1]), v, ops, k)
<1>1. \A j : j \in 1..k <=> j \in 1..(k - 1) \/ j = k
  OBVIOUS
<1>2. ASSUME NEW t, IsTarget(t, v, ops, k - 1), v[k] \notin ops
      PROVE  IsTarget(t, v, ops, k)
  <2>1. CASE \A i \in 1..(k - 1) : v[i] \notin ops
    BY <1>1, <1>2, <2>1 DEF IsTarget
  <2>2. CASE ~\A i \in 1..(k - 1) : v[i] \notin ops
    <3>1. PICK i \in 1..(k - 1) : /\ v[i] \in ops /\ \A j \in (i + 1)..(k - 1) : v[j] \notin ops
                                  /\ t = ExpandToken(v[i + 1])
      BY <1>2, <2>2 DEF IsTarget
    <3>2. \A j \in (i + 1)..k : j \in (i + 1)..(k - 1) \/ j = k
      OBVIOUS
    <3>3. i \in 1..k /\ v[i] \in ops /\ \A j \in (i + 1)..k : v[j] \notin ops
      BY <1>1, <1>2, <3>1, <3>2
    <3> QED  BY <3>1, <3>3 DEF IsTarget
  <2> QED  BY <2>1, <2>2
<1>3. ASSUME v[k] \in ops
      PROVE  IsTarget(ExpandToken(v[k + 1]), v, ops, k)
  <2>1. k \in 1..k /\ (k + 1)..k = {}
    OBVIOUS
  <2> QED  BY <1>3, <2>1 DEF IsTarget
<1> QED  BY <1>2, <1>3

LEMMA RedirectNothing ==
    ASSUME NEW v, NEW k \in Nat \ {0}, NEW ln, NEW new, Redirected(v, k - 1, ln),
           v[k] \notin Redirects, v[k] # <<"&">>,
           new.input = ln.input, new.output = ln.output, new.append = ln.append,
           new.background = ln.background
    PROVE  Redirected(v, k, new)
<1>1. \A j : j \in 1..k <=> j \in 1..(k - 1) \/ j = k
  OBVIOUS
<1>2. v[k] \notin {<<"<">>} /\ v[k] \notin {<<">">>, <<">", ">">>}
  BY RedirectsDiffer
<1>3. /\ IsTarget(new.input, v, {<<"<">>}, k)
      /\ IsTarget(new.output, v, {<<">">>, <<">", ">">>}, k)
  BY <1>2, TargetStep DEF Redirected
<1>4. new.append <=> \E i \in 1..k : v[i] = <<">", ">">> /\ \A j \in 1..k : v[j] = <<">">> => j < i
  BY <1>1, <1>2 DEF Redirected
<1>5. new.background <=> \E i \in 1..k : v[i] = <<"&">>
  BY <1>1 DEF Redirected
<1> QED  BY <1>3, <1>4, <1>5 DEF Redirected

LEMMA RedirectInput ==
    ASSUME NEW v, NEW k \in Nat \ {0}, NEW ln, NEW new, Redirected(v, k - 1, ln),
           v[k] = <<"<">>, new.input = ExpandToken(v[k + 1]), new.output = ln.output,
           new.append = ln.append, new.background = ln.background
    PROVE  Redirected(v, k, new)
<1>1. \A j : j \in 1..k <=> j \in 1..(k - 1) \/ j = k
  OBVIOUS
<1>2. /\ v[k] \in {<<"<">>} /\ v[k] \notin {<<">">>, <<">", ">">>} /\ v[k] # <<"&">>
      /\ v[k] # <<">">> /\ v[k] # <<">", ">">>
  BY RedirectsDiffer
<1>3. /\ IsTarget(new.input, v, {<<"<">>}, k)
      /\ IsTarget(new.output, v, {<<">">>, <<">", ">">>}, k)
  BY <1>2, TargetStep DEF Redirected
<1>4. new.append <=> \E i \in 1..k : v[i] = <<">", ">">> /\ \A j \in 1..k : v[j] = <<">">> => j < i
  BY <1>1, <1>2 DEF Redirected
<1>5. new.background <=> \E i \in 1..k : v[i] = <<"&">>
  BY <1>1, <1>2 DEF Redirected
<1> QED  BY <1>3, <1>4, <1>5 DEF Redirected

LEMMA RedirectOutput ==
    ASSUME NEW v, NEW k \in Nat \ {0}, NEW ln, NEW new, Redirected(v, k - 1, ln),
           v[k] \in {<<">">>, <<">", ">">>}, new.output = ExpandToken(v[k + 1]),
           new.append <=> v[k] = <<">", ">">>,
           new.input = ln.input, new.background = ln.background
    PROVE  Redirected(v, k, new)
<1>1. \A j : j \in 1..k <=> j \in 1..(k - 1) \/ j = k
  OBVIOUS
<1>2. v[k] \notin {<<"<">>} /\ v[k] # <<"&">> /\ <<">">> # <<">", ">">>
  BY RedirectsDiffer
<1>3. /\ IsTarget(new.input, v, {<<"<">>}, k)
      /\ IsTarget(new.output, v, {<<">">>, <<">", ">">>}, k)
  BY <1>2, TargetStep DEF Redirected
<1>4. new.append <=> \E i \in 1..k : v[i] = <<">", ">">> /\ \A j \in 1..k : v[j] = <<">">> => j < i
  <2>1. CASE v[k] = <<">", ">">>
    <3>1. k \in 1..k /\ \A j \in 1..(k - 1) : j < k
      OBVIOUS
    <3>2. \A j \in 1..k : v[j] = <<">">> => j < k
      BY <1>1, <1>2, <2>1, <3>1
    <3> QED  BY <2>1, <3>1, <3>2
  <2>2. CASE v[k] = <<">">>
    <3>1. k \in 1..k /\ \A i \in 1..k : ~(k < i)
      OBVIOUS
    <3> QED  BY <1>2, <2>2, <3>1
  <2> QED  BY <2>1, <2>2
<1>5. new.background <=> \E i \in 1..k : v[i] = <<"&">>
  BY <1>1, <1>2 DEF Redirected
<1> QED  BY <1>3, <1>4, <1>5 DEF Redirected

LEMMA RedirectBackground ==
    ASSUME NEW v, NEW k \in Nat \ {0}, NEW ln, NEW new, Redirected(v, k - 1, ln),
           v[k] = <<"&">>, new.background = TRUE,
           new.input = ln.input, new.output = ln.output, new.append = ln.append
    PROVE  Redirected(v, k, new)
<1>1. \A j : j \in 1..k <=> j \in 1..(k - 1) \/ j = k
  OBVIOUS
<1>2. /\ v[k] \notin {<<"<">>} /\ v[k] \notin {<<">">>, <<">", ">">>}
      /\ v[k] # <<">">> /\ v[k] # <<">", ">">>
  BY RedirectsDiffer
<1>3. /\ IsTarget(new.input, v, {<<"<">>}, k)
      /\ IsTarget(new.output, v, {<<">">>, <<">", ">">>}, k)
  BY <1>2, TargetStep DEF Redirected
<1>4. new.append <=> \E i \in 1..k : v[i] = <<">", ">">> /\ \A j \in 1..k : v[j] = <<">">> => j < i
  BY <1>1, <1>2 DEF Redirected
<1>5. new.background <=> \E i \in 1..k : v[i] = <<"&">>
  BY <1>1 DEF Redirected
<1> QED  BY <1>3, <1>4, <1>5 DEF Redirected

LEMMA RedirectStart ==
    ASSUME NEW v
    PROVE  Redirected(v, 0, EmptyLine)
<1>1. \A i \in 1..0 : FALSE
  OBVIOUS
<1>2. /\ EmptyLine.input = <<>> /\ EmptyLine.output = <<>>
      /\ EmptyLine.append = FALSE /\ EmptyLine.background = FALSE
  BY DEF EmptyLine
<1> QED  BY <1>1, <1>2 DEF Redirected, IsTarget

-----------------------------------------------------------------------------
(* The initial states and the steps. *)

LEMMA ValuesAreWords ==
    ASSUME NEW sc \in Scanner,
           NEW v, v = [k \in DOMAIN sc.tokens |-> sc.tokens[k].value]
    PROVE  /\ v \in Seq(Words) /\ Len(v) = Len(sc.tokens) /\ Len(sc.tokens) \in Nat
           /\ \A k \in 1..Len(sc.tokens) : v[k] = sc.tokens[k].value
<1>1. /\ Len(sc.tokens) \in Nat /\ DOMAIN sc.tokens = 1..Len(sc.tokens)
      /\ \A k \in 1..Len(sc.tokens) : sc.tokens[k].value \in Words
  BY ScannerFields
<1> QED  BY <1>1

LEMMA InitInv == Init => IInv
<1> SUFFICES ASSUME Init
             PROVE  IInv
  OBVIOUS
<1>1. raw \in Words /\ Len(raw) \in Nat
  <2>1. PICK s \in Inputs : raw = TrimSpace(s)
    BY DEF Init
  <2>2. raw \in Words
    BY <2>1, TrimSpaceType, TextAssumption
  <2> QED  BY <2>2 DEF Words
<1>2. <<>> \in Words
  BY DEF Words
<1>3. StartScan \in Scanner
  <2>1. <<>> \in Seq([value : Words, column : Nat])
    OBVIOUS
  <2> QED  BY <1>2, <2>1 DEF StartScan, Scanner
<1>4. EmptyLine \in LineType
  <2>1. <<>> \in Seq(CommandType)
    OBVIOUS
  <2> QED  BY <1>2, <2>1 DEF EmptyLine, LineType
<1>5. TypeOK
  BY <1>1, <1>3, <1>4 DEF Init, TypeOK, LineType, CommandType
<1>6. Len(scan.tokens) = 0 /\ DOMAIN scan.tokens = {} /\ ~scan.started /\ scan.column = 0
  BY DEF Init, StartScan
<1>7. ScanInv
  BY <1>6 DEF Init, ScanInv, Used
<1>8. ColumnsInv
  BY <1>1, <1>6 DEF ColumnsInv, ColumnsIn
<1>9. ParseInv
  BY DEF Init, ParseInv
<1>10. ErrorsAreTheFirst /\ LineAgrees /\ CollectInv
  BY DEF Init, ErrorsAreTheFirst, LineAgrees, CollectInv
<1> QED  BY <1>5, <1>7, <1>8, <1>9, <1>10 DEF IInv

LEMMA ScanRuneStep ==
    ASSUME IInv, ScanRune
    PROVE  IInv'
<1>1. /\ phase = "scan" /\ next \in 1..Len(raw) /\ next' = next + 1
      /\ scan' = Accept(scan, raw, next)
      /\ UNCHANGED <<raw, phase, line, current, column>>
      /\ scan \in Scanner /\ raw \in Words /\ Len(raw) \in Nat
      /\ ColumnsIn(scan, Len(raw)) /\ Used(scan) < next
  BY DEF ScanRune, IInv, TypeOK, ScanInv, ColumnsInv, Words
<1>2. scan' \in Scanner /\ ColumnsIn(scan', Len(raw)) /\ Used(scan') <= Used(scan) + 1
  BY <1>1, AcceptKeeps
<1>3. Used(scan) \in Nat /\ Used(scan') \in Nat
  BY <1>1, <1>2, UsedCounts
<1>4. TypeOK'
  BY <1>1, <1>2 DEF IInv, TypeOK
<1>5. ScanInv'
  BY <1>1, <1>2, <1>3 DEF IInv, ScanInv
<1>6. ColumnsInv'
  BY <1>1, <1>2 DEF ColumnsInv
<1>7. ParseInv' /\ CollectInv' /\ ErrorsAreTheFirst' /\ LineAgrees'
  BY <1>1 DEF ParseInv, CollectInv, ErrorsAreTheFirst, LineAgrees
<1> QED  BY <1>4, <1>5, <1>6, <1>7 DEF IInv

\* An error at a place of the line gives the line up; if it is about a token, it is
\* the first one out of place.
LEMMA FailStep ==
    ASSUME IInv, phase \in {"scan", "parse"}, NEW c \in 0..Len(raw), Fail(c),
           UNCHANGED <<scan, line>>, raw # <<>>,
           scan.quote = NoQuote => /\ phase = "parse" /\ next \in Culprits(Values)
                                   /\ c = IF next \in Misplaced(Values)
                                            THEN scan.tokens[next].column ELSE 1
    PROVE  IInv'
<1>1. /\ phase' = "error" /\ column' = (IF c = 0 THEN 1 ELSE c)
      /\ UNCHANGED <<raw, next, current, scan, line>>
      /\ raw \in Words /\ Len(raw) \in Nat \ {0}
  BY DEF Fail, IInv, TypeOK, Words
<1>2. TypeOK'
  BY <1>1 DEF IInv, TypeOK
<1>3. ScanInv' /\ ParseInv' /\ ColumnsInv' /\ CollectInv' /\ LineAgrees'
  BY <1>1 DEF IInv, ScanInv, ParseInv, ColumnsInv, ColumnsIn, CollectInv, LineAgrees
<1>4. ErrorsAreTheFirst'
  <2>1. Values' = Values
    BY <1>1 DEF Values
  <2>2. ASSUME scan.quote = NoQuote
        PROVE  /\ next \in Culprits(Values)
               /\ \A j \in Culprits(Values) : next <= j
               /\ column' = IF next \in Misplaced(Values) THEN scan.tokens[next].column ELSE 1
    <3>1. phase = "parse" /\ next \in Culprits(Values)
          /\ \A j \in Culprits(Values) : next <= j
      BY <2>2 DEF IInv, ParseInv
    <3>2. next \in Misplaced(Values) => scan.tokens[next].column # 0
      <4> SUFFICES ASSUME next \in Misplaced(Values)
                   PROVE  scan.tokens[next].column # 0
        OBVIOUS
      <4>1. next \in DOMAIN scan.tokens
        BY DEF Misplaced, Values
      <4> QED  BY <1>1, <4>1 DEF IInv, ColumnsInv, ColumnsIn
    <3> QED  BY <1>1, <2>2, <3>1, <3>2
  <2> QED  BY <1>1, <2>1, <2>2 DEF ErrorsAreTheFirst, Values
<1> QED  BY <1>2, <1>3, <1>4 DEF IInv

LEMMA UnclosedQuoteStep ==
    ASSUME IInv, UnclosedQuote
    PROVE  IInv'
<1>1. /\ phase = "scan" /\ scan.quote # NoQuote /\ Fail(scan.column)
      /\ UNCHANGED <<scan, line>>
  BY DEF UnclosedQuote
<1>2. scan.column \in 0..Len(raw) /\ raw # <<>>
  BY <1>1 DEF IInv, ScanInv, ColumnsInv, ColumnsIn
<1> QED  BY <1>1, <1>2, FailStep

LEMMA EndScanStep ==
    ASSUME IInv, EndScan
    PROVE  IInv'
<1>1. /\ phase = "scan" /\ next > Len(raw) /\ scan.quote = NoQuote
      /\ scan' = AtEnd(scan) /\ phase' = "parse" /\ next' = 1
      /\ UNCHANGED <<raw, line, current, column>>
      /\ scan \in Scanner /\ raw \in Words /\ Len(raw) \in Nat /\ raw # <<>>
      /\ ColumnsIn(scan, Len(raw)) /\ Used(scan) < next /\ next <= Len(raw) + 1
      /\ next \in Nat /\ current = <<>>
  BY DEF EndScan, IInv, TypeOK, ScanInv, ColumnsInv, Words
<1>2. /\ scan' \in Scanner /\ ColumnsIn(scan', Len(raw)) /\ scan'.quote = NoQuote
      /\ Len(scan'.tokens) = Used(scan)
  BY <1>1, AtEndKeeps
<1>3. Len(scan'.tokens) \in Nat
  BY <1>2, ScannerFields
<1>4. TypeOK'
  BY <1>1, <1>2 DEF IInv, TypeOK
<1>5. ScanInv' /\ ErrorsAreTheFirst' /\ LineAgrees'
  BY <1>1 DEF ScanInv, ErrorsAreTheFirst, LineAgrees
<1>6. ColumnsInv'
  BY <1>1, <1>2 DEF ColumnsInv
<1>7. ParseInv'
  <2> DEFINE v == Values'
  <2>1. v \in Seq(Words) /\ Len(v) = Len(scan'.tokens)
    BY <1>2, ValuesAreWords DEF Values
  <2> HIDE DEF v
  <2>2. \A j \in Culprits(v) : 1 <= j
    BY <2>1, LimitsAndCulprits
  <2>3. ~Target(v, 1)
    BY DEF Target
  <2>4. NoCommand(v, 1)
    BY <2>1, LimitsAndCulprits DEF NoCommand, Limits
  <2> QED  BY <1>1, <1>2, <1>3, <2>2, <2>3, <2>4 DEF ParseInv, v
<1>8. CollectInv'
  <2>1. line' = EmptyLine /\ EmptyLine.commands = <<>> /\ current' = <<>> /\ next' - 1 = 0
    BY <1>1 DEF IInv, ScanInv, EmptyLine
  <2>2. Values' \in Seq(Words)
    BY <1>2, ValuesAreWords DEF Values
  <2>3. Collected(Values', 0, <<>>, <<>>) /\ Redirected(Values', 0, EmptyLine)
    BY <2>2, CollectStart, RedirectStart
  <2> QED  BY <2>1, <2>3 DEF CollectInv
<1> QED  BY <1>4, <1>5, <1>6, <1>7, <1>8 DEF IInv

\* A step to a later token, past what is in place.
LEMMA AdvanceStep ==
    ASSUME IInv, phase = "parse", NEW k \in 1..(Len(scan.tokens) + 1), next' = k,
           UNCHANGED <<raw, phase, scan, column>>,
           line' \in LineType, current' \in Seq(Words),
           \A j \in Culprits(Values) : k <= j,
           ~Target(Values, k),
           current' = <<>> <=> NoCommand(Values, k),
           Collected(Values, k - 1, line'.commands, current'),
           Redirected(Values, k - 1, line')
    PROVE  IInv'
<1>1. /\ scan \in Scanner /\ raw # <<>> /\ scan.quote = NoQuote
      /\ Len(scan.tokens) <= Len(raw) /\ Len(raw) \in Nat
  BY DEF IInv, TypeOK, ParseInv, Words
<1>2. Len(scan.tokens) \in Nat
  BY <1>1, ScannerFields
<1>3. k \in 1..(Len(raw) + 1) /\ k <= Len(scan.tokens) + 1
  BY <1>1, <1>2
<1>4. TypeOK'
  BY <1>3 DEF IInv, TypeOK, LineType, CommandType
<1>5. ScanInv' /\ ColumnsInv' /\ ErrorsAreTheFirst' /\ LineAgrees'
  BY DEF IInv, ScanInv, ColumnsInv, ColumnsIn, ErrorsAreTheFirst, LineAgrees
<1>6. Values' = Values
  BY DEF Values
<1>7. ParseInv'
  BY <1>1, <1>3, <1>6 DEF ParseInv
<1>8. CollectInv'
  BY <1>6 DEF CollectInv
<1> QED  BY <1>4, <1>5, <1>7, <1>8 DEF IInv

\* What is known when a token is read, with the values as a sequence v.
LEMMA Reading ==
    ASSUME IInv, phase = "parse"
    PROVE  /\ Values \in Seq(Words) /\ Len(Values) = Len(scan.tokens)
           /\ Len(scan.tokens) \in Nat /\ next \in 1..(Len(scan.tokens) + 1)
           /\ \A k \in 1..Len(scan.tokens) : Values[k] = Value(k)
           /\ raw # <<>> /\ 1 \in 0..Len(raw) /\ scan.quote = NoQuote
           /\ \A k \in 1..Len(scan.tokens) : scan.tokens[k].column \in 0..Len(raw)
           /\ \A j \in Culprits(Values) : j \in Nat /\ next <= j
           /\ line \in LineType /\ line.commands \in Seq(CommandType)
           /\ current \in Seq(Words)
           /\ Collected(Values, next - 1, line.commands, current)
           /\ Redirected(Values, next - 1, line)
<1>1. /\ scan \in Scanner /\ raw \in Words /\ raw # <<>> /\ scan.quote = NoQuote
      /\ next \in Nat \ {0} /\ next <= Len(scan.tokens) + 1
      /\ \A j \in Culprits(Values) : next <= j
      /\ current \in Seq(Words)
  BY DEF IInv, TypeOK, ParseInv
<1>2. /\ Values \in Seq(Words) /\ Len(Values) = Len(scan.tokens) /\ Len(scan.tokens) \in Nat
      /\ \A k \in 1..Len(scan.tokens) : Values[k] = Value(k)
  BY <1>1, ValuesAreWords DEF Values, Value
<1>3. Len(raw) \in Nat \ {0}
  BY <1>1 DEF Words
<1>4. \A k \in 1..Len(scan.tokens) : scan.tokens[k].column \in 0..Len(raw)
  BY <1>1, ScannerFields DEF IInv, ColumnsInv, ColumnsIn
<1>5. \A j \in Culprits(Values) : j \in Nat
  BY <1>2, LimitsAndCulprits
<1>6. line \in LineType /\ line.commands \in Seq(CommandType)
  BY DEF IInv, TypeOK, LineType, CommandType
<1>7. /\ Collected(Values, next - 1, line.commands, current)
      /\ Redirected(Values, next - 1, line)
  BY DEF IInv, CollectInv
<1> QED  BY <1>1, <1>2, <1>3, <1>4, <1>5, <1>6, <1>7

\* A command is added to the line.
LEMMA FlushCommandTypes ==
    ASSUME line \in LineType, current \in Seq(Words), FlushCommand
    PROVE  /\ line' \in LineType
           /\ line'.commands = Append(line.commands, Command(current))
           /\ line'.input = line.input /\ line'.output = line.output
           /\ line'.append = line.append /\ line'.background = line.background
<1> DEFINE all == Append(line.commands, Command(current))
<1>1. Command(current) \in CommandType
  BY CommandIsTyped
<1>2. line.commands \in Seq(CommandType)
  BY DEF LineType
<1>3. all \in Seq(CommandType)
  BY <1>1, <1>2
<1>4. line' = [line EXCEPT !.commands = all]
  BY DEF FlushCommand
<1> HIDE DEF all
<1>5. /\ line' \in LineType /\ line'.commands = all
      /\ line'.input = line.input /\ line'.output = line.output
      /\ line'.append = line.append /\ line'.background = line.background
  BY <1>3, <1>4 DEF LineType
<1> QED  BY <1>5 DEF all

LEMMA PipeStep ==
    ASSUME IInv, Pipe
    PROVE  IInv'
<1> DEFINE v == Values
<1>1. phase = "parse" /\ next <= Len(scan.tokens) /\ Value(next) = <<"|">>
      /\ UNCHANGED scan
  BY DEF Pipe, ReadToken
<1>2. next \in 1..Len(v) /\ v[next] = <<"|">> /\ v \in Seq(Words)
  BY <1>1, Reading
<1>3. /\ next \notin Misplaced(v) /\ (next \in Culprits(v) <=> NoCommand(v, next))
      /\ NoCommand(v, next + 1) /\ ~Target(v, next + 1)
  BY <1>2, PipeReads
<1>4. current = <<>> <=> NoCommand(v, next)
  BY <1>1 DEF IInv, ParseInv
<1>5. CASE current = <<>>
  <2>1. Fail(1) /\ UNCHANGED line
    BY <1>5 DEF Pipe
  <2> QED  BY <1>1, <1>3, <1>4, <1>5, <2>1, Reading, FailStep
<1>6. CASE current # <<>>
  <2>1. FlushCommand /\ current' = <<>> /\ next' = next + 1 /\ UNCHANGED <<raw, phase, column>>
    BY <1>6 DEF Pipe
  <2>2. /\ line' \in LineType
        /\ line'.commands = Append(line.commands, Command(current))
        /\ line'.input = line.input /\ line'.output = line.output
        /\ line'.append = line.append /\ line'.background = line.background
    BY <1>1, <2>1, Reading, FlushCommandTypes
  <2>3. next + 1 \in 1..(Len(scan.tokens) + 1) /\ next + 1 - 1 = next /\ next \in Nat \ {0}
    BY <1>1, Reading
  <2>4. \A j \in Culprits(v) : next + 1 <= j
    BY <1>1, <1>3, <1>4, <1>6, Reading
  <2>5. current' \in Seq(Words)
    BY <2>1
  <2>6. Collected(v, next, line'.commands, current')
    <3>1. /\ line.commands \in Seq(CommandType) /\ current \in Seq(Words)
          /\ Collected(v, next - 1, line.commands, current)
      BY <1>1, Reading
    <3>2. Collected(v, next, Append(line.commands, Command(current)), <<>>)
      BY <1>2, <3>1, CollectPipe
    <3> QED  BY <2>1, <2>2, <3>2
  <2>7. Redirected(v, next, line')
    <3>1. Redirected(v, next - 1, line)
      BY <1>1, Reading
    <3> QED  BY <1>2, <2>2, <2>3, <3>1, OperatorsDiffer, RedirectNothing
  <2> QED  BY <1>1, <1>3, <2>1, <2>2, <2>3, <2>4, <2>5, <2>6, <2>7, AdvanceStep
<1> QED  BY <1>5, <1>6

LEMMA RedirectStep ==
    ASSUME IInv, Redirect
    PROVE  IInv'
<1> DEFINE v == Values
           bad == next = Len(scan.tokens) \/ Value(next + 1) \in Operators
<1>1. phase = "parse" /\ next <= Len(scan.tokens) /\ Value(next) \in Redirects
      /\ UNCHANGED scan
  BY DEF Redirect, ReadToken
<1>2. /\ next \in 1..Len(v) /\ v[next] \in Redirects /\ v \in Seq(Words)
      /\ bad <=> (next = Len(v) \/ v[next + 1] \in Operators)
  BY <1>1, Reading
<1>3. CASE bad
  <2>1. Fail(scan.tokens[next].column) /\ UNCHANGED line
    BY <1>3 DEF Redirect
  <2>2. next \in Misplaced(v) /\ next \in Culprits(v)
    BY <1>2, <1>3, RedirectReads
  <2>3. scan.tokens[next].column \in 0..Len(raw)
    BY <1>1, Reading
  <2> QED  BY <1>1, <2>1, <2>2, <2>3, Reading, FailStep
<1>4. CASE ~bad
  <2> DEFINE target == ExpandToken(Value(next + 1))
  <2>1. /\ line' = IF Value(next) = <<"<">> THEN [line EXCEPT !.input = target]
                   ELSE [line EXCEPT !.output = target, !.append = Value(next) = <<">", ">">>]
        /\ next' = next + 2 /\ UNCHANGED <<raw, phase, current, column>>
    BY <1>4 DEF Redirect
  <2>2. /\ next + 1 \in 1..Len(v) /\ next \notin Culprits(v) /\ next + 1 \notin Culprits(v)
        /\ NoCommand(v, next + 2) <=> NoCommand(v, next)
        /\ ~Target(v, next + 2)
    BY <1>2, <1>4, RedirectReads
  <2>3. line' \in LineType
    <3>1. target \in Words
      BY <1>1, <2>2, Reading, ElementOfSeq, ExpandTokenType
    <3> HIDE DEF target
    <3>2. line \in LineType
      BY <1>1, Reading
    <3> DEFINE appends == Value(next) = <<">", ">">>
    <3>3. appends \in BOOLEAN /\ line' = IF Value(next) = <<"<">> THEN [line EXCEPT !.input = target]
                   ELSE [line EXCEPT !.output = target, !.append = appends]
      BY <2>1
    <3> HIDE DEF appends
    <3> QED  BY <3>1, <3>2, <3>3 DEF LineType
  <2>4. next + 2 \in 1..(Len(scan.tokens) + 1)
    BY <1>1, <2>2, Reading
  <2>5. \A j \in Culprits(v) : next + 2 <= j
    BY <1>1, <2>2, Reading
  <2>6. current' = <<>> <=> NoCommand(v, next + 2)
    BY <1>1, <2>1, <2>2 DEF IInv, ParseInv
  <2>7. current' \in Seq(Words)
    BY <1>1, <2>1, Reading
  <2>8. /\ next \in Nat \ {0} /\ next + 1 \in Nat \ {0} /\ next + 1 - 1 = next
        /\ next + 2 - 1 = next + 1 /\ v[next + 1] = Value(next + 1)
    BY <1>1, <2>2, Reading
  <2>9. /\ v[next + 1] \notin Operators /\ v[next + 1] \notin Redirects
        /\ v[next + 1] # <<"&">> /\ v[next + 1] # <<"|">>
    BY <1>4, <2>8, OperatorsDiffer
  <2>10. line'.commands = line.commands /\ line'.background = line.background
    BY <1>1, <2>1, Reading DEF LineType
  <2>11. Collected(v, next + 1, line'.commands, current')
    <3>1. Collected(v, next - 1, line.commands, current)
      BY <1>1, Reading
    <3>2. ~Plain(v, next) /\ v[next] # <<"|">> /\ ~Plain(v, next + 1)
      BY <1>2, <2>8, OperatorsDiffer DEF Plain, Target
    <3>3. Collected(v, next, line.commands, current)
      BY <1>2, <3>1, <3>2, CollectNothing
    <3>4. Collected(v, next + 1 - 1, line.commands, current)
      BY <2>8, <3>3
    <3>5. Collected(v, next + 1, line.commands, current)
      BY <1>2, <2>2, <2>9, <3>2, <3>4, CollectNothing
    <3> QED  BY <2>1, <2>10, <3>5
  <2>12. Redirected(v, next, line')
    <3>1. Redirected(v, next - 1, line) /\ v[next] = Value(next) /\ line \in LineType
      BY <1>1, Reading
    <3>2. CASE v[next] = <<"<">>
      <4>1. line' = [line EXCEPT !.input = ExpandToken(v[next + 1])]
        BY <2>1, <2>8, <3>1, <3>2
      <4>2. /\ line'.input = ExpandToken(v[next + 1]) /\ line'.output = line.output
            /\ line'.append = line.append
        BY <3>1, <4>1 DEF LineType
      <4> QED  BY <2>8, <2>10, <3>1, <3>2, <4>2, RedirectInput
    <3>3. CASE v[next] # <<"<">>
      <4>1. line' = [line EXCEPT !.output = ExpandToken(v[next + 1]),
                                 !.append = v[next] = <<">", ">">>]
        BY <2>1, <2>8, <3>1, <3>3
      <4>2. /\ line'.output = ExpandToken(v[next + 1]) /\ line'.input = line.input
            /\ line'.append <=> v[next] = <<">", ">">>
        BY <3>1, <4>1 DEF LineType
      <4>3. v[next] \in {<<">">>, <<">", ">">>}
        BY <1>2, <3>3, RedirectsDiffer
      <4> QED  BY <2>8, <2>10, <3>1, <4>2, <4>3, RedirectOutput
    <3> QED  BY <3>2, <3>3
  <2>13. Redirected(v, next + 1, line')
    <3>1. Redirected(v, next + 1 - 1, line')
      BY <2>8, <2>12
    <3> QED  BY <2>8, <2>9, <3>1, RedirectNothing
  <2> QED  BY <1>1, <2>1, <2>2, <2>3, <2>4, <2>5, <2>6, <2>7, <2>8, <2>11, <2>13, AdvanceStep
<1> QED  BY <1>3, <1>4

LEMMA AmpersandStep ==
    ASSUME IInv, Ampersand
    PROVE  IInv'
<1> DEFINE v == Values
<1>1. phase = "parse" /\ next <= Len(scan.tokens) /\ Value(next) = <<"&">>
      /\ UNCHANGED scan
  BY DEF Ampersand, ReadToken
<1>2. next \in 1..Len(v) /\ v[next] = <<"&">> /\ v \in Seq(Words) /\ Len(v) = Len(scan.tokens)
  BY <1>1, Reading
<1>3. /\ next # Len(v) => next \in Misplaced(v) /\ next \in Culprits(v)
      /\ next = Len(v) => next \notin Culprits(v)
      /\ NoCommand(v, next + 1) <=> NoCommand(v, next)
      /\ ~Target(v, next + 1)
  BY <1>2, AmpersandReads
<1>4. CASE next # Len(scan.tokens)
  <2>1. Fail(scan.tokens[next].column) /\ UNCHANGED line
    BY <1>4 DEF Ampersand
  <2>2. scan.tokens[next].column \in 0..Len(raw)
    BY <1>1, Reading
  <2> QED  BY <1>1, <1>2, <1>3, <1>4, <2>1, <2>2, Reading, FailStep
<1>5. CASE next = Len(scan.tokens)
  <2>1. /\ line' = [line EXCEPT !.background = TRUE] /\ next' = next + 1
        /\ UNCHANGED <<raw, phase, current, column>>
    BY <1>5 DEF Ampersand
  <2>2. line' \in LineType
    BY <1>1, <2>1, Reading DEF LineType
  <2>3. next + 1 \in 1..(Len(scan.tokens) + 1)
    BY <1>1, Reading
  <2>4. \A j \in Culprits(v) : next + 1 <= j
    BY <1>1, <1>2, <1>3, <1>5, Reading
  <2>5. current' = <<>> <=> NoCommand(v, next + 1)
    BY <1>1, <1>3, <2>1 DEF IInv, ParseInv
  <2>6. current' \in Seq(Words)
    BY <1>1, <2>1, Reading
  <2>7. /\ line'.commands = line.commands /\ line'.background = TRUE
        /\ line'.input = line.input /\ line'.output = line.output /\ line'.append = line.append
        /\ next \in Nat \ {0} /\ next + 1 - 1 = next
    BY <1>1, <2>1, Reading DEF LineType
  <2>8. Collected(v, next, line'.commands, current')
    <3>1. Collected(v, next - 1, line.commands, current)
      BY <1>1, Reading
    <3>2. ~Plain(v, next) /\ v[next] # <<"|">>
      BY <1>2, OperatorsDiffer DEF Plain
    <3>3. Collected(v, next, line.commands, current)
      BY <1>2, <3>1, <3>2, CollectNothing
    <3> QED  BY <2>1, <2>7, <3>3
  <2>9. Redirected(v, next, line')
    <3>1. Redirected(v, next - 1, line)
      BY <1>1, Reading
    <3> QED  BY <1>2, <2>7, <3>1, RedirectBackground
  <2>10. /\ next' = next + 1 /\ UNCHANGED <<raw, phase, scan, column>>
         /\ ~Target(v, next + 1)
    BY <1>1, <1>3, <2>1
  <2> DEFINE k == next + 1
  <2>11. /\ k \in 1..(Len(scan.tokens) + 1) /\ next' = k /\ \A j \in Culprits(v) : k <= j
         /\ ~Target(v, k) /\ (current' = <<>> <=> NoCommand(v, k))
         /\ Collected(v, k - 1, line'.commands, current') /\ Redirected(v, k - 1, line')
    BY <2>3, <2>4, <2>5, <2>7, <2>8, <2>9, <2>10
  <2> HIDE DEF k
  <2> QED  BY <1>1, <2>2, <2>6, <2>10, <2>11, AdvanceStep
<1> QED  BY <1>4, <1>5

LEMMA WordStep ==
    ASSUME IInv, Word
    PROVE  IInv'
<1> DEFINE v == Values
<1>1. /\ phase = "parse" /\ next <= Len(scan.tokens) /\ Value(next) \notin Operators
      /\ current' = Append(current, Value(next)) /\ next' = next + 1
      /\ UNCHANGED <<raw, phase, scan, line, column>>
  BY DEF Word, ReadToken
<1>2. next \in 1..Len(v) /\ v[next] = Value(next) /\ v \in Seq(Words)
  BY <1>1, Reading
<1>3. ~Target(v, next)
  BY <1>1 DEF IInv, ParseInv
<1>4. next \notin Culprits(v) /\ ~NoCommand(v, next + 1) /\ ~Target(v, next + 1)
  BY <1>1, <1>2, <1>3, WordReads
<1>5. current' \in Seq(Words) /\ current' # <<>>
  <2>1. current \in Seq(Words) /\ Value(next) \in Words
    BY <1>1, <1>2, Reading, ElementOfSeq
  <2>2. Append(current, Value(next)) \in Seq(Words)
        /\ Len(Append(current, Value(next))) = Len(current) + 1 /\ Len(current) \in Nat
    BY <2>1
  <2>3. Len(<<>>) = 0
    OBVIOUS
  <2> QED  BY <1>1, <2>2, <2>3
<1>6. next + 1 \in 1..(Len(scan.tokens) + 1)
  BY <1>1, Reading
<1>7. \A j \in Culprits(v) : next + 1 <= j
  BY <1>1, <1>4, Reading
<1>8. line' \in LineType /\ next \in Nat \ {0} /\ next + 1 - 1 = next
  BY <1>1, Reading
<1>9. Collected(v, next, line'.commands, current')
  <2>1. /\ Collected(v, next - 1, line.commands, current) /\ current \in Seq(Words)
        /\ line.commands \in Seq(CommandType)
    BY <1>1, Reading
  <2>2. Plain(v, next)
    BY <1>1, <1>2, <1>3 DEF Plain
  <2>3. Collected(v, next, line.commands, Append(current, v[next]))
    BY <1>2, <2>1, <2>2, CollectWord
  <2> QED  BY <1>1, <1>2, <2>3
<1>10. Redirected(v, next, line')
  <2>1. Redirected(v, next - 1, line)
    BY <1>1, Reading
  <2>2. v[next] \notin Redirects /\ v[next] # <<"&">> /\ line' = line
    BY <1>1, <1>2, OperatorsDiffer
  <2> QED  BY <1>8, <2>1, <2>2, RedirectNothing
<1> QED  BY <1>1, <1>4, <1>5, <1>6, <1>7, <1>8, <1>9, <1>10, AdvanceStep

LEMMA EndParseStep ==
    ASSUME IInv, EndParse
    PROVE  IInv'
<1> DEFINE v == Values
<1>1. phase = "parse" /\ next > Len(scan.tokens) /\ UNCHANGED scan
  BY DEF EndParse
<1>2. next = Len(v) + 1 /\ v \in Seq(Words)
  BY <1>1, Reading
<1>3. next \notin Misplaced(v) /\ (next \in Culprits(v) <=> NoCommand(v, next))
  BY <1>2, EndReads
<1>4. current = <<>> <=> NoCommand(v, next)
  BY <1>1 DEF IInv, ParseInv
<1>5. CASE current = <<>>
  <2>1. Fail(1) /\ UNCHANGED line
    BY <1>5 DEF EndParse
  <2> QED  BY <1>1, <1>3, <1>4, <1>5, <2>1, Reading, FailStep
<1>6. CASE current # <<>>
  <2>1. /\ FlushCommand /\ current' = <<>> /\ phase' = "done"
        /\ UNCHANGED <<raw, next, column>>
    BY <1>6 DEF EndParse
  <2>2. /\ line' \in LineType
        /\ line'.commands = Append(line.commands, Command(current))
        /\ line'.input = line.input /\ line'.output = line.output
        /\ line'.append = line.append /\ line'.background = line.background
    BY <1>1, <2>1, Reading, FlushCommandTypes
  <2>3. Culprits(v) = {}
    <3>1. \A j \in Culprits(v) : j = next
      BY <1>1, <1>2, Reading, LimitsAndCulprits
    <3> QED  BY <1>3, <1>4, <1>6, <3>1
  <2>4. TypeOK'
    BY <1>1, <2>1, <2>2 DEF IInv, TypeOK, LineType, CommandType
  <2>5. ScanInv' /\ ParseInv' /\ ColumnsInv' /\ CollectInv'
    BY <1>1, <2>1 DEF IInv, ScanInv, ParseInv, ColumnsInv, ColumnsIn, CollectInv
  <2>6. ErrorsAreTheFirst'
    BY <1>1, <2>1, <2>3 DEF ErrorsAreTheFirst, Values
  <2>7. LineAgrees'
    <3>1. /\ line.commands \in Seq(CommandType) /\ current \in Seq(Words)
          /\ Collected(v, next - 1, line.commands, current)
          /\ Redirected(v, next - 1, line)
          /\ Len(v) = Len(scan.tokens) /\ Len(v) \in Nat /\ DOMAIN v = 1..Len(v)
      BY <1>1, <1>2, Reading, LimitsAndCulprits
    <3>2. next - 1 = Len(v) /\ Len(v) \in 0..Len(v)
      BY <1>2, <3>1
    <3>3. AllCollected(v, Len(v), line'.commands)
      BY <1>2, <2>2, <3>1, <3>2, CollectCommand
    <3>4. Redirected(v, Len(v), line')
      BY <2>2, <3>1, <3>2 DEF Redirected
    <3>5. line'.commands \in Seq(CommandType)
      BY <2>2 DEF LineType
    <3>6. DOMAIN line'.commands = 1..Len(line'.commands)
      BY <3>5
    <3>7. Values' = v
      BY <1>1 DEF Values
    <3> HIDE DEF v
    <3> QED
      BY <1>1, <3>1, <3>3, <3>4, <3>6, <3>7, ZenonT(60)
      DEF LineAgrees, Values, AllCollected, Redirected, Count
  <2> QED  BY <2>4, <2>5, <2>6, <2>7 DEF IInv
<1> QED  BY <1>5, <1>6

LEMMA NextInv == IInv /\ [Next]_vars => IInv'
<1> SUFFICES ASSUME IInv, [Next]_vars
             PROVE  IInv'
  OBVIOUS
<1>1. CASE UNCHANGED vars
  <2>1. /\ raw' = raw /\ phase' = phase /\ next' = next /\ scan' = scan /\ line' = line
        /\ current' = current /\ column' = column
    BY <1>1 DEF vars
  <2>2. TypeOK' /\ ScanInv' /\ ColumnsInv'
    BY <2>1 DEF IInv, TypeOK, ScanInv, ColumnsInv, ColumnsIn
  <2>3. ParseInv' /\ CollectInv'
    BY <2>1 DEF IInv, ParseInv, CollectInv, Values
  <2>4. ErrorsAreTheFirst'
    BY <2>1 DEF IInv, ErrorsAreTheFirst
  <2>5. LineAgrees'
    BY <2>1, ZenonT(60) DEF IInv, LineAgrees
  <2> QED  BY <2>2, <2>3, <2>4, <2>5 DEF IInv
<1> QED
  BY <1>1, ScanRuneStep, UnclosedQuoteStep, EndScanStep, PipeStep, RedirectStep,
     AmpersandStep, WordStep, EndParseStep DEF Next

-----------------------------------------------------------------------------
(* The theorems. *)

\* The inductive invariant holds in every state.
THEOREM Invariance == Spec => []IInv
  BY InitInv, NextInv, PTL DEF Spec

\* Every variable has its type: reading a line never leaves its bounds, and what it
\* collects are texts (ParseLineWithEnv and tokenize).
THEOREM TypeCorrect == Spec => []TypeOK
<1>1. IInv => TypeOK
  BY DEF IInv
<1> QED  BY <1>1, Invariance, PTL

\* A line is accepted exactly when no token is out of place, and otherwise the error is
\* that of the first one that is (the syntax errors of ParseLineWithEnv).
THEOREM FirstErrorIsReported == Spec => []ErrorsAreTheFirst
<1>1. IInv => ErrorsAreTheFirst
  BY DEF IInv
<1> QED  BY <1>1, Invariance, PTL

\* Every word of an accepted line is an argument of the command it was written for, in
\* its place and expanded, and the last redirect of each kind counts (ParseLineWithEnv).
THEOREM WordsReachTheirCommands == Spec => []LineAgrees
<1>1. IInv => LineAgrees
  BY DEF IInv
<1> QED  BY <1>1, Invariance, PTL
=============================================================================
