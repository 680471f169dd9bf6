-------------------------- MODULE TokenizerProofs --------------------------
(***************************************************************************)
(* The scanner of CommandParser finds the tokens that are defined at once: *)
(* machine-checked for lines of any length.  What the scanner has read     *)
(* agrees with the modes, words and operators of the reference (Agrees)    *)
(* before the first rune, after each one, and so after the last.  And what *)
(* QuoteForRaw writes the scanner reads back, rune by rune (Has).          *)
(***************************************************************************)
EXTENDS CommandParserProofs

-----------------------------------------------------------------------------
(* Modes, stretches and rows. *)

\* The modes a rune can be read in.
ModeSet == {"bare", "esc", "sq", "dq", "dqesc"}

\* There is a mode after each rune.
LEMMA AfterType ==
    ASSUME NEW m \in ModeSet, NEW r
    PROVE  After(m, r) \in ModeSet
<1>1. CASE m = "bare"
  BY <1>1 DEF After, ModeSet
<1>2. CASE m = "esc"
  BY <1>2 DEF After, ModeSet
<1>3. CASE m = "sq"
  BY <1>3 DEF After, ModeSet
<1>4. CASE m = "dq"
  BY <1>4 DEF After, ModeSet
<1>5. CASE m = "dqesc"
  BY <1>5 DEF After, ModeSet
<1> QED  BY <1>1, <1>2, <1>3, <1>4, <1>5 DEF ModeSet

\* The mode of each rune follows from the one before it.
LEMMA ModesFollow ==
    ASSUME NEW s \in Words
    PROVE  /\ \A i \in 1..(Len(s) + 1) : Modes(s)[i] \in ModeSet
           /\ Modes(s)[1] = "bare"
           /\ \A i \in 1..Len(s) : Modes(s)[i + 1] = After(Modes(s)[i], s[i])
<1> DEFINE n == Len(s) + 1
           F == [p \in ModeSet \X (1..n) |-> After(p[1], s[p[2] - 1])]
           mode[i \in 1..n] == IF i = 1 THEN "bare" ELSE After(mode[i - 1], s[i - 1])
<1>1. n \in Nat /\ Len(s) \in Nat /\ "bare" \in ModeSet
  BY DEF Words, ModeSet
<1>2. F \in [ModeSet \X (1..n) -> ModeSet]
  BY AfterType
<1>3. PICK f \in [1..n -> ModeSet] : Iterates(f, n, "bare", F)
  <2> HIDE DEF F, n
  <2> QED  BY <1>1, <1>2, IterationExists
<1>4. \A i \in 1..n : f[i] = IF i = 1 THEN "bare" ELSE After(f[i - 1], s[i - 1])
  <2> SUFFICES ASSUME NEW i \in 1..n
               PROVE  f[i] = IF i = 1 THEN "bare" ELSE After(f[i - 1], s[i - 1])
    OBVIOUS
  <2>1. f[i] = IF i = 1 THEN "bare" ELSE F[<<f[i - 1], i>>]
    BY <1>3 DEF Iterates
  <2>2. i # 1 => f[i - 1] \in ModeSet
    <3>1. i # 1 => i - 1 \in 1..n
      BY <1>1
    <3> QED  BY <3>1
  <2> QED  BY <2>1, <2>2
<1>5. f = [i \in 1..n |-> IF i = 1 THEN "bare" ELSE After(f[i - 1], s[i - 1])]
  BY <1>4
<1>6. mode = [i \in 1..n |-> IF i = 1 THEN "bare" ELSE After(mode[i - 1], s[i - 1])]
  <2> HIDE DEF n, F
  <2> QED  BY <1>5
<1>7. Modes(s) = mode
  BY DEF Modes, mode
<1> HIDE DEF mode
<1>8. \A i \in 1..n : f[i] = mode[i]
  <2> DEFINE P == {i \in 1..n : f[i] = mode[i]}
  <2>1. \A i \in 1..n : (i # 1 => i - 1 \in P) => i \in P
    BY <1>4, <1>6
  <2>2. \A i \in 1..n : i \in P
    <3> HIDE DEF P, n
    <3> QED  BY <1>1, <2>1, OneByOne
  <2> QED  BY <2>2
<1>9. \A i \in 1..n : mode[i] \in ModeSet
  BY <1>8
<1>10. mode[1] = "bare"
  BY <1>1, <1>6
<1>11. \A i \in 1..Len(s) : mode[i + 1] = After(mode[i], s[i])
  <2> SUFFICES ASSUME NEW i \in 1..Len(s)
               PROVE  mode[i + 1] = After(mode[i], s[i])
    OBVIOUS
  <2> DEFINE j == i + 1
  <2>1. j \in 1..n /\ j # 1 /\ j - 1 = i
    BY <1>1
  <2> HIDE DEF j
  <2>2. mode[j] = After(mode[j - 1], s[j - 1])
    BY <1>6, <2>1
  <2>3. mode[j] = After(mode[i], s[i])
    BY <2>1, <2>2
  <2> QED  BY <2>3 DEF j
<1> QED  BY <1>7, <1>9, <1>10, <1>11

\* A stretch ends before the next blank or operator, or with the line.
IsEnd(s, i, e) == /\ \A k \in i..e : ~Bare(s, k)
                  /\ e = Len(s) \/ Bare(s, e + 1)

\* Every stretch ends.
LEMMA EndsExist ==
    ASSUME NEW s \in Words, NEW i \in 1..Len(s), ~Bare(s, i)
    PROVE  Ends(s, i) \in i..Len(s) /\ IsEnd(s, i, Ends(s, i))
<1> DEFINE D == {e \in i..Len(s) : e = Len(s) \/ Bare(s, e + 1)}
<1>1. Len(s) \in Nat
  BY DEF Words
<1>2. D \in SUBSET Nat /\ Len(s) \in D
  BY <1>1
<1>3. PICK e \in D : \A k \in D : e <= k
  <2> HIDE DEF D
  <2> QED  BY <1>2, LeastElement
<1>4. e \in i..Len(s) /\ (e = Len(s) \/ Bare(s, e + 1))
  OBVIOUS
<1>5. \A k \in i..e : ~Bare(s, k)
  <2> SUFFICES ASSUME NEW k \in i..e, Bare(s, k)
               PROVE  FALSE
    OBVIOUS
  <2>1. k # i
    OBVIOUS
  <2>2. k - 1 \in i..Len(s) /\ k - 1 + 1 = k /\ ~(e <= k - 1)
    BY <1>1, <1>4, <2>1
  <2>3. k - 1 \in D
    BY <2>2
  <2> QED  BY <1>3, <2>2, <2>3
<1>6. IsEnd(s, i, e)
  BY <1>4, <1>5 DEF IsEnd
<1>7. Ends(s, i) = CHOOSE x \in i..Len(s) : IsEnd(s, i, x)
  BY DEF Ends, IsEnd
<1> QED  BY <1>4, <1>6, <1>7

\* It ends at one place.
LEMMA EndsIsUnique ==
    ASSUME NEW s \in Words, NEW i \in 1..Len(s), NEW e \in i..Len(s), IsEnd(s, i, e)
    PROVE  Ends(s, i) = e
<1>1. Len(s) \in Nat
  BY DEF Words
<1>2. ~Bare(s, i)
  BY <1>1 DEF IsEnd
<1>3. Ends(s, i) \in i..Len(s) /\ IsEnd(s, i, Ends(s, i))
  BY <1>2, EndsExist
<1> DEFINE f == Ends(s, i)
<1>4. f \in i..Len(s) /\ IsEnd(s, i, f)
  BY <1>3
<1> HIDE DEF f
<1>5. ~(f < e)
  <2>1. SUFFICES ASSUME f < e
                 PROVE  FALSE
    OBVIOUS
  <2>2. f + 1 \in i..e /\ f # Len(s)
    BY <1>1, <1>4, <2>1
  <2> QED  BY <1>4, <2>2 DEF IsEnd
<1>6. ~(e < f)
  <2>1. SUFFICES ASSUME e < f
                 PROVE  FALSE
    OBVIOUS
  <2>2. e + 1 \in i..f /\ e # Len(s)
    BY <1>1, <1>4, <2>1
  <2> QED  BY <1>4, <2>2 DEF IsEnd
<1>7. f = e
  BY <1>1, <1>4, <1>5, <1>6
<1> QED  BY <1>7 DEF f

\* The row of ">"s before i.
IsRow(s, i, n) == /\ \A k \in (i - n)..(i - 1) : Gt(s, k)
                  /\ i - n = 1 \/ ~Gt(s, i - n - 1)

\* A row has one length.
LEMMA RowIsUnique ==
    ASSUME NEW s, NEW i \in Nat \ {0}, NEW n \in 0..(i - 1), IsRow(s, i, n)
    PROVE  Row(s, i) = n
<1> DEFINE m == CHOOSE x \in 0..(i - 1) : IsRow(s, i, x)
<1>1. m \in 0..(i - 1) /\ IsRow(s, i, m)
  OBVIOUS
<1>2. Row(s, i) = m
  BY DEF Row, IsRow
<1> HIDE DEF m
<1>3. ~(m < n)
  <2>1. SUFFICES ASSUME m < n
                 PROVE  FALSE
    OBVIOUS
  <2>2. i - m - 1 \in (i - n)..(i - 1) /\ i - m # 1
    BY <1>1, <2>1
  <2> QED  BY <1>1, <2>2 DEF IsRow
<1>4. ~(n < m)
  <2>1. SUFFICES ASSUME n < m
                 PROVE  FALSE
    OBVIOUS
  <2>2. i - n - 1 \in (i - m)..(i - 1) /\ i - n # 1
    BY <1>1, <2>1
  <2> QED  BY <1>1, <2>2 DEF IsRow
<1> QED  BY <1>1, <1>2, <1>3, <1>4

\* Every place has a row before it, which may be empty.
LEMMA RowExists ==
    ASSUME NEW s, NEW i \in Nat \ {0}
    PROVE  Row(s, i) \in 0..(i - 1) /\ IsRow(s, i, Row(s, i))
<1> DEFINE D == {n \in 0..(i - 1) : i - n = 1 \/ ~Gt(s, i - n - 1)}
<1>1. D \in SUBSET Nat /\ i - 1 \in D
  OBVIOUS
<1>2. PICK n \in D : \A k \in D : n <= k
  <2> HIDE DEF D
  <2> QED  BY <1>1, LeastElement
<1>3. n \in 0..(i - 1) /\ (i - n = 1 \/ ~Gt(s, i - n - 1))
  OBVIOUS
<1>4. \A k \in (i - n)..(i - 1) : Gt(s, k)
  <2> SUFFICES ASSUME NEW k \in (i - n)..(i - 1), ~Gt(s, k)
               PROVE  FALSE
    OBVIOUS
  <2>1. i - k - 1 \in 0..(i - 1) /\ i - (i - k - 1) - 1 = k /\ ~(n <= i - k - 1)
    BY <1>3
  <2>2. i - k - 1 \in D
    BY <2>1
  <2> QED  BY <1>2, <2>1, <2>2
<1>5. IsRow(s, i, n)
  BY <1>3, <1>4 DEF IsRow
<1> QED  BY <1>3, <1>5, RowIsUnique

\* A row is as long as the one before it and one more, if that goes on.
LEMMA RowFollows ==
    ASSUME NEW s
    PROVE  /\ Row(s, 1) = 0
           /\ \A i \in Nat \ {0} : /\ Row(s, i) \in Nat
                                   /\ Row(s, i + 1) = IF Gt(s, i) THEN Row(s, i) + 1 ELSE 0
<1>1. Row(s, 1) = 0
  <2>1. IsRow(s, 1, 0) /\ 0 \in 0..(1 - 1)
    BY DEF IsRow
  <2> QED  BY <2>1, RowIsUnique
<1>2. ASSUME NEW i \in Nat \ {0}
      PROVE  Row(s, i) \in Nat /\ Row(s, i + 1) = IF Gt(s, i) THEN Row(s, i) + 1 ELSE 0
  <2> DEFINE n == Row(s, i)
  <2>1. n \in 0..(i - 1) /\ IsRow(s, i, n)
    BY RowExists
  <2> HIDE DEF n
  <2>2. CASE Gt(s, i)
    <3>1. /\ i + 1 - (n + 1) = i - n /\ i + 1 - 1 = i
          /\ \A k \in (i - n)..i : k \in (i - n)..(i - 1) \/ k = i
          /\ n + 1 \in 0..(i + 1 - 1)
      BY <2>1
    <3>2. IsRow(s, i + 1, n + 1)
      BY <2>1, <2>2, <3>1 DEF IsRow
    <3>3. Row(s, i + 1) = n + 1
      BY <3>1, <3>2, RowIsUnique
    <3> QED  BY <2>1, <2>2, <3>3 DEF n
  <2>3. CASE ~Gt(s, i)
    <3>1. i + 1 - 0 - 1 = i /\ 0 \in 0..(i + 1 - 1) /\ (i + 1 - 0)..(i + 1 - 1) = {}
      OBVIOUS
    <3>2. IsRow(s, i + 1, 0)
      BY <2>3, <3>1 DEF IsRow
    <3>3. Row(s, i + 1) = 0
      BY <3>1, <3>2, RowIsUnique
    <3> QED  BY <2>1, <2>3, <3>3 DEF n
  <2> QED  BY <2>2, <2>3
<1> QED  BY <1>1, <1>2

\* The runes of a text.
LEMMA RunesAre ==
    ASSUME NEW s \in Words, NEW i \in 1..Len(s)
    PROVE  /\ s[i] \in Runes
           /\ s[i] \in Spaces \cup Metas \/ s[i] \in {"n", "dq", "sq", "bs", "$", "%"}
BY DEF Words, Runes

\* Texts of no rune, of one, and of one after a backslash.
LEMMA RunesAreTexts ==
    /\ <<>> \in Words
    /\ \A r \in Runes : <<r>> \in Words /\ <<"bs", r>> \in Words
    /\ "bs" \in Runes /\ "nl" \in Runes
BY DEF Words, Runes, Spaces

\* What a rune contributes is a text.
LEMMA MeaningType ==
    ASSUME NEW s \in Words, NEW i \in 1..Len(s)
    PROVE  Meaning(s, i) \in Words
<1> DEFINE m == Modes(s)[i]
<1>1. s[i] \in Runes /\ m \in ModeSet
  BY RunesAre, ModesFollow DEF Words
<1>2. <<>> \in Words /\ <<s[i]>> \in Words /\ <<"bs", s[i]>> \in Words /\ <<"nl">> \in Words
  BY <1>1, RunesAreTexts
<1>3. Meaning(s, i) \in {<<>>, <<s[i]>>, <<"bs", s[i]>>, <<"nl">>}
  <2> HIDE DEF m
  <2>1. CASE m = "esc"
    BY <2>1 DEF Meaning, m
  <2>2. CASE m = "dqesc"
    BY <2>2 DEF Meaning, m
  <2>3. CASE m = "sq"
    BY <2>3 DEF Meaning, m
  <2>4. CASE m = "dq"
    BY <2>4 DEF Meaning, m
  <2>5. CASE m = "bare"
    BY <2>5 DEF Meaning, m
  <2> QED  BY <1>1, <2>1, <2>2, <2>3, <2>4, <2>5 DEF ModeSet
<1> QED  BY <1>2, <1>3

\* One more rune of a stretch.
LEMMA MeaningsFollow ==
    ASSUME NEW s \in Words, NEW i \in 1..Len(s), NEW e \in i..Len(s)
    PROVE  /\ Meanings(s, i, i - 1) = <<>>
           /\ Meanings(s, i, e - 1) \in Words
           /\ Meanings(s, i, e) = Meanings(s, i, e - 1) \o Meaning(s, e)
<1>1. Len(s) \in Nat
  BY DEF Words
<1> DEFINE n == e - i
           all == [k \in 1..(n + 1) |-> Meaning(s, i + k - 1)]
           before == [k \in 1..n |-> Meaning(s, i + k - 1)]
<1>2. n \in Nat /\ e - i + 1 = n + 1 /\ e - 1 - i + 1 = n /\ i + (n + 1) - 1 = e
  BY <1>1
<1>3. \A k \in 1..(n + 1) : i + k - 1 \in 1..Len(s)
  BY <1>1
<1>4. \A k \in 1..(n + 1) : Meaning(s, i + k - 1) \in Words
  BY <1>3, MeaningType
<1>5. all \in [1..(n + 1) -> Seq(Runes)]
  BY <1>4 DEF Words
<1>6. n + 1 \in 1..(n + 1) /\ \A k \in 1..n : k \in 1..(n + 1)
  BY <1>2
<1>7. all[n + 1] = Meaning(s, e)
  <2> HIDE DEF n
  <2> QED  BY <1>2, <1>6
<1>8. before = [k \in 1..n |-> all[k]]
  <2> HIDE DEF n
  <2> QED  BY <1>6
<1>9. Meanings(s, i, e) = FlattenSeq(all)
  BY <1>2 DEF Meanings
<1>10. Meanings(s, i, e - 1) = FlattenSeq(before)
  BY <1>2 DEF Meanings
<1>11. /\ FlattenSeq(before) \in Seq(Runes)
       /\ FlattenSeq(all) = FlattenSeq(before) \o all[n + 1]
  <2> HIDE DEF n, all, before
  <2>1. FlattenSeq(before) \in Seq(Runes)
    <3>1. before \in Seq(Seq(Runes))
      BY <1>2, <1>5, <1>8
    <3> QED  BY <3>1, FlattenType
  <2>2. FlattenSeq(all) = FlattenSeq(before) \o all[n + 1]
    BY <1>2, <1>5, <1>8, FlattenAppend
  <2> QED  BY <2>1, <2>2
<1>12. Meanings(s, i, i - 1) = <<>>
  <2>1. 1..(i - 1 - i + 1) = {}
    OBVIOUS
  <2>2. [k \in 1..(i - 1 - i + 1) |-> Meaning(s, i + k - 1)] = <<>>
    BY <2>1
  <2>3. FlattenSeq(<<>>) = <<>>
    BY DEF FlattenSeq
  <2> QED  BY <2>2, <2>3 DEF Meanings
<1> HIDE DEF all, before
<1> QED  BY <1>7, <1>9, <1>10, <1>11, <1>12 DEF Words

-----------------------------------------------------------------------------
(* The scanner sc agrees with the first p runes of s. *)

\* The mode in which the next rune is read.  Inside quotes and after a backslash a
\* word is being read.
ModeOf(sc) ==
    IF sc.escaping THEN IF sc.quote = "dq" THEN "dqesc" ELSE "esc"
    ELSE IF sc.quote = NoQuote THEN "bare" ELSE sc.quote

InMode(sc, s, p) ==
    /\ Modes(s)[p + 1] = ModeOf(sc)
    /\ sc.escaping => sc.quote # "sq"
    /\ sc.escaping \/ sc.quote # NoQuote => sc.started

\* The next rune is passed over exactly when it is the second ">" of a ">>".
Skips(sc, s, p) ==
    sc.skip <=> p # 0 /\ p < Len(s) /\ Operates(s, p) /\ s[p] = ">" /\ s[p + 1] = ">"

\* The text of the word being read.  A last backslash is not yet in it.
TextSoFar(sc, s, p) ==
    IF sc.escaping /\ sc.quote = NoQuote /\ p = Len(s) THEN Append(sc.text, "bs") ELSE sc.text

Reads(sc, s, p) ==
    /\ sc.started <=> p # 0 /\ ~Bare(s, p)
    /\ ~sc.started => sc.column = 0 /\ sc.text = <<>>
    /\ sc.started =>
         /\ sc.column \in 1..p /\ Begins(s, sc.column)
         /\ \A k \in sc.column..p : ~Bare(s, k)
         /\ TextSoFar(sc, s, p) = Meanings(s, sc.column, p)

\* The words that end and the operators that begin among the first p runes.
Closed(s, p)     == {j \in 1..p : Begins(s, j) /\ Ends(s, j) <= p}
Operations(s, p) == {j \in 1..p : Operates(s, j)}

TokensOf(s, words, operators) ==
    {WordToken(s, j) : j \in words} \cup {OperatorToken(s, j) : j \in operators}

\* A word that ends with the rune read last is not complete yet.
Found(sc, s, p) ==
    /\ ToSet(sc.tokens) = TokensOf(s, Closed(s, p - 1), Operations(s, p))
    /\ InOrder(sc.tokens)
    /\ \A k \in DOMAIN sc.tokens : /\ sc.tokens[k].column \in 1..p
                                   /\ sc.started => sc.tokens[k].column < sc.column

Agrees(sc, s, p) == InMode(sc, s, p) /\ Skips(sc, s, p) /\ Reads(sc, s, p) /\ Found(sc, s, p)

-----------------------------------------------------------------------------
(* Stretches and rows at the next rune. *)

\* A rune that is quoted, escaped, or no blank or operator is part of a word.
LEMMA BareRunes ==
    ASSUME NEW s, NEW i, Modes(s)[i] # "bare" \/ s[i] \notin Spaces \cup Metas
    PROVE  ~Bare(s, i)
BY DEF Bare

\* The word at c ends here.
LEMMA ClosesWord ==
    ASSUME NEW s \in Words, NEW p \in 1..Len(s), p = Len(s) \/ Bare(s, p + 1),
           NEW c \in 1..p, Begins(s, c), \A k \in c..p : ~Bare(s, k)
    PROVE  Closed(s, p) = Closed(s, p - 1) \cup {c} /\ Ends(s, c) = p
<1>1. Len(s) \in Nat
  BY DEF Words
<1>2. Ends(s, c) = p
  BY <1>1, EndsIsUnique DEF IsEnd
<1>3. \A j \in 1..p : Begins(s, j) =>
         /\ Ends(s, j) \in j..Len(s)
         /\ \A k \in j..Ends(s, j) : ~Bare(s, k)
  BY <1>1, EndsExist DEF Begins, IsEnd
<1>4. \A j \in 1..p : Begins(s, j) /\ Ends(s, j) = p => j = c
  <2> SUFFICES ASSUME NEW j \in 1..p, Begins(s, j), Ends(s, j) = p, j # c
               PROVE  FALSE
    OBVIOUS
  <2>1. \A k \in j..p : ~Bare(s, k)
    BY <1>3
  <2>2. CASE j < c
    <3>1. c - 1 \in j..p /\ c # 1
      BY <2>2
    <3> QED  BY <2>1, <3>1 DEF Begins
  <2>3. CASE c < j
    <3>1. j - 1 \in c..p /\ j # 1
      BY <2>3
    <3> QED  BY <3>1 DEF Begins
  <2> QED  BY <2>2, <2>3
<1>5. \A j \in 1..p : Begins(s, j) /\ Ends(s, j) <= p
         <=> j = c \/ (j \in 1..(p - 1) /\ Begins(s, j) /\ Ends(s, j) <= p - 1)
  <2> SUFFICES ASSUME NEW j \in 1..p
               PROVE  Begins(s, j) /\ Ends(s, j) <= p
                        <=> j = c \/ (j \in 1..(p - 1) /\ Begins(s, j) /\ Ends(s, j) <= p - 1)
    OBVIOUS
  <2> DEFINE e == Ends(s, j)
  <2>1. Begins(s, j) => e \in j..Len(s) /\ (e = p => j = c)
    BY <1>3, <1>4
  <2>2. j = c => e = p /\ Begins(s, j)
    BY <1>2
  <2> HIDE DEF e
  <2>3. Begins(s, j) /\ e <= p <=> j = c \/ (j \in 1..(p - 1) /\ Begins(s, j) /\ e <= p - 1)
    BY <1>1, <2>1, <2>2
  <2> QED  BY <2>3 DEF e
<1>6. \A j : j \in 1..(p - 1) => j \in 1..p
  OBVIOUS
<1> QED  BY <1>2, <1>5, <1>6 DEF Closed

\* No word ends here.
LEMMA ClosesNone ==
    ASSUME NEW s \in Words, NEW p \in 0..Len(s),
           p = 0 \/ Bare(s, p) \/ (p < Len(s) /\ ~Bare(s, p + 1))
    PROVE  Closed(s, p) = Closed(s, p - 1)
<1>1. Len(s) \in Nat
  BY DEF Words
<1>2. \A j \in 1..p : Begins(s, j) => Ends(s, j) \in j..Len(s) /\ Ends(s, j) # p
  <2> SUFFICES ASSUME NEW j \in 1..p, Begins(s, j)
               PROVE  Ends(s, j) \in j..Len(s) /\ Ends(s, j) # p
    OBVIOUS
  <2> DEFINE e == Ends(s, j)
  <2>1. /\ e \in j..Len(s) /\ \A k \in j..e : ~Bare(s, k)
        /\ e = Len(s) \/ Bare(s, e + 1)
    BY <1>1, EndsExist DEF Begins, IsEnd
  <2> HIDE DEF e
  <2>2. e # p
    BY <1>1, <2>1
  <2> QED  BY <2>1, <2>2 DEF e
<1>3. \A j \in 1..p : Begins(s, j) =>
        (Ends(s, j) <= p <=> Ends(s, j) <= p - 1) /\ (Ends(s, j) <= p - 1 => j \in 1..(p - 1))
  <2> SUFFICES ASSUME NEW j \in 1..p, Begins(s, j)
               PROVE  /\ Ends(s, j) <= p <=> Ends(s, j) <= p - 1
                      /\ Ends(s, j) <= p - 1 => j \in 1..(p - 1)
    OBVIOUS
  <2> DEFINE e == Ends(s, j)
  <2>1. e \in j..Len(s) /\ e # p
    BY <1>2
  <2> HIDE DEF e
  <2>2. (e <= p <=> e <= p - 1) /\ (e <= p - 1 => j \in 1..(p - 1))
    BY <1>1, <2>1
  <2> QED  BY <2>2 DEF e
<1>4. \A j : j \in 1..(p - 1) => j \in 1..p
  OBVIOUS
<1> QED  BY <1>3, <1>4 DEF Closed

\* One more operator, or none.
LEMMA OperationsFollow ==
    ASSUME NEW s, NEW i \in Nat \ {0}
    PROVE  Operations(s, i) = IF Operates(s, i) THEN Operations(s, i - 1) \cup {i}
                              ELSE Operations(s, i - 1)
<1>1. \A j : j \in 1..i <=> j \in 1..(i - 1) \/ j = i
  OBVIOUS
<1> QED  BY <1>1 DEF Operations

-----------------------------------------------------------------------------
(* Words that go on and words that end. *)

\* The next rune is part of a word, which it begins or continues.
LEMMA WordGoesOn ==
    ASSUME NEW s \in Words, NEW i \in 1..Len(s), NEW sc \in Scanner, Agrees(sc, s, i - 1),
           ~Bare(s, i), NEW new \in Scanner, InMode(new, s, i),
           new.started, ~new.skip, new.tokens = sc.tokens,
           new.column = IF sc.started THEN sc.column ELSE i,
           TextSoFar(new, s, i) = sc.text \o Meaning(s, i)
    PROVE  Agrees(new, s, i)
<1>1. Len(s) \in Nat /\ i - 1 \in 0..Len(s) /\ i - 1 + 1 = i /\ i - 1 < Len(s) /\ i \in i..Len(s)
  BY DEF Words
<1>2. /\ sc.started <=> i - 1 # 0 /\ ~Bare(s, i - 1)
      /\ ~sc.started => sc.column = 0 /\ sc.text = <<>>
      /\ sc.started =>
           /\ sc.column \in 1..(i - 1) /\ Begins(s, sc.column)
           /\ \A k \in sc.column..(i - 1) : ~Bare(s, k)
           /\ TextSoFar(sc, s, i - 1) = Meanings(s, sc.column, i - 1)
  BY DEF Agrees, Reads
<1>3. TextSoFar(sc, s, i - 1) = sc.text
  BY <1>1 DEF TextSoFar
<1>4. /\ new.column \in 1..i /\ Begins(s, new.column)
      /\ \A k \in new.column..i : ~Bare(s, k)
      /\ TextSoFar(new, s, i) = Meanings(s, new.column, i)
  <2>1. CASE sc.started
    <3>1. new.column = sc.column /\ sc.column \in 1..(i - 1)
      BY <1>2, <2>1
    <3>2. i \in sc.column..Len(s) /\ sc.column \in 1..Len(s)
      BY <1>1, <3>1
    <3>3. Meanings(s, sc.column, i) = Meanings(s, sc.column, i - 1) \o Meaning(s, i)
      BY <3>2, MeaningsFollow
    <3>4. \A k \in sc.column..i : k \in sc.column..(i - 1) \/ k = i
      BY <3>1
    <3>5. TextSoFar(new, s, i) = Meanings(s, new.column, i)
      BY <1>2, <1>3, <2>1, <3>1, <3>3
    <3>6. \A k \in new.column..i : ~Bare(s, k)
      BY <1>2, <2>1, <3>1, <3>4
    <3> QED  BY <1>1, <1>2, <2>1, <3>1, <3>5, <3>6
  <2>2. CASE ~sc.started
    <3>1. new.column = i /\ sc.text = <<>>
      BY <1>2, <2>2
    <3>2. Begins(s, i)
      BY <1>2, <2>2 DEF Begins
    <3>3. Meanings(s, i, i) = <<>> \o Meaning(s, i)
      BY <1>1, MeaningsFollow
    <3> QED  BY <3>1, <3>2, <3>3
  <2> QED  BY <2>1, <2>2
<1>5. Reads(new, s, i)
  BY <1>4 DEF Reads
<1>6. Skips(new, s, i)
  <2>1. ~Operates(s, i)
    BY DEF Operates
  <2> QED  BY <2>1 DEF Skips
<1>7. Found(new, s, i)
  <2>1. /\ ToSet(sc.tokens) = TokensOf(s, Closed(s, i - 2), Operations(s, i - 1))
        /\ InOrder(sc.tokens)
        /\ \A k \in DOMAIN sc.tokens : /\ sc.tokens[k].column \in 1..(i - 1)
                                       /\ sc.started => sc.tokens[k].column < sc.column
    <3>1. i - 1 - 1 = i - 2
      OBVIOUS
    <3> QED  BY <3>1 DEF Agrees, Found
  <2>2. Closed(s, i - 1) = Closed(s, i - 2)
    <3>1. i - 1 - 1 = i - 2
      OBVIOUS
    <3> QED  BY <1>1, <3>1, ClosesNone
  <2>3. Operations(s, i) = Operations(s, i - 1)
    BY OperationsFollow DEF Operates
  <2>4. \A k \in DOMAIN sc.tokens : /\ sc.tokens[k].column \in 1..i
                                    /\ sc.tokens[k].column < new.column
    BY <2>1
  <2> QED  BY <2>1, <2>2, <2>3, <2>4 DEF Found
<1> QED  BY <1>5, <1>6, <1>7 DEF Agrees

\* The tokens new are those of tokens and t.
Added(new, tokens, t) ==
    /\ ToSet(new) = ToSet(tokens) \cup {t}
    /\ InOrder(new)
    /\ \A k \in DOMAIN new : (k \in DOMAIN tokens /\ new[k] = tokens[k]) \/ new[k] = t

\* A token is added.
LEMMA AddToken ==
    ASSUME NEW tokens \in Seq(Token), NEW t \in Token, InOrder(tokens),
           \A k \in DOMAIN tokens : tokens[k].column < t.column,
           NEW new, new = Append(tokens, t)
    PROVE  Added(new, tokens, t)
<1> DEFINE n == Len(tokens)
<1>1. /\ n \in Nat /\ DOMAIN tokens = 1..n /\ DOMAIN new = 1..(n + 1)
      /\ \A k \in 1..n : new[k] = tokens[k] /\ tokens[k] \in Token
      /\ new[n + 1] = t
  OBVIOUS
<1> HIDE DEF n
<1>2. \A k \in 1..(n + 1) : k \in 1..n \/ k = n + 1
  BY <1>1
<1>3. \A k \in 1..n : k \in 1..(n + 1)
  BY <1>1
<1>4. \A k \in DOMAIN new : (k \in DOMAIN tokens /\ new[k] = tokens[k]) \/ new[k] = t
  BY <1>1, <1>2
<1>5. ToSet(new) = ToSet(tokens) \cup {t}
  BY <1>1, <1>2, <1>3 DEF ToSet
<1>6. InOrder(new)
  <2> SUFFICES ASSUME NEW j \in 1..(n + 1), NEW k \in 1..(n + 1), j < k
               PROVE  new[j].column < new[k].column
    BY <1>1 DEF InOrder
  <2>1. j \in 1..n
    BY <1>1
  <2>2. CASE k \in 1..n
    BY <1>1, <2>1, <2>2 DEF InOrder
  <2>3. CASE k = n + 1
    BY <1>1, <2>1, <2>3
  <2> QED  BY <1>2, <2>2, <2>3
<1> QED  BY <1>4, <1>5, <1>6 DEF Added

\* Every word among the first p runes of s is complete, the last one included.
Flushed(sc, s, p) ==
    /\ ToSet(sc.tokens) = TokensOf(s, Closed(s, p), Operations(s, p))
    /\ InOrder(sc.tokens)
    /\ \A k \in DOMAIN sc.tokens : sc.tokens[k].column \in 1..p
    /\ ~sc.started /\ sc.column = 0 /\ sc.text = <<>>

\* The word that ends before a blank, an operator or the end of the line is a token
\* of the reference.
LEMMA FlushAgrees ==
    ASSUME NEW s \in Words, NEW p \in 0..Len(s), p = Len(s) \/ Bare(s, p + 1),
           NEW sc \in Scanner, Reads(sc, s, p), Found(sc, s, p), sc.escaping => sc.started,
           NEW fl \in Scanner, fl.tokens = sc.tokens, fl.started = sc.started,
           fl.column = sc.column, fl.text = TextSoFar(sc, s, p)
    PROVE  Flushed(Flush(fl), s, p)
<1>1. Len(s) \in Nat
  BY DEF Words
<1>2. CASE sc.started
  <2> DEFINE t == [value |-> fl.text, column |-> fl.column]
             new == Append(fl.tokens, t)
             done == [fl EXCEPT !.tokens = new, !.text = <<>>, !.column = 0, !.started = FALSE]
  <2>1. Flush(fl) = done
    BY <1>2 DEF Flush
  <2>2. /\ sc.column \in 1..p /\ Begins(s, sc.column)
        /\ \A k \in sc.column..p : ~Bare(s, k)
        /\ TextSoFar(sc, s, p) = Meanings(s, sc.column, p)
    BY <1>2 DEF Reads
  <2>3. p \in 1..Len(s)
    BY <1>1, <2>2
  <2>4. Closed(s, p) = Closed(s, p - 1) \cup {sc.column} /\ Ends(s, sc.column) = p
    BY <2>2, <2>3, ClosesWord
  <2>5. t = WordToken(s, sc.column)
    BY <2>2, <2>4 DEF WordToken
  <2>6. t \in Token
    BY ScannerFields DEF Token
  <2>7. /\ fl.tokens \in Seq(Token) /\ InOrder(fl.tokens)
        /\ \A k \in DOMAIN fl.tokens : fl.tokens[k].column < fl.column /\ fl.tokens[k].column \in 1..p
        /\ ToSet(fl.tokens) = TokensOf(s, Closed(s, p - 1), Operations(s, p))
    BY <1>2, ScannerFields DEF Found
  <2>8. t.column = sc.column
    OBVIOUS
  <2> HIDE DEF t
  <2>13. \A k \in DOMAIN fl.tokens : fl.tokens[k].column < t.column
    BY <2>7, <2>8
  <2>9. /\ ToSet(new) = ToSet(fl.tokens) \cup {t}
        /\ InOrder(new)
        /\ \A k \in DOMAIN new : (k \in DOMAIN fl.tokens /\ new[k] = fl.tokens[k]) \/ new[k] = t
    <3>1. new = Append(fl.tokens, t) /\ fl.tokens \in Seq(Token) /\ InOrder(fl.tokens)
      BY <2>7
    <3> HIDE DEF new, done
    <3>2. Added(new, fl.tokens, t)
      BY <2>6, <2>13, <3>1, AddToken
    <3> QED  BY <3>2 DEF Added
  <2> HIDE DEF new
  <2>10. ToSet(new) = TokensOf(s, Closed(s, p), Operations(s, p))
    BY <2>4, <2>5, <2>7, <2>9 DEF TokensOf
  <2>11. \A k \in DOMAIN new : new[k].column \in 1..p
    BY <2>2, <2>7, <2>8, <2>9
  <2>12. done.tokens = new /\ done.started = FALSE /\ done.column = 0 /\ done.text = <<>>
    BY DEF Scanner
  <2> HIDE DEF done
  <2> QED  BY <2>1, <2>9, <2>10, <2>11, <2>12 DEF Flushed
<1>3. CASE ~sc.started
  <2>1. Flush(fl) = fl
    BY <1>3 DEF Flush
  <2>2. p = 0 \/ Bare(s, p)
    BY <1>3 DEF Reads
  <2>3. Closed(s, p) = Closed(s, p - 1)
    BY <2>2, ClosesNone
  <2>4. fl.column = 0 /\ fl.text = <<>>
    BY <1>3 DEF Reads, TextSoFar
  <2> QED  BY <1>3, <2>1, <2>3, <2>4 DEF Found, Flushed
<1> QED  BY <1>2, <1>3

\* The columns the scanner has are those of the line.
LEMMA AgreesFits ==
    ASSUME NEW s \in Words, NEW p \in 0..Len(s), NEW sc \in Scanner, Agrees(sc, s, p)
    PROVE  ColumnsIn(sc, Len(s))
<1>1. Len(s) \in Nat
  BY DEF Words
<1>2. \A k \in DOMAIN sc.tokens : sc.tokens[k].column \in 1..Len(s)
  BY <1>1 DEF Agrees, Found
<1>3. sc.column \in 0..Len(s) /\ (sc.started => sc.column # 0)
  <2>1. CASE sc.started
    BY <1>1, <2>1 DEF Agrees, Reads
  <2>2. CASE ~sc.started
    BY <1>1, <2>2 DEF Agrees, Reads
  <2> QED  BY <2>1, <2>2
<1> QED  BY <1>2, <1>3 DEF ColumnsIn

\* What is known of the rune at i when the scanner comes to it.
LEMMA ComesTo ==
    ASSUME NEW s \in Words, NEW i \in 1..Len(s), NEW sc \in Scanner, Agrees(sc, s, i - 1)
    PROVE  /\ Modes(s)[i] = ModeOf(sc) /\ Modes(s)[i + 1] = After(ModeOf(sc), s[i])
           /\ sc.escaping => sc.quote # "sq"
           /\ sc.escaping \/ sc.quote # NoQuote => sc.started
           /\ sc.skip => /\ ~sc.started /\ ~sc.escaping /\ sc.quote = NoQuote
                         /\ i # 1 /\ Bare(s, i - 1) /\ Operates(s, i - 1)
                         /\ s[i - 1] = ">" /\ s[i] = ">"
           /\ ~sc.started => sc.column = 0
<1>1. Len(s) \in Nat /\ i - 1 + 1 = i /\ i - 1 < Len(s)
  BY DEF Words
<1>2. InMode(sc, s, i - 1) /\ Skips(sc, s, i - 1) /\ Reads(sc, s, i - 1)
  BY DEF Agrees
<1>3. Modes(s)[i] = ModeOf(sc)
  BY <1>1, <1>2 DEF InMode
<1>4. Modes(s)[i + 1] = After(Modes(s)[i], s[i])
  BY ModesFollow
<1>5. ASSUME sc.skip
      PROVE  /\ i - 1 # 0 /\ Operates(s, i - 1) /\ s[i - 1] = ">" /\ s[i] = ">"
             /\ Bare(s, i - 1)
  BY <1>1, <1>2, <1>5 DEF Skips, Operates
<1>6. sc.skip => ~sc.started
  BY <1>2, <1>5 DEF Reads
<1> QED  BY <1>2, <1>3, <1>4, <1>5, <1>6 DEF InMode, Reads

\* The second ">" of a ">>".
LEMMA PassedOver ==
    ASSUME NEW s \in Words, NEW i \in 1..Len(s), NEW sc \in Scanner, Agrees(sc, s, i - 1),
           sc.skip
    PROVE  Agrees([sc EXCEPT !.skip = FALSE], s, i)
<1> DEFINE new == [sc EXCEPT !.skip = FALSE]
<1>1. Len(s) \in Nat /\ i - 1 \in Nat /\ i - 1 + 1 = i /\ i - 1 \in 0..Len(s) /\ i - 1 < Len(s)
  BY DEF Words
<1>2. /\ new.tokens = sc.tokens /\ new.started = sc.started /\ new.column = sc.column
      /\ new.text = sc.text /\ new.quote = sc.quote /\ new.escaping = sc.escaping
      /\ new.skip = FALSE
  BY DEF Scanner
<1> HIDE DEF new
<1>3. /\ ~sc.started /\ ~sc.escaping /\ sc.quote = NoQuote
      /\ i # 1 /\ Bare(s, i - 1) /\ Operates(s, i - 1) /\ s[i - 1] = ">" /\ s[i] = ">"
      /\ Modes(s)[i] = "bare" /\ Modes(s)[i + 1] = "bare"
  BY ComesTo DEF ModeOf, After
<1>4. Bare(s, i) /\ Gt(s, i - 1)
  BY <1>3 DEF Bare, Metas, Gt
<1>5. ~Operates(s, i)
  <2> DEFINE n == Row(s, i - 1)
  <2>1. n \in Nat /\ Row(s, i) = n + 1
    <3>1. i - 1 \in Nat \ {0}
      BY <1>1, <1>3
    <3>2. /\ Row(s, i - 1) \in Nat
          /\ Row(s, i - 1 + 1) = IF Gt(s, i - 1) THEN Row(s, i - 1) + 1 ELSE 0
      BY <3>1, RowFollows
    <3> QED  BY <1>1, <1>4, <3>2
  <2>2. n % 2 = 0
    BY <1>3, <1>4 DEF Operates
  <2> HIDE DEF n
  <2>3. (n + 1) % 2 = 1
    BY <2>1, <2>2
  <2>4. Gt(s, i)
    BY <1>3, <1>4 DEF Gt
  <2> QED  BY <2>1, <2>3, <2>4 DEF Operates
<1>6. InMode(new, s, i)
  BY <1>2, <1>3 DEF InMode, ModeOf
<1>7. Skips(new, s, i)
  BY <1>2, <1>5 DEF Skips
<1>8. Reads(new, s, i)
  BY <1>2, <1>3, <1>4 DEF Reads, Agrees
<1>9. Found(new, s, i)
  <2>1. Closed(s, i - 1) = Closed(s, i - 1 - 1)
    BY <1>1, <1>3, ClosesNone
  <2>2. Operations(s, i) = Operations(s, i - 1)
    BY <1>5, OperationsFollow
  <2>3. \A n \in 1..(i - 1) : n \in 1..i
    BY <1>1
  <2> QED  BY <1>2, <1>3, <2>1, <2>2, <2>3 DEF Found, Agrees
<1> QED  BY <1>6, <1>7, <1>8, <1>9 DEF Agrees, new

-----------------------------------------------------------------------------
(* The other runes, by what the scanner does with them. *)

\* ex is the scanner sc after a rune at i that adds text to its word.
Extends(ex, sc, i, text) ==
    /\ ex \in Scanner /\ ex.tokens = sc.tokens /\ ex.text = sc.text \o text
    /\ ex.column = IF sc.started THEN sc.column ELSE i
    /\ ex.started = TRUE /\ ex.quote = sc.quote /\ ex.escaping = sc.escaping
    /\ ex.skip = sc.skip

\* What Extend changes.
LEMMA ExtendFields ==
    ASSUME NEW s \in Words, NEW i \in 1..Len(s), NEW sc \in Scanner, Agrees(sc, s, i - 1),
           NEW text \in Words
    PROVE  Extends(Extend(sc, i, text), sc, i, text)
<1> DEFINE c == IF sc.column = 0 THEN i ELSE sc.column
           all == sc.text \o text
           ex == [sc EXCEPT !.column = c, !.started = TRUE, !.text = all]
<1>1. Len(s) \in Nat /\ i - 1 \in 0..Len(s)
  BY DEF Words
<1>2. Extend(sc, i, text) = ex
  BY DEF Extend
<1>3. ColumnsIn(sc, Len(s))
  BY <1>1, AgreesFits
<1>4. ex \in Scanner
  BY <1>1, <1>2, <1>3, ExtendKeeps
<1>5. c = IF sc.started THEN sc.column ELSE i
  BY <1>3, ComesTo DEF ColumnsIn
<1> HIDE DEF c, all
<1>6. /\ ex.tokens = sc.tokens /\ ex.text = all /\ ex.column = c /\ ex.started = TRUE
      /\ ex.quote = sc.quote /\ ex.escaping = sc.escaping /\ ex.skip = sc.skip
  BY DEF Scanner
<1> HIDE DEF ex
<1> QED  BY <1>2, <1>4, <1>5, <1>6 DEF all, Extends

\* An escaped rune.
LEMMA ReadsEscaped ==
    ASSUME NEW s \in Words, NEW i \in 1..Len(s), NEW sc \in Scanner, Agrees(sc, s, i - 1),
           ~sc.skip, sc.escaping
    PROVE  Agrees([sc EXCEPT !.text = @ \o EscapeSequence(s[i], sc.quote),
                             !.escaping = FALSE], s, i)
<1> DEFINE text == sc.text \o EscapeSequence(s[i], sc.quote)
           new == [sc EXCEPT !.text = text, !.escaping = FALSE]
<1>1. s[i] \in Runes /\ Len(s) \in Nat
  BY RunesAre DEF Words
<1>2. text \in Words
  <2>1. sc.text \in Words
    BY ScannerFields
  <2>2. EscapeSequence(s[i], sc.quote) \in Words
    BY <1>1, RunesAreTexts DEF EscapeSequence, Words
  <2> QED  BY <2>1, <2>2 DEF Words
<1> HIDE DEF text
<1>3. new \in Scanner
  BY <1>2 DEF Scanner
<1>4. /\ new.tokens = sc.tokens /\ new.text = text /\ new.column = sc.column
      /\ new.started = sc.started /\ new.quote = sc.quote /\ new.escaping = FALSE
      /\ new.skip = sc.skip
  BY DEF Scanner
<1> HIDE DEF new
<1>5. /\ sc.started /\ sc.quote # "sq"
      /\ Modes(s)[i] = IF sc.quote = "dq" THEN "dqesc" ELSE "esc"
      /\ Modes(s)[i + 1] = IF sc.quote = "dq" THEN "dq" ELSE "bare"
  BY ComesTo DEF ModeOf, After
<1>6. ~Bare(s, i)
  BY <1>5, BareRunes
<1>7. sc.quote \in {NoQuote, "dq"}
  BY <1>5, ScannerFields
<1>8. Meaning(s, i) = EscapeSequence(s[i], sc.quote)
  <2>1. s[i] \in {"n", "$", "%"} <=> s[i] \notin Spaces \cup Metas \cup {"dq", "sq", "bs"}
    BY <1>1 DEF Runes, Spaces, Metas
  <2>2. CASE sc.quote = "dq"
    BY <1>5, <2>2 DEF Meaning, EscapeSequence
  <2>3. CASE sc.quote = NoQuote
    <3>1. Modes(s)[i] = "esc"
      BY <1>5, <2>3 DEF NoQuote
    <3>2. Meaning(s, i) = IF s[i] \in {"n", "$", "%"} THEN <<"bs", s[i]>> ELSE <<s[i]>>
      BY <3>1 DEF Meaning
    <3> QED  BY <2>1, <2>3, <3>2 DEF EscapeSequence, NoQuote
  <2> QED  BY <1>7, <2>2, <2>3
<1>9. InMode(new, s, i)
  BY <1>4, <1>5, <1>7 DEF InMode, ModeOf, NoQuote
<1>10. TextSoFar(new, s, i) = sc.text \o Meaning(s, i)
  BY <1>4, <1>8 DEF TextSoFar, text
<1>11. Agrees(new, s, i)
  BY <1>3, <1>4, <1>5, <1>6, <1>9, <1>10, WordGoesOn
<1> QED  BY <1>11 DEF new, text

\* A backslash, but not in single quotes.
LEMMA ReadsBackslash ==
    ASSUME NEW s \in Words, NEW i \in 1..Len(s), NEW sc \in Scanner, Agrees(sc, s, i - 1),
           ~sc.skip, ~sc.escaping, s[i] = "bs", sc.quote # "sq"
    PROVE  Agrees([Extend(sc, i, <<>>) EXCEPT !.escaping = TRUE], s, i)
<1> DEFINE ex == Extend(sc, i, <<>>)
           new == [ex EXCEPT !.escaping = TRUE]
<1>1. sc.text \in Words /\ sc.text \o <<>> = sc.text /\ <<>> \in Words
  BY ScannerFields, RunesAreTexts DEF Words
<1>0. Extends(ex, sc, i, <<>>)
  BY <1>1, ExtendFields
<1> HIDE DEF ex
<1>2. /\ ex \in Scanner /\ ex.tokens = sc.tokens /\ ex.text = sc.text \o <<>>
      /\ ex.column = IF sc.started THEN sc.column ELSE i
      /\ ex.started = TRUE /\ ex.quote = sc.quote /\ ex.escaping = sc.escaping
      /\ ex.skip = sc.skip
  BY <1>0 DEF Extends
<1>3. /\ new \in Scanner
      /\ new.tokens = ex.tokens /\ new.text = ex.text /\ new.column = ex.column
      /\ new.started = ex.started /\ new.quote = ex.quote /\ new.escaping = TRUE
      /\ new.skip = ex.skip
  BY <1>2 DEF Scanner
<1> HIDE DEF new
<1>4. sc.quote \in {NoQuote, "dq"}
  BY ScannerFields
<1>5. /\ Modes(s)[i] = IF sc.quote = "dq" THEN "dq" ELSE "bare"
      /\ Modes(s)[i + 1] = IF sc.quote = "dq" THEN "dqesc" ELSE "esc"
  BY <1>4, ComesTo DEF ModeOf, After, NoQuote
<1>6. ~Bare(s, i)
  BY BareRunes DEF Spaces, Metas
<1>7. InMode(new, s, i)
  BY <1>2, <1>3, <1>4, <1>5 DEF InMode, ModeOf, NoQuote
<1>8. TextSoFar(new, s, i) = sc.text \o Meaning(s, i)
  <2>1. i <= Len(s) /\ Len(s) \in Nat
    BY DEF Words
  <2>2. Append(sc.text, "bs") = sc.text \o <<"bs">>
    BY <1>1, RunesAreTexts, AppendIsConcat DEF Words
  <2>3. CASE sc.quote = "dq"
    <3>1. Meaning(s, i) = <<>>
      BY <1>5, <2>3 DEF Meaning
    <3> QED  BY <1>1, <1>2, <1>3, <2>3, <3>1 DEF TextSoFar, NoQuote
  <2>4. CASE sc.quote = NoQuote
    <3>1. Meaning(s, i) = IF i < Len(s) THEN <<>> ELSE <<"bs">>
      BY <1>5, <2>4 DEF Meaning, NoQuote
    <3>2. TextSoFar(new, s, i) = IF i = Len(s) THEN Append(sc.text, "bs") ELSE sc.text
      BY <1>2, <1>3, <2>4 DEF TextSoFar
    <3>3. CASE i = Len(s)
      <4>1. Meaning(s, i) = <<"bs">>
        BY <3>1, <3>3
      <4>2. TextSoFar(new, s, i) = Append(sc.text, "bs")
        BY <3>2, <3>3
      <4> QED  BY <2>2, <4>1, <4>2
    <3>4. CASE i # Len(s)
      <4>1. i < Len(s)
        BY <2>1, <3>4
      <4> QED  BY <1>1, <3>1, <3>2, <3>4, <4>1
    <3> QED  BY <3>3, <3>4
  <2> QED  BY <1>4, <2>3, <2>4
<1>9. Agrees(new, s, i)
  BY <1>2, <1>3, <1>6, <1>7, <1>8, WordGoesOn
<1> QED  BY <1>9 DEF new, ex

\* A quote that opens.
LEMMA ReadsOpening ==
    ASSUME NEW s \in Words, NEW i \in 1..Len(s), NEW sc \in Scanner, Agrees(sc, s, i - 1),
           ~sc.skip, ~sc.escaping, s[i] \in {"dq", "sq"}, sc.quote = NoQuote
    PROVE  Agrees([Extend(sc, i, <<>>) EXCEPT !.quote = s[i]], s, i)
<1> DEFINE ex == Extend(sc, i, <<>>)
           new == [ex EXCEPT !.quote = s[i]]
<1>1. sc.text \in Words /\ sc.text \o <<>> = sc.text /\ <<>> \in Words
  BY ScannerFields, RunesAreTexts DEF Words
<1>0. Extends(ex, sc, i, <<>>)
  BY <1>1, ExtendFields
<1> HIDE DEF ex
<1>2. /\ ex \in Scanner /\ ex.tokens = sc.tokens /\ ex.text = sc.text \o <<>>
      /\ ex.column = IF sc.started THEN sc.column ELSE i
      /\ ex.started = TRUE /\ ex.quote = sc.quote /\ ex.escaping = sc.escaping
      /\ ex.skip = sc.skip
  BY <1>0 DEF Extends
<1>3. /\ new \in Scanner
      /\ new.tokens = ex.tokens /\ new.text = ex.text /\ new.column = ex.column
      /\ new.started = ex.started /\ new.quote = s[i] /\ new.escaping = ex.escaping
      /\ new.skip = ex.skip
  BY <1>2 DEF Scanner
<1> HIDE DEF new
<1>4. Modes(s)[i] = "bare" /\ Modes(s)[i + 1] = s[i]
  BY ComesTo DEF ModeOf, After
<1>5. ~Bare(s, i)
  BY BareRunes DEF Spaces, Metas
<1>6. InMode(new, s, i)
  BY <1>2, <1>3, <1>4 DEF InMode, ModeOf, NoQuote
<1>7. Meaning(s, i) = <<>>
  BY <1>4 DEF Meaning
<1>8. TextSoFar(new, s, i) = sc.text \o Meaning(s, i)
  BY <1>1, <1>2, <1>3, <1>7 DEF TextSoFar
<1>9. Agrees(new, s, i)
  BY <1>2, <1>3, <1>5, <1>6, <1>8, WordGoesOn
<1> QED  BY <1>9 DEF new, ex

\* A quote that closes.
LEMMA ReadsClosing ==
    ASSUME NEW s \in Words, NEW i \in 1..Len(s), NEW sc \in Scanner, Agrees(sc, s, i - 1),
           ~sc.skip, ~sc.escaping, s[i] \in {"dq", "sq"}, sc.quote = s[i]
    PROVE  Agrees([sc EXCEPT !.quote = NoQuote], s, i)
<1> DEFINE new == [sc EXCEPT !.quote = NoQuote]
<1>1. sc.text \in Words /\ sc.text \o <<>> = sc.text
  BY ScannerFields DEF Words
<1>2. /\ new \in Scanner
      /\ new.tokens = sc.tokens /\ new.text = sc.text /\ new.column = sc.column
      /\ new.started = sc.started /\ new.quote = NoQuote /\ new.escaping = sc.escaping
      /\ new.skip = sc.skip
  BY DEF Scanner
<1> HIDE DEF new
<1>3. sc.started /\ Modes(s)[i] = s[i] /\ Modes(s)[i + 1] = "bare"
  BY ComesTo DEF ModeOf, After, NoQuote
<1>4. ~Bare(s, i)
  BY BareRunes DEF Spaces, Metas
<1>5. InMode(new, s, i)
  BY <1>2, <1>3 DEF InMode, ModeOf
<1>6. Meaning(s, i) = <<>>
  BY <1>3 DEF Meaning
<1>7. TextSoFar(new, s, i) = sc.text \o Meaning(s, i)
  BY <1>1, <1>2, <1>6 DEF TextSoFar
<1>8. Agrees(new, s, i)
  BY <1>2, <1>3, <1>4, <1>5, <1>7, WordGoesOn
<1> QED  BY <1>8 DEF new

\* A rune that stands for itself.
LEMMA ReadsRune ==
    ASSUME NEW s \in Words, NEW i \in 1..Len(s), NEW sc \in Scanner, Agrees(sc, s, i - 1),
           ~sc.skip, ~sc.escaping, s[i] = "bs" => sc.quote = "sq",
           s[i] \in {"dq", "sq"} => sc.quote \notin {NoQuote, s[i]},
           s[i] \in Spaces \cup Metas => sc.quote # NoQuote
    PROVE  Agrees(Extend(sc, i, <<s[i]>>), s, i)
<1> DEFINE new == Extend(sc, i, <<s[i]>>)
<1>1. <<s[i]>> \in Words
  BY RunesAre, RunesAreTexts
<1>0. Extends(new, sc, i, <<s[i]>>)
  BY <1>1, ExtendFields
<1> HIDE DEF new
<1>2. /\ new \in Scanner /\ new.tokens = sc.tokens /\ new.text = sc.text \o <<s[i]>>
      /\ new.column = IF sc.started THEN sc.column ELSE i
      /\ new.started = TRUE /\ new.quote = sc.quote /\ new.escaping = sc.escaping
      /\ new.skip = sc.skip
  BY <1>0 DEF Extends
<1>3. sc.quote \in {NoQuote, "dq", "sq"}
  BY ScannerFields
<1>4. /\ Modes(s)[i] = IF sc.quote = NoQuote THEN "bare" ELSE sc.quote
      /\ Modes(s)[i + 1] = Modes(s)[i]
  BY <1>3, ComesTo DEF ModeOf, After, NoQuote
<1>5. ~Bare(s, i)
  <2>1. CASE sc.quote = NoQuote
    BY <2>1, BareRunes
  <2>2. CASE sc.quote # NoQuote
    BY <1>3, <1>4, <2>2, BareRunes DEF NoQuote
  <2> QED  BY <2>1, <2>2
<1>6. InMode(new, s, i)
  BY <1>2, <1>3, <1>4 DEF InMode, ModeOf
<1>7. Meaning(s, i) = <<s[i]>>
  BY <1>3, <1>4 DEF Meaning, NoQuote
<1>8. TextSoFar(new, s, i) = sc.text \o Meaning(s, i)
  BY <1>2, <1>7 DEF TextSoFar
<1>9. Agrees(new, s, i)
  BY <1>2, <1>5, <1>6, <1>8, WordGoesOn
<1> QED  BY <1>9 DEF new

\* Of ">"s in a row, the one that was not passed over is an operator.
LEMMA OperatesHere ==
    ASSUME NEW s \in Words, NEW i \in 1..Len(s), NEW sc \in Scanner, Agrees(sc, s, i - 1),
           ~sc.skip, Bare(s, i), s[i] \in Metas
    PROVE  Operates(s, i)
<1>1. Len(s) \in Nat /\ i - 1 + 1 = i /\ i - 1 < Len(s) /\ i \in Nat
  BY DEF Words
<1>2. CASE ~Gt(s, i)
  BY <1>2 DEF Operates
<1>3. CASE Gt(s, i) /\ i = 1
  <2>1. Row(s, 1) = 0
    BY RowFollows
  <2> QED  BY <1>3, <2>1 DEF Operates
<1>4. CASE Gt(s, i) /\ i # 1
  <2> DEFINE n == Row(s, i - 1)
  <2>1. i - 1 \in Nat \ {0} /\ s[i] = ">"
    BY <1>1, <1>4 DEF Gt
  <2>2. n \in Nat /\ Row(s, i) = IF Gt(s, i - 1) THEN n + 1 ELSE 0
    <3>1. /\ Row(s, i - 1) \in Nat
          /\ Row(s, i - 1 + 1) = IF Gt(s, i - 1) THEN Row(s, i - 1) + 1 ELSE 0
      BY <2>1, RowFollows
    <3> QED  BY <1>1, <3>1
  <2>3. Gt(s, i - 1) => n % 2 # 0
    <3>1. ~(Operates(s, i - 1) /\ s[i - 1] = ">")
      BY <1>1, <2>1 DEF Agrees, Skips
    <3> QED  BY <3>1 DEF Operates, Gt, Metas
  <2> HIDE DEF n
  <2>4. n % 2 # 0 => (n + 1) % 2 = 0
    BY <2>2
  <2>5. Row(s, i) % 2 = 0
    BY <2>2, <2>3, <2>4
  <2> QED  BY <2>5 DEF Operates
<1> QED  BY <1>2, <1>3, <1>4

\* The word before a blank or an operator is complete.
LEMMA FlushesHere ==
    ASSUME NEW s \in Words, NEW i \in 1..Len(s), NEW sc \in Scanner, Agrees(sc, s, i - 1),
           Bare(s, i), ~sc.escaping
    PROVE  Flushed(Flush(sc), s, i - 1)
<1>1. Len(s) \in Nat /\ i - 1 + 1 = i /\ i - 1 # Len(s) /\ i - 1 \in 0..Len(s)
  BY DEF Words
<1>2. sc.text = TextSoFar(sc, s, i - 1)
  BY <1>1 DEF TextSoFar
<1>3. Reads(sc, s, i - 1) /\ Found(sc, s, i - 1)
  BY DEF Agrees
<1> QED  BY <1>1, <1>2, <1>3, FlushAgrees

\* What Flush leaves alone.
LEMMA FlushFields ==
    ASSUME NEW sc \in Scanner, NEW n \in Nat, ColumnsIn(sc, n)
    PROVE  /\ Flush(sc) \in Scanner
           /\ Flush(sc).skip = sc.skip /\ Flush(sc).quote = sc.quote
           /\ Flush(sc).escaping = sc.escaping
<1>1. Flush(sc) \in Scanner
  BY FlushKeeps
<1>2. CASE sc.started
  <2> DEFINE new == Append(sc.tokens, [value |-> sc.text, column |-> sc.column])
             done == [sc EXCEPT !.tokens = new, !.text = <<>>, !.column = 0, !.started = FALSE]
  <2>1. Flush(sc) = done
    BY <1>2 DEF Flush
  <2> HIDE DEF new
  <2>2. done.skip = sc.skip /\ done.quote = sc.quote /\ done.escaping = sc.escaping
    BY DEF Scanner
  <2> HIDE DEF done
  <2> QED  BY <1>1, <2>1, <2>2
<1>3. CASE ~sc.started
  BY <1>3 DEF Flush
<1> QED  BY <1>1, <1>2, <1>3

\* An operator.
LEMMA ReadsOperator ==
    ASSUME NEW s \in Words, NEW i \in 1..Len(s), NEW sc \in Scanner, Agrees(sc, s, i - 1),
           ~sc.skip, ~sc.escaping, sc.quote = NoQuote, s[i] \in Metas
    PROVE  Agrees(Operator(Flush(sc), s, i), s, i)
<1> DEFINE fl == Flush(sc)
           double == s[i] = ">" /\ i < Len(s) /\ s[i + 1] = ">"
           t == [value |-> IF double THEN <<">", ">">> ELSE <<s[i]>>, column |-> i]
           tokens == Append(fl.tokens, t)
           new == [fl EXCEPT !.tokens = tokens, !.skip = double]
<1>1. Len(s) \in Nat /\ i \in Nat \ {0} /\ s[i] \in Runes
  BY RunesAre DEF Words
<1>2. Modes(s)[i] = "bare" /\ Modes(s)[i + 1] = "bare"
  BY ComesTo DEF ModeOf, After, Metas
<1>3. Bare(s, i)
  BY <1>2 DEF Bare
<1>4. Operates(s, i)
  BY <1>3, OperatesHere
<1>0. ColumnsIn(sc, Len(s)) /\ i - 1 \in 0..Len(s)
  BY <1>1, AgreesFits
<1>5. Flushed(fl, s, i - 1)
  BY <1>3, FlushesHere
<1>6. fl \in Scanner /\ fl.quote = NoQuote /\ fl.escaping = FALSE
  BY <1>1, <1>0, FlushFields, ScannerFields
<1>7. Operator(fl, s, i) = new
  BY DEF Operator
<1> HIDE DEF fl
<1>8. t = OperatorToken(s, i) /\ t.column = i
  BY DEF OperatorToken
<1>9. t \in Token
  <2>1. <<s[i]>> \in Words /\ <<">", ">">> \in Words
    BY <1>1, RunesAreTexts DEF Words, Runes, Metas
  <2> QED  BY <1>1, <2>1 DEF Token
<1>10. double \in BOOLEAN
  OBVIOUS
<1>11. fl.tokens \in Seq(Token) /\ tokens = Append(fl.tokens, t)
  BY <1>6, ScannerFields
<1> HIDE DEF t
<1>12. /\ InOrder(fl.tokens) /\ \A k \in DOMAIN fl.tokens : fl.tokens[k].column \in 1..(i - 1)
       /\ \A k \in DOMAIN fl.tokens : fl.tokens[k].column < t.column
       /\ ToSet(fl.tokens) = TokensOf(s, Closed(s, i - 1), Operations(s, i - 1))
       /\ fl.started = FALSE /\ fl.column = 0 /\ fl.text = <<>>
  BY <1>1, <1>5, <1>6, <1>8, ScannerFields DEF Flushed
<1> HIDE DEF tokens, double
<1>13. Added(tokens, fl.tokens, t)
  BY <1>9, <1>11, <1>12, AddToken
<1>14. InOrder(tokens) /\ ToSet(tokens) = ToSet(fl.tokens) \cup {t}
  BY <1>13 DEF Added
<1>15. \A k \in DOMAIN tokens : (k \in DOMAIN fl.tokens /\ tokens[k] = fl.tokens[k]) \/ tokens[k] = t
  BY <1>13 DEF Added
<1>16. /\ new.tokens = tokens /\ new.skip = double /\ new.started = FALSE /\ new.column = 0
       /\ new.text = <<>> /\ new.quote = NoQuote /\ new.escaping = FALSE
  BY <1>6, <1>12 DEF Scanner
<1> HIDE DEF new
<1>17. InMode(new, s, i)
  BY <1>2, <1>16 DEF InMode, ModeOf
<1>18. Skips(new, s, i)
  BY <1>1, <1>4, <1>16 DEF Skips, double
<1>19. Reads(new, s, i)
  BY <1>1, <1>3, <1>16 DEF Reads
<1>20. Found(new, s, i)
  <2>1. Operations(s, i) = Operations(s, i - 1) \cup {i}
    BY <1>1, <1>4, OperationsFollow
  <2>2. ToSet(tokens) = TokensOf(s, Closed(s, i - 1), Operations(s, i))
    BY <1>8, <1>12, <1>14, <2>1 DEF TokensOf
  <2>3. \A k \in DOMAIN tokens : tokens[k].column \in 1..i
    BY <1>1, <1>8, <1>12, <1>15
  <2> QED  BY <1>14, <1>16, <2>2, <2>3 DEF Found
<1>21. Agrees(new, s, i)
  BY <1>17, <1>18, <1>19, <1>20 DEF Agrees
<1> QED  BY <1>7, <1>21 DEF fl

\* A blank.
LEMMA ReadsBlank ==
    ASSUME NEW s \in Words, NEW i \in 1..Len(s), NEW sc \in Scanner, Agrees(sc, s, i - 1),
           ~sc.skip, ~sc.escaping, sc.quote = NoQuote, s[i] \in Spaces
    PROVE  Agrees(Flush(sc), s, i)
<1> DEFINE fl == Flush(sc)
<1>1. Len(s) \in Nat /\ i \in Nat \ {0}
  BY DEF Words
<1>2. Modes(s)[i] = "bare" /\ Modes(s)[i + 1] = "bare"
  BY ComesTo DEF ModeOf, After, Spaces
<1>3. Bare(s, i)
  BY <1>2 DEF Bare
<1>4. ~Operates(s, i)
  BY DEF Operates, Spaces, Metas
<1>0. ColumnsIn(sc, Len(s)) /\ i - 1 \in 0..Len(s)
  BY <1>1, AgreesFits
<1>5. Flushed(fl, s, i - 1)
  BY <1>3, FlushesHere
<1>6. fl \in Scanner /\ fl.quote = NoQuote /\ fl.escaping = FALSE /\ fl.skip = FALSE
  BY <1>1, <1>0, FlushFields, ScannerFields
<1> HIDE DEF fl
<1>7. fl.started = FALSE
  BY <1>5, <1>6, ScannerFields DEF Flushed
<1>8. InMode(fl, s, i)
  BY <1>2, <1>6 DEF InMode, ModeOf
<1>9. Skips(fl, s, i)
  BY <1>4, <1>6 DEF Skips
<1>10. Reads(fl, s, i)
  BY <1>3, <1>5, <1>7 DEF Reads, Flushed
<1>11. Found(fl, s, i)
  <2>1. Operations(s, i) = Operations(s, i - 1)
    BY <1>1, <1>4, OperationsFollow
  <2>2. \A n : n \in 1..(i - 1) => n \in 1..i
    BY <1>1
  <2> QED  BY <1>5, <1>7, <2>1, <2>2 DEF Found, Flushed
<1>12. Agrees(fl, s, i)
  BY <1>8, <1>9, <1>10, <1>11 DEF Agrees
<1> QED  BY <1>12 DEF fl

-----------------------------------------------------------------------------
(* The whole line. *)

\* Before the first rune there is nothing.
LEMMA StartAgrees ==
    ASSUME NEW s \in Words
    PROVE  Agrees(StartScan, s, 0)
<1>1. Modes(s)[0 + 1] = "bare"
  BY ModesFollow
<1>2. /\ StartScan.tokens = <<>> /\ StartScan.text = <<>> /\ StartScan.column = 0
      /\ StartScan.quote = NoQuote /\ ~StartScan.escaping /\ ~StartScan.started
      /\ ~StartScan.skip
  BY DEF StartScan
<1>3. Closed(s, 0 - 1) = {} /\ Operations(s, 0) = {}
  BY DEF Closed, Operations
<1>4. ToSet(<<>>) = {} /\ InOrder(<<>>) /\ \A k \in DOMAIN <<>> : FALSE
  BY DEF ToSet, InOrder
<1>5. InMode(StartScan, s, 0)
  BY <1>1, <1>2 DEF InMode, ModeOf
<1>6. Skips(StartScan, s, 0)
  BY <1>2 DEF Skips
<1>7. Reads(StartScan, s, 0)
  BY <1>2 DEF Reads
<1>8. Found(StartScan, s, 0)
  BY <1>2, <1>3, <1>4 DEF Found, TokensOf
<1> QED  BY <1>5, <1>6, <1>7, <1>8 DEF Agrees

\* One turn of the loop.
LEMMA AcceptAgrees ==
    ASSUME NEW s \in Words, NEW i \in 1..Len(s), NEW sc \in Scanner, Agrees(sc, s, i - 1)
    PROVE  Agrees(Accept(sc, s, i), s, i)
<1> DEFINE r == s[i]
           escaped == [sc EXCEPT !.text = @ \o EscapeSequence(r, sc.quote), !.escaping = FALSE]
           backslash == [Extend(sc, i, <<>>) EXCEPT !.escaping = TRUE]
           opening == [Extend(sc, i, <<>>) EXCEPT !.quote = r]
           closing == [sc EXCEPT !.quote = NoQuote]
           passed == [sc EXCEPT !.skip = FALSE]
<1>1. Accept(sc, s, i) =
        IF sc.skip THEN passed
        ELSE IF sc.escaping THEN escaped
        ELSE IF r = "bs" /\ sc.quote # "sq" THEN backslash
        ELSE IF r \in {"dq", "sq"} /\ sc.quote = NoQuote THEN opening
        ELSE IF r \in {"dq", "sq"} /\ sc.quote = r THEN closing
        ELSE IF r \in Metas /\ sc.quote = NoQuote THEN Operator(Flush(sc), s, i)
        ELSE IF r \in Spaces /\ sc.quote = NoQuote THEN Flush(sc)
        ELSE Extend(sc, i, <<r>>)
  BY DEF Accept
<1>2. sc.skip => Agrees(passed, s, i)
  BY PassedOver
<1>3. ~sc.skip /\ sc.escaping => Agrees(escaped, s, i)
  BY ReadsEscaped
<1>4. ~sc.skip /\ ~sc.escaping /\ r = "bs" /\ sc.quote # "sq" => Agrees(backslash, s, i)
  BY ReadsBackslash
<1>5. ~sc.skip /\ ~sc.escaping /\ r \in {"dq", "sq"} /\ sc.quote = NoQuote
        => Agrees(opening, s, i)
  BY ReadsOpening
<1>6. ~sc.skip /\ ~sc.escaping /\ r \in {"dq", "sq"} /\ sc.quote = r => Agrees(closing, s, i)
  BY ReadsClosing
<1>7. ~sc.skip /\ ~sc.escaping /\ r \in Metas /\ sc.quote = NoQuote
        => Agrees(Operator(Flush(sc), s, i), s, i)
  BY ReadsOperator
<1>8. ~sc.skip /\ ~sc.escaping /\ r \in Spaces /\ sc.quote = NoQuote => Agrees(Flush(sc), s, i)
  BY ReadsBlank
<1>9. ~sc.skip /\ ~sc.escaping /\ (r = "bs" => sc.quote = "sq")
        /\ (r \in {"dq", "sq"} => sc.quote \notin {NoQuote, r})
        /\ (r \in Spaces \cup Metas => sc.quote # NoQuote)
        => Agrees(Extend(sc, i, <<r>>), s, i)
  BY ReadsRune
<1> HIDE DEF escaped, backslash, opening, closing, passed, r
<1> QED  BY <1>1, <1>2, <1>3, <1>4, <1>5, <1>6, <1>7, <1>8, <1>9

\* The tokens of the reference are the words and operators of the whole line.
LEMMA ReferenceIsFound ==
    ASSUME NEW s \in Words
    PROVE  ReferenceTokens(s) = TokensOf(s, Closed(s, Len(s)), Operations(s, Len(s)))
<1>1. Len(s) \in Nat /\ DOMAIN s = 1..Len(s)
  BY DEF Words
<1>2. \A j \in 1..Len(s) : Begins(s, j) => Ends(s, j) <= Len(s)
  BY <1>1, EndsExist DEF Begins, IsEnd
<1>3. Closed(s, Len(s)) = {j \in DOMAIN s : Begins(s, j)}
  BY <1>1, <1>2 DEF Closed
<1>4. Operations(s, Len(s)) = {j \in DOMAIN s : Operates(s, j)}
  BY <1>1 DEF Operations
<1> QED  BY <1>3, <1>4 DEF ReferenceTokens, TokensOf

\* After the last rune.
LEMMA EndAgrees ==
    ASSUME NEW s \in Words, NEW sc \in Scanner, Agrees(sc, s, Len(s)), sc.quote = NoQuote
    PROVE  /\ Modes(s)[Len(s) + 1] \in {"bare", "esc"}
           /\ ToSet(AtEnd(sc).tokens) = ReferenceTokens(s)
           /\ InOrder(AtEnd(sc).tokens)
<1> DEFINE text == Append(sc.text, "bs")
           last == [sc EXCEPT !.text = text, !.escaping = FALSE]
           fl == IF sc.escaping THEN last ELSE sc
<1>1. Len(s) \in 0..Len(s)
  BY DEF Words
<1>2. AtEnd(sc) = Flush(fl)
  BY DEF AtEnd
<1>3. text \in Words
  BY ScannerFields, RunesAreTexts DEF Words
<1> HIDE DEF text
<1>4. last \in Scanner
  BY <1>3 DEF Scanner
<1>5. /\ last.tokens = sc.tokens /\ last.started = sc.started /\ last.column = sc.column
      /\ last.text = text
  BY DEF Scanner
<1> HIDE DEF last
<1>6. /\ fl \in Scanner /\ fl.tokens = sc.tokens /\ fl.started = sc.started
      /\ fl.column = sc.column /\ fl.text = TextSoFar(sc, s, Len(s))
  BY <1>4, <1>5 DEF TextSoFar, text
<1> HIDE DEF fl
<1>7. /\ Reads(sc, s, Len(s)) /\ Found(sc, s, Len(s)) /\ (sc.escaping => sc.started)
      /\ Modes(s)[Len(s) + 1] = ModeOf(sc)
  BY DEF Agrees, InMode
<1>8. Flushed(Flush(fl), s, Len(s))
  BY <1>1, <1>6, <1>7, FlushAgrees
<1>9. Modes(s)[Len(s) + 1] \in {"bare", "esc"}
  BY <1>7 DEF ModeOf, NoQuote
<1> QED  BY <1>2, <1>8, <1>9, ReferenceIsFound DEF Flushed

-----------------------------------------------------------------------------
(* The invariant and its theorem. *)

\* While the line is read, the scanner agrees with what it has read.
ReadInv == phase = "scan" => Agrees(scan, raw, next - 1)

TokenInv == ReadInv /\ TokensAgree

\* The empty line has no tokens.
LEMMA InitAgrees == Init => TokenInv
<1> SUFFICES ASSUME Init
             PROVE  TokenInv
  OBVIOUS
<1>1. /\ raw \in Words /\ scan = StartScan /\ next - 1 = 0
      /\ phase = IF raw = <<>> THEN "done" ELSE "scan"
  BY InitInv DEF Init, IInv, TypeOK
<1>2. Agrees(scan, raw, next - 1)
  BY <1>1, StartAgrees
<1>3. ASSUME phase = "done"
      PROVE  /\ Modes(raw)[Len(raw) + 1] \in {"bare", "esc"}
             /\ ToSet(scan.tokens) = ReferenceTokens(raw)
             /\ InOrder(scan.tokens)
  <2>1. Len(raw) = 0
    BY <1>1, <1>3
  <2>2. scan \in Scanner /\ scan.quote = NoQuote /\ AtEnd(scan) = scan
    BY <1>1, InitInv DEF IInv, TypeOK, AtEnd, Flush, StartScan
  <2>3. Agrees(scan, raw, Len(raw))
    BY <1>1, <1>2, <2>1
  <2> QED  BY <1>1, <2>2, <2>3, EndAgrees
<1>4. phase \in {"scan", "done"}
  BY <1>1
<1> QED  BY <1>2, <1>3, <1>4 DEF TokenInv, ReadInv, TokensAgree

\* A rune is read.
LEMMA ScanAgrees ==
    ASSUME IInv, TokenInv, ScanRune
    PROVE  TokenInv'
<1>1. /\ raw \in Words /\ next \in 1..Len(raw) /\ scan \in Scanner
      /\ raw' = raw /\ scan' = Accept(scan, raw, next) /\ next' - 1 = next
      /\ phase = "scan" /\ phase' = "scan"
  BY DEF ScanRune, IInv, TypeOK, Words
<1>2. Agrees(scan, raw, next - 1)
  BY <1>1 DEF TokenInv, ReadInv
<1>3. Agrees(Accept(scan, raw, next), raw, next)
  BY <1>1, <1>2, AcceptAgrees
<1> QED  BY <1>1, <1>3 DEF TokenInv, ReadInv, TokensAgree

\* A quote is open after the last rune.
LEMMA UnclosedAgrees ==
    ASSUME IInv, TokenInv, UnclosedQuote
    PROVE  TokenInv'
<1>0. raw \in Words /\ scan \in Scanner /\ next \in 1..(Len(raw) + 1) /\ Len(raw) \in Nat
  BY DEF IInv, TypeOK, Words
<1>1. /\ scan \in Scanner /\ next - 1 = Len(raw) /\ raw' = raw /\ scan' = scan
      /\ phase = "scan" /\ phase' = "error" /\ scan.quote # NoQuote
  BY <1>0 DEF UnclosedQuote, Fail
<1>2. /\ Modes(raw)[Len(raw) + 1] = ModeOf(scan)
      /\ scan.escaping => scan.quote # "sq"
  BY <1>1 DEF TokenInv, ReadInv, Agrees, InMode
<1>3. ModeOf(scan) \in {"sq", "dq", "dqesc"}
  BY <1>1, <1>2, ScannerFields DEF ModeOf
<1> QED  BY <1>1, <1>2, <1>3 DEF TokenInv, ReadInv, TokensAgree

\* Every quote is closed after the last rune.
LEMMA EndScanAgrees ==
    ASSUME IInv, TokenInv, EndScan
    PROVE  TokenInv'
<1>0. raw \in Words /\ scan \in Scanner /\ next \in 1..(Len(raw) + 1) /\ Len(raw) \in Nat
  BY DEF IInv, TypeOK, Words
<1>1. /\ raw \in Words /\ scan \in Scanner /\ next - 1 = Len(raw) /\ raw' = raw
      /\ scan' = AtEnd(scan) /\ phase = "scan" /\ phase' = "parse" /\ scan.quote = NoQuote
  BY <1>0 DEF EndScan
<1>2. Agrees(scan, raw, Len(raw))
  BY <1>1 DEF TokenInv, ReadInv
<1>3. /\ Modes(raw)[Len(raw) + 1] \in {"bare", "esc"}
      /\ ToSet(AtEnd(scan).tokens) = ReferenceTokens(raw)
      /\ InOrder(AtEnd(scan).tokens)
  BY <1>1, <1>2, EndAgrees
<1> QED  BY <1>1, <1>3 DEF TokenInv, ReadInv, TokensAgree

\* The steps that read tokens leave the scanner as it is.
LEMMA ParseAgrees ==
    ASSUME IInv, TokenInv, Pipe \/ Redirect \/ Ampersand \/ Word \/ EndParse
    PROVE  TokenInv'
<1>1. /\ raw' = raw /\ scan' = scan /\ phase = "parse"
      /\ phase' \in {"parse", "done", "error"}
  BY DEF Pipe, Redirect, Ampersand, Word, EndParse, ReadToken, Fail, FlushCommand
<1>2. scan.quote = NoQuote
  BY <1>1 DEF IInv, ParseInv
<1> QED  BY <1>1, <1>2 DEF TokenInv, ReadInv, TokensAgree

\* The scanner agrees with the reference in every state.
LEMMA TokenInvariance == Spec => []TokenInv
<1>1. IInv /\ TokenInv /\ [Next]_vars => TokenInv'
  <2> SUFFICES ASSUME IInv, TokenInv, [Next]_vars
               PROVE  TokenInv'
    OBVIOUS
  <2>1. CASE UNCHANGED vars
    BY <2>1 DEF vars, TokenInv, ReadInv, TokensAgree
  <2> QED  BY <2>1, ScanAgrees, UnclosedAgrees, EndScanAgrees, ParseAgrees DEF Next
<1> QED  BY <1>1, InitAgrees, Invariance, PTL DEF Spec

\* The scanner finds the tokens of the line, with their quotes and escapes resolved and
\* the columns where they start, and refuses a line whose last quote is open: reading
\* the runes one after another comes to what the reference defines at once (tokenize).
THEOREM TokensAreTheReference == Spec => []TokensAgree
<1>1. TokenInv => TokensAgree
  BY DEF TokenInv
<1> QED  BY <1>1, TokenInvariance, PTL

\* What the parser takes for an operator, by the value of the token, is one that stands
\* in the line neither quoted nor escaped, as long as no word of the line spells one.
OperatorsStandOut ==
    /\ phase \in {"parse", "done"}
    /\ \A i \in DOMAIN raw : Begins(raw, i) => WordToken(raw, i).value \notin Operators
    => \A k \in DOMAIN scan.tokens :
         Value(k) \in Operators <=> Operates(raw, scan.tokens[k].column)

THEOREM OperatorsAreOperators == Spec => []OperatorsStandOut
<1>1. TokensAgree => OperatorsStandOut
  <2> SUFFICES ASSUME TokensAgree, phase \in {"parse", "done"},
                      \A i \in DOMAIN raw :
                        Begins(raw, i) => WordToken(raw, i).value \notin Operators,
                      NEW k \in DOMAIN scan.tokens
               PROVE  Value(k) \in Operators <=> Operates(raw, scan.tokens[k].column)
    BY DEF OperatorsStandOut
  <2>1. scan.tokens[k] \in ReferenceTokens(raw)
    BY DEF TokensAgree, ToSet
  <2>2. CASE \E i \in DOMAIN raw : Begins(raw, i) /\ scan.tokens[k] = WordToken(raw, i)
    <3>1. PICK i \in DOMAIN raw : Begins(raw, i) /\ scan.tokens[k] = WordToken(raw, i)
      BY <2>2
    <3>2. scan.tokens[k].column = i /\ Value(k) \notin Operators
      BY <3>1 DEF WordToken, Value
    <3>3. ~Operates(raw, i)
      BY <3>1 DEF Begins, Operates
    <3> QED  BY <3>2, <3>3
  <2>3. CASE \E i \in DOMAIN raw : Operates(raw, i) /\ scan.tokens[k] = OperatorToken(raw, i)
    <3>1. PICK i \in DOMAIN raw : Operates(raw, i) /\ scan.tokens[k] = OperatorToken(raw, i)
      BY <2>3
    <3>2. scan.tokens[k].column = i /\ Value(k) \in {<<">", ">">>, <<raw[i]>>}
      BY <3>1 DEF OperatorToken, Value
    <3>3. <<raw[i]>> \in Operators /\ <<">", ">">> \in Operators
      BY <3>1 DEF Operates, Metas, Operators, Redirects
    <3> QED  BY <3>1, <3>2, <3>3
  <2> QED  BY <2>1, <2>2, <2>3 DEF ReferenceTokens
<1> QED  BY <1>1, TokensAreTheReference, PTL

-----------------------------------------------------------------------------
(* Places in a joined sequence. *)

\* Induction from zero, for a set of numbers.
LEMMA FromZero ==
    ASSUME NEW n \in Nat, NEW P, 0 \in P, \A i \in 1..n : i - 1 \in P => i \in P
    PROVE  \A i \in 0..n : i \in P
<1>1. \A i \in 1..n : (i # 1 => i - 1 \in P) => i \in P
  OBVIOUS
<1>2. \A i \in 1..n : i \in P
  BY <1>1, OneByOne
<1>3. \A i \in 0..n : i = 0 \/ i \in 1..n
  OBVIOUS
<1> QED  BY <1>2, <1>3

\* t is in s, after the first o elements.
IsAt(s, o, t) == o + Len(t) <= Len(s) /\ \A j \in 1..Len(t) : s[o + j] = t[j]

\* What is joined of two parts has them one after the other.
LEMMA JoinedAt ==
    ASSUME NEW S, NEW s \in Seq(S), NEW o \in Nat, NEW t \in Seq(S), NEW u \in Seq(S),
           IsAt(s, o, t \o u)
    PROVE  IsAt(s, o, t) /\ IsAt(s, o + Len(t), u)
<1> DEFINE a == Len(t)
           b == Len(u)
           tu == t \o u
<1>1. a \in Nat /\ b \in Nat /\ Len(tu) = a + b /\ Len(s) \in Nat
  OBVIOUS
<1>2. \A j \in 1..a : tu[j] = t[j] /\ j \in 1..(a + b)
  BY <1>1
<1>3. \A j \in 1..b : tu[a + j] = u[j] /\ a + j \in 1..(a + b) /\ o + a + j = o + (a + j)
  BY <1>1
<1>4. o + (a + b) <= Len(s) /\ \A j \in 1..(a + b) : s[o + j] = tu[j]
  BY <1>1 DEF IsAt
<1> HIDE DEF tu
<1>5. o + a <= Len(s) /\ o + a + b <= Len(s)
  BY <1>1, <1>4
<1>6. \A j \in 1..a : s[o + j] = t[j]
  BY <1>2, <1>4
<1>7. \A j \in 1..b : s[o + a + j] = u[j]
  BY <1>3, <1>4
<1> QED  BY <1>5, <1>6, <1>7 DEF IsAt

\* e[i] is where the piece i ends.
Places(e, s, o, seqs) ==
    /\ e \in [0..Len(seqs) -> Nat]
    /\ e[0] = o
    /\ \A i \in 1..Len(seqs) : e[i] = e[i - 1] + Len(seqs[i]) /\ IsAt(s, e[i - 1], seqs[i])

\* The pieces of a joined sequence are in it one after the other.
LEMMA PiecesAt ==
    ASSUME NEW S, NEW s \in Seq(S), NEW o \in Nat, NEW seqs \in Seq(Seq(S)),
           IsAt(s, o, FlattenSeq(seqs))
    PROVE  \E e : Places(e, s, o, seqs) /\ e[Len(seqs)] = o + Len(FlattenSeq(seqs))
<1> DEFINE n == Len(seqs)
<1>1. n \in Nat /\ Len(s) \in Nat /\ \A i \in 1..n : seqs[i] \in Seq(S) /\ Len(seqs[i]) \in Nat
  OBVIOUS
<1>2. CASE n = 0
  <2> DEFINE e == [i \in 0..n |-> o]
  <2>1. Len(FlattenSeq(seqs)) = 0
    BY <1>2 DEF FlattenSeq
  <2>2. Places(e, s, o, seqs) /\ e[n] = o
    BY <1>2 DEF Places
  <2> QED  BY <2>1, <2>2
<1>3. CASE n # 0
  <2>1. PICK f \in [1..n -> Seq(S)] :
          /\ \A i \in 1..n : f[i] = IF i = 1 THEN seqs[1] ELSE f[i - 1] \o seqs[i]
          /\ FlattenSeq(seqs) = f[n]
    BY <1>3, FlattenUnfolds, Zenon
  <2> DEFINE P == {k \in 0..n : IsAt(s, o, f[n - k]) \/ k = n}
             e == [i \in 0..n |-> IF i = 0 THEN o ELSE o + Len(f[i])]
  <2>2. \A k \in 1..n : k - 1 \in P => k \in P
    <3> SUFFICES ASSUME NEW k \in 1..n, k - 1 \in P, k # n
                 PROVE  k \in P
      OBVIOUS
    <3> DEFINE i == n - (k - 1)
    <3>1. i \in 1..n /\ i # 1 /\ n - k = i - 1 /\ i - 1 \in 1..n /\ k - 1 # n /\ k \in 0..n
      BY <1>1
    <3>2. IsAt(s, o, f[i])
      BY <3>1
    <3> HIDE DEF i
    <3>3. f[i] = f[i - 1] \o seqs[i] /\ f[i - 1] \in Seq(S) /\ seqs[i] \in Seq(S)
      BY <1>1, <2>1, <3>1
    <3>4. IsAt(s, o, f[i - 1] \o seqs[i])
      BY <3>2, <3>3
    <3>5. IsAt(s, o, f[i - 1])
      BY <3>3, <3>4, JoinedAt
    <3> QED  BY <3>1, <3>5
  <2>3. 0 \in P
    BY <1>1, <2>1
  <2>4. \A i \in 1..n : IsAt(s, o, f[i])
    <3>1. \A k \in 0..n : k \in P
      <4> HIDE DEF P, n
      <4> QED  BY <1>1, <2>2, <2>3, FromZero
    <3> SUFFICES ASSUME NEW i \in 1..n
                 PROVE  IsAt(s, o, f[i])
      OBVIOUS
    <3>2. n - i \in 0..n /\ n - (n - i) = i /\ n - i # n
      BY <1>1
    <3>3. n - i \in P
      BY <3>1, <3>2
    <3> QED  BY <3>2, <3>3
  <2> HIDE DEF P
  <2>5. \A i \in 1..n : f[i] \in Seq(S) /\ Len(f[i]) \in Nat
    <3> SUFFICES ASSUME NEW i \in 1..n
                 PROVE  f[i] \in Seq(S) /\ Len(f[i]) \in Nat
      OBVIOUS
    <3>1. f[i] \in Seq(S)
      BY <2>1
    <3> QED  BY <3>1
  <2>6. e \in [0..n -> Nat] /\ e[0] = o /\ e[n] = o + Len(FlattenSeq(seqs))
    BY <1>1, <1>3, <2>1, <2>5
  <2>7. \A i \in 1..n : e[i] = e[i - 1] + Len(seqs[i]) /\ IsAt(s, e[i - 1], seqs[i])
    <3> SUFFICES ASSUME NEW i \in 1..n
                 PROVE  e[i] = e[i - 1] + Len(seqs[i]) /\ IsAt(s, e[i - 1], seqs[i])
      OBVIOUS
    <3>1. CASE i = 1
      <4>3. 1 \in 1..n /\ 0 \in 0..n /\ 1 \in 0..n /\ 1 # 0
        BY <1>1, <3>1
      <4>4. f[1] = seqs[1]
        BY <2>1, <4>3
      <4>5. e[0] = o /\ e[1] = o + Len(f[1])
        <5> HIDE DEF n
        <5> QED  BY <4>3
      <4> HIDE DEF e
      <4>1. f[1] = seqs[1] /\ e[0] = o /\ e[1] = o + Len(f[1])
        BY <4>4, <4>5
      <4>2. IsAt(s, o, f[1])
        BY <2>4, <3>1
      <4> QED  BY <3>1, <4>1, <4>2
    <3>2. CASE i # 1
      <4> HIDE DEF e
      <4>1. i - 1 \in 1..n /\ i - 1 # 0 /\ i # 0
        BY <1>1, <3>2
      <4>2. /\ f[i] = f[i - 1] \o seqs[i] /\ f[i - 1] \in Seq(S) /\ seqs[i] \in Seq(S)
            /\ Len(f[i - 1]) \in Nat /\ Len(seqs[i]) \in Nat
        BY <1>1, <2>1, <2>5, <3>2, <4>1
      <4>3. Len(f[i]) = Len(f[i - 1]) + Len(seqs[i])
        BY <4>2
      <4>4. e[i] = o + Len(f[i]) /\ e[i - 1] = o + Len(f[i - 1])
        BY <1>1, <4>1 DEF e
      <4>5. IsAt(s, o, f[i - 1] \o seqs[i])
        BY <2>4, <4>2
      <4>6. IsAt(s, o + Len(f[i - 1]), seqs[i])
        BY <4>2, <4>5, JoinedAt
      <4>7. \A a, b \in Nat : o + (a + b) = o + a + b
        OBVIOUS
      <4>8. e[i] = e[i - 1] + Len(seqs[i])
        BY <4>2, <4>3, <4>4, <4>7
      <4> QED  BY <4>4, <4>6, <4>8
    <3> QED  BY <3>1, <3>2
  <2> HIDE DEF e
  <2>8. Places(e, s, o, seqs)
    BY <2>6, <2>7 DEF Places
  <2> QED  BY <2>6, <2>8
<1> QED  BY <1>2, <1>3

-----------------------------------------------------------------------------
(* Reading a text from its first rune. *)

\* read[i] is the scanner after i runes of s.
ReadsAll(read, s) ==
    /\ read[0] = StartScan
    /\ \A i \in 1..Len(s) : read[i] = Accept(read[i - 1], s, i)
    /\ \A i \in 0..Len(s) : read[i] \in Scanner /\ Agrees(read[i], s, i)

ValuesOf(tokens) == [k \in DOMAIN tokens |-> tokens[k].value]

\* The scanner that Tokenize runs has agreed with the text all along.
LEMMA TokenizeReads ==
    ASSUME NEW s \in Words
    PROVE  \E read : ReadsAll(read, s) /\ Tokenize(s) = ValuesOf(AtEnd(read[Len(s)]).tokens)
<1> DEFINE n == Len(s)
           A == {sc \in Scanner : ColumnsIn(sc, n)}
           F == [p \in A \X (1..(n + 1)) |-> IF p[2] = 1 THEN StartScan
                                             ELSE Accept(p[1], s, p[2] - 1)]
           read[i \in 0..n] == IF i = 0 THEN StartScan ELSE Accept(read[i - 1], s, i)
<1>1. n \in Nat
  BY DEF Words
<1>2. StartScan \in A
  <2>1. StartScan \in Scanner
    BY RunesAreTexts DEF StartScan, Scanner, NoQuote
  <2>2. ColumnsIn(StartScan, n)
    BY <1>1, <2>1, AgreesFits, StartAgrees
  <2> QED  BY <2>1, <2>2
<1>3. \A sc \in A, i \in 1..n : Accept(sc, s, i) \in A
  BY AcceptKeeps
<1>4. F \in [A \X (1..(n + 1)) -> A]
  <2>1. \A p \in A \X (1..(n + 1)) : p[1] \in A /\ (p[2] # 1 => p[2] - 1 \in 1..n)
    BY <1>1
  <2> HIDE DEF A, n
  <2> QED  BY <1>2, <1>3, <2>1
<1>5. PICK f \in [1..(n + 1) -> A] : Iterates(f, n + 1, StartScan, F)
  <2> DEFINE m == n + 1
  <2>1. m \in Nat
    BY <1>1
  <2>2. F \in [A \X (1..m) -> A]
    BY <1>4
  <2> HIDE DEF F, A, m
  <2>3. \E f \in [1..m -> A] : Iterates(f, m, StartScan, F)
    BY <1>2, <2>1, <2>2, IterationExists
  <2> QED  BY <2>3 DEF m
<1> DEFINE g == [i \in 0..n |-> f[i + 1]]
<1>6. \A i \in 0..n : g[i] \in A /\ g[i] = IF i = 0 THEN StartScan ELSE Accept(g[i - 1], s, i)
  <2> SUFFICES ASSUME NEW i \in 0..n
               PROVE  g[i] \in A /\ g[i] = IF i = 0 THEN StartScan ELSE Accept(g[i - 1], s, i)
    OBVIOUS
  <2> DEFINE j == i + 1
  <2>1. j \in 1..(n + 1) /\ j - 1 = i /\ g[i] = f[j] /\ (j = 1 <=> i = 0)
    BY <1>1
  <2>2. i # 0 => i \in 1..(n + 1) /\ i - 1 \in 0..n /\ g[i - 1] = f[i]
    BY <1>1
  <2> HIDE DEF g, j, A, F
  <2>3. f[j] \in A /\ f[j] = IF j = 1 THEN StartScan ELSE F[<<f[j - 1], j>>]
    BY <1>5, <2>1 DEF Iterates
  <2>4. i # 0 => f[i] \in A
    BY <1>5, <2>2
  <2>5. i # 0 => F[<<f[i], j>>] = Accept(f[i], s, i)
    BY <2>1, <2>4 DEF F
  <2> QED  BY <2>1, <2>2, <2>3, <2>5
<1>7. read = [i \in 0..n |-> IF i = 0 THEN StartScan ELSE Accept(read[i - 1], s, i)]
  <2>1. g = [i \in 0..n |-> IF i = 0 THEN StartScan ELSE Accept(g[i - 1], s, i)]
    <3>1. g = [i \in 0..n |-> g[i]]
      OBVIOUS
    <3> HIDE DEF g, A
    <3> QED  BY <1>6, <3>1
  <2> HIDE DEF n, g, F, A
  <2> QED  BY <2>1
<1>8. Tokenize(s) = ValuesOf(AtEnd(read[n]).tokens)
  BY DEF Tokenize, ValuesOf, read
<1> HIDE DEF read, F, g
<1>9. read[0] = StartScan /\ \A i \in 1..n : read[i] = Accept(read[i - 1], s, i)
  <2>1. 0 \in 0..n /\ \A i \in 1..n : i \in 0..n /\ i # 0
    BY <1>1
  <2> HIDE DEF n
  <2> QED  BY <1>7, <2>1
<1> DEFINE P == {i \in 0..n : read[i] \in Scanner /\ Agrees(read[i], s, i)}
<1>10. 0 \in P
  BY <1>1, <1>2, <1>9, StartAgrees
<1>11. \A i \in 1..n : i - 1 \in P => i \in P
  <2> SUFFICES ASSUME NEW i \in 1..n, i - 1 \in P
               PROVE  i \in P
    OBVIOUS
  <2> DEFINE sc == read[i - 1]
  <2>1. i - 1 \in 0..n /\ i \in 0..n /\ sc \in Scanner /\ Agrees(sc, s, i - 1)
    BY <1>1
  <2>2. read[i] = Accept(sc, s, i)
    BY <1>9
  <2> HIDE DEF sc
  <2>3. Agrees(Accept(sc, s, i), s, i)
    BY <2>1, AcceptAgrees
  <2>4. ColumnsIn(sc, n)
    BY <2>1, AgreesFits
  <2>5. Accept(sc, s, i) \in Scanner
    BY <2>1, <2>4, AcceptKeeps
  <2> QED  BY <2>1, <2>2, <2>3, <2>5
<1>12. \A i \in 0..n : i \in P
  <2> HIDE DEF P, n
  <2> QED  BY <1>1, <1>10, <1>11, FromZero
<1>13. ReadsAll(read, s)
  BY <1>9, <1>12 DEF ReadsAll
<1> QED  BY <1>8, <1>13

-----------------------------------------------------------------------------
(* What the scanner sc has of some values: the first m are tokens, and of the *)
(* next one, w, it has the first j runes.                                     *)

HasText(text, w, j) == Len(text) = j /\ \A k \in 1..j : text[k] = w[k]

Has(sc, values, m, w, j, started, quote) ==
    /\ sc.skip = FALSE /\ sc.escaping = FALSE /\ sc.started = started /\ sc.quote = quote
    /\ Len(sc.tokens) = m /\ \A k \in 1..m : sc.tokens[k].value = values[k]
    /\ HasText(sc.text, w, j)

\* One rune more.
LEMMA TextGrows ==
    ASSUME NEW text \in Words, NEW w, NEW j \in Nat, HasText(text, w, j)
    PROVE  HasText(text \o <<w[j + 1]>>, w, j + 1)
<1> DEFINE r == w[j + 1]
           new == text \o <<r>>
<1>1. Len(text) = j /\ \A k \in 1..j : text[k] = w[k]
  BY DEF HasText
<1>2. Len(new) = j + 1 /\ new[j + 1] = r /\ \A k \in 1..j : new[k] = text[k]
  BY <1>1 DEF Words
<1>3. \A k \in 1..(j + 1) : k \in 1..j \/ k = j + 1
  OBVIOUS
<1> HIDE DEF new
<1>4. HasText(new, w, j + 1)
  BY <1>1, <1>2, <1>3 DEF HasText
<1> QED  BY <1>4 DEF new

\* A text that has all of w is w.
LEMMA TextIsWhole ==
    ASSUME NEW text \in Words, NEW w \in Words, HasText(text, w, Len(w))
    PROVE  text = w
BY DEF HasText, Words

\* A rune that stands for itself.
LEMMA HasRune ==
    ASSUME NEW s \in Words, NEW i \in 1..Len(s), NEW sc \in Scanner, Agrees(sc, s, i - 1),
           NEW values, NEW m \in Nat, NEW w, NEW j \in Nat, NEW started,
           NEW quote \in {NoQuote, "dq"}, Has(sc, values, m, w, j, started, quote),
           s[i] = w[j + 1], s[i] \notin {"bs", "dq"},
           quote = NoQuote => s[i] \notin Spaces \cup Metas \cup {"sq"}
    PROVE  Has(Accept(sc, s, i), values, m, w, j + 1, TRUE, quote)
<1> DEFINE ex == Extend(sc, i, <<s[i]>>)
<1>1. /\ sc.skip = FALSE /\ sc.escaping = FALSE /\ sc.started = started /\ sc.quote = quote
      /\ Len(sc.tokens) = m /\ \A k \in 1..m : sc.tokens[k].value = values[k]
      /\ HasText(sc.text, w, j)
  BY DEF Has
<1>2. Accept(sc, s, i) = ex
  BY <1>1 DEF Accept, NoQuote
<1>3. <<s[i]>> \in Words /\ sc.text \in Words
  BY RunesAre, RunesAreTexts, ScannerFields
<1>4. Extends(ex, sc, i, <<s[i]>>)
  BY <1>3, ExtendFields
<1> HIDE DEF ex
<1>5. HasText(ex.text, w, j + 1)
  BY <1>1, <1>3, <1>4, TextGrows DEF Extends
<1>6. Has(ex, values, m, w, j + 1, TRUE, quote)
  BY <1>1, <1>4, <1>5 DEF Has, Extends
<1> QED  BY <1>2, <1>6

\* The quote before the value.
LEMMA HasOpening ==
    ASSUME NEW s \in Words, NEW i \in 1..Len(s), NEW sc \in Scanner, Agrees(sc, s, i - 1),
           NEW values, NEW m \in Nat, NEW w, NEW j \in Nat, NEW started,
           Has(sc, values, m, w, j, started, NoQuote), s[i] = "dq"
    PROVE  Has(Accept(sc, s, i), values, m, w, j, TRUE, "dq")
<1> DEFINE ex == Extend(sc, i, <<>>)
           new == [ex EXCEPT !.quote = s[i]]
<1>1. /\ sc.skip = FALSE /\ sc.escaping = FALSE /\ sc.started = started /\ sc.quote = NoQuote
      /\ Len(sc.tokens) = m /\ \A k \in 1..m : sc.tokens[k].value = values[k]
      /\ HasText(sc.text, w, j)
  BY DEF Has
<1>2. Accept(sc, s, i) = new
  BY <1>1 DEF Accept
<1>3. sc.text \in Words /\ <<>> \in Words /\ sc.text \o <<>> = sc.text
  BY RunesAreTexts, ScannerFields DEF Words
<1>4. Extends(ex, sc, i, <<>>)
  BY <1>3, ExtendFields
<1> HIDE DEF ex
<1>5. /\ ex \in Scanner /\ ex.tokens = sc.tokens /\ ex.text = sc.text /\ ex.started = TRUE
      /\ ex.escaping = sc.escaping /\ ex.skip = sc.skip
  BY <1>3, <1>4 DEF Extends
<1>6. /\ new.tokens = ex.tokens /\ new.text = ex.text /\ new.started = ex.started
      /\ new.escaping = ex.escaping /\ new.skip = ex.skip /\ new.quote = "dq"
  BY <1>5 DEF Scanner
<1> HIDE DEF new
<1>7. Has(new, values, m, w, j, TRUE, "dq")
  BY <1>1, <1>5, <1>6 DEF Has
<1> QED  BY <1>2, <1>7

\* The quote after the value.
LEMMA HasClosing ==
    ASSUME NEW s \in Words, NEW i \in 1..Len(s), NEW sc \in Scanner,
           NEW values, NEW m \in Nat, NEW w, NEW j \in Nat,
           Has(sc, values, m, w, j, TRUE, "dq"), s[i] = "dq"
    PROVE  Has(Accept(sc, s, i), values, m, w, j, TRUE, NoQuote)
<1> DEFINE new == [sc EXCEPT !.quote = NoQuote]
<1>1. /\ sc.skip = FALSE /\ sc.escaping = FALSE /\ sc.started = TRUE /\ sc.quote = "dq"
      /\ Len(sc.tokens) = m /\ \A k \in 1..m : sc.tokens[k].value = values[k]
      /\ HasText(sc.text, w, j)
  BY DEF Has
<1>2. Accept(sc, s, i) = new
  BY <1>1 DEF Accept, NoQuote
<1>3. /\ new.tokens = sc.tokens /\ new.text = sc.text /\ new.started = sc.started
      /\ new.escaping = sc.escaping /\ new.skip = sc.skip /\ new.quote = NoQuote
  BY DEF Scanner
<1> HIDE DEF new
<1>4. Has(new, values, m, w, j, TRUE, NoQuote)
  BY <1>1, <1>3 DEF Has
<1> QED  BY <1>2, <1>4

\* A backslash in double quotes and the rune after it.
LEMMA HasEscaped ==
    ASSUME NEW s \in Words, NEW i \in 1..Len(s), NEW sc \in Scanner, Agrees(sc, s, i - 1),
           NEW values, NEW m \in Nat, NEW w, NEW j \in Nat, NEW started,
           Has(sc, values, m, w, j, started, "dq"), s[i] = "bs",
           EscapeSequence(s[i + 1], "dq") = <<w[j + 1]>>
    PROVE  Has(Accept(Accept(sc, s, i), s, i + 1), values, m, w, j + 1, TRUE, "dq")
<1> DEFINE ex == Extend(sc, i, <<>>)
           between == [ex EXCEPT !.escaping = TRUE]
           text == between.text \o EscapeSequence(s[i + 1], between.quote)
           new == [between EXCEPT !.text = text, !.escaping = FALSE]
<1>1. /\ sc.skip = FALSE /\ sc.escaping = FALSE /\ sc.started = started /\ sc.quote = "dq"
      /\ Len(sc.tokens) = m /\ \A k \in 1..m : sc.tokens[k].value = values[k]
      /\ HasText(sc.text, w, j)
  BY DEF Has
<1>2. Accept(sc, s, i) = between
  BY <1>1 DEF Accept
<1>3. sc.text \in Words /\ <<>> \in Words /\ sc.text \o <<>> = sc.text
  BY RunesAreTexts, ScannerFields DEF Words
<1>4. Extends(ex, sc, i, <<>>)
  BY <1>3, ExtendFields
<1> HIDE DEF ex
<1>5. /\ ex \in Scanner /\ ex.tokens = sc.tokens /\ ex.text = sc.text /\ ex.started = TRUE
      /\ ex.quote = sc.quote /\ ex.skip = sc.skip
  BY <1>3, <1>4 DEF Extends
<1>6. /\ between \in Scanner
      /\ between.tokens = ex.tokens /\ between.text = ex.text /\ between.started = ex.started
      /\ between.skip = ex.skip /\ between.quote = ex.quote /\ between.escaping = TRUE
  BY <1>5 DEF Scanner
<1> HIDE DEF between
<1>7. Accept(between, s, i + 1) = new
  BY <1>1, <1>5, <1>6 DEF Accept
<1>8. text = sc.text \o <<w[j + 1]>>
  BY <1>1, <1>5, <1>6
<1> HIDE DEF text
<1>9. HasText(text, w, j + 1)
  BY <1>1, <1>3, <1>8, TextGrows
<1>10. /\ new.tokens = between.tokens /\ new.text = text /\ new.started = between.started
       /\ new.escaping = FALSE /\ new.skip = between.skip /\ new.quote = between.quote
  BY <1>6 DEF Scanner
<1> HIDE DEF new
<1>11. Has(new, values, m, w, j + 1, TRUE, "dq")
  BY <1>1, <1>5, <1>6, <1>9, <1>10 DEF Has
<1> QED  BY <1>2, <1>7, <1>11

\* The value is complete: it becomes the next token.
LEMMA HasToken ==
    ASSUME NEW sc \in Scanner, NEW values, NEW m \in Nat, NEW w \in Words, w = values[m + 1],
           Has(sc, values, m, w, Len(w), TRUE, NoQuote), NEW after
    PROVE  Has(Flush(sc), values, m + 1, after, 0, FALSE, NoQuote)
<1> DEFINE t == [value |-> sc.text, column |-> sc.column]
           new == Append(sc.tokens, t)
           done == [sc EXCEPT !.tokens = new, !.text = <<>>, !.column = 0, !.started = FALSE]
<1>1. /\ sc.skip = FALSE /\ sc.escaping = FALSE /\ sc.started = TRUE /\ sc.quote = NoQuote
      /\ Len(sc.tokens) = m /\ \A k \in 1..m : sc.tokens[k].value = values[k]
      /\ HasText(sc.text, w, Len(w))
  BY DEF Has
<1>2. Flush(sc) = done
  BY <1>1 DEF Flush
<1>3. t.value = w
  BY <1>1, ScannerFields, TextIsWhole
<1>4. sc.tokens \in Seq(Token)
  BY ScannerFields
<1> HIDE DEF t
<1>5. Len(new) = m + 1 /\ new[m + 1] = t /\ \A k \in 1..m : new[k] = sc.tokens[k]
  BY <1>1, <1>4
<1> HIDE DEF new
<1>6. \A k \in 1..(m + 1) : k \in 1..m \/ k = m + 1
  OBVIOUS
<1>7. \A k \in 1..(m + 1) : new[k].value = values[k]
  BY <1>1, <1>3, <1>5, <1>6
<1>8. /\ done.tokens = new /\ done.text = <<>> /\ done.started = FALSE
      /\ done.escaping = sc.escaping /\ done.skip = sc.skip /\ done.quote = sc.quote
  BY DEF Scanner
<1> HIDE DEF done
<1>9. HasText(<<>>, after, 0)
  BY DEF HasText
<1>10. Has(done, values, m + 1, after, 0, FALSE, NoQuote)
  BY <1>1, <1>5, <1>7, <1>8, <1>9 DEF Has
<1> QED  BY <1>2, <1>10

\* The blank between two values.
LEMMA HasBlank ==
    ASSUME NEW s \in Words, NEW i \in 1..Len(s), s[i] = "sp", NEW sc \in Scanner,
           NEW values, NEW m \in Nat, NEW w \in Words, w = values[m + 1],
           Has(sc, values, m, w, Len(w), TRUE, NoQuote), NEW after
    PROVE  Has(Accept(sc, s, i), values, m + 1, after, 0, FALSE, NoQuote)
<1>1. Accept(sc, s, i) = Flush(sc)
  BY DEF Accept, Has, Spaces, Metas
<1> QED  BY <1>1, HasToken

-----------------------------------------------------------------------------
(* Words as QuoteForRaw writes them. *)

\* A word without quotes is read rune by rune.
LEMMA HasPlain ==
    ASSUME NEW s \in Words, NEW read, ReadsAll(read, s), NEW o \in Nat,
           NEW values, NEW m \in Nat, NEW w \in Words, w # <<>>, IsAt(s, o, w),
           \A k \in 1..Len(w) : w[k] \notin Metas \cup {"sp", "dq", "bs", "sq", "nl"},
           Has(read[o], values, m, w, 0, FALSE, NoQuote)
    PROVE  Has(read[o + Len(w)], values, m, w, Len(w), TRUE, NoQuote)
<1> DEFINE n == Len(w)
           P == {j \in 0..n : Has(read[o + j], values, m, w, j, j # 0, NoQuote)}
<1>1. n \in Nat /\ n # 0 /\ Len(s) \in Nat
  BY DEF Words
<1>2. 0 \in P
  <2>1. o + 0 = o /\ 0 \in 0..n /\ (0 # 0) = FALSE
    BY <1>1
  <2> QED  BY <2>1
<1>3. \A j \in 1..n : j - 1 \in P => j \in P
  <2> SUFFICES ASSUME NEW j \in 1..n, j - 1 \in P
               PROVE  j \in P
    OBVIOUS
  <2> DEFINE i == o + j
             h == j - 1
             sc == read[o + h]
  <2>1. i \in 1..Len(s) /\ i - 1 = o + h /\ o + h \in 0..Len(s) /\ h \in Nat /\ h + 1 = j
        /\ s[i] = w[j]
    BY <1>1 DEF IsAt
  <2>2. sc \in Scanner /\ Agrees(sc, s, i - 1) /\ read[i] = Accept(sc, s, i)
    <3> HIDE DEF i, h
    <3> QED  BY <2>1 DEF ReadsAll
  <2>3. Has(sc, values, m, w, h, h # 0, NoQuote)
    OBVIOUS
  <2>4. w[j] \notin Metas \cup {"sp", "dq", "bs", "sq", "nl"} /\ NoQuote \in {NoQuote, "dq"}
    OBVIOUS
  <2> HIDE DEF i, h, sc, P
  <2>5. Has(Accept(sc, s, i), values, m, w, h + 1, TRUE, NoQuote)
    <3>1. s[i] = w[h + 1] /\ s[i] \notin {"bs", "dq"} /\ s[i] \notin Spaces \cup Metas \cup {"sq"}
      BY <2>1, <2>4 DEF Spaces
    <3> QED  BY <2>1, <2>2, <2>3, <2>4, <3>1, HasRune
  <2>6. Has(read[i], values, m, w, j, TRUE, NoQuote)
    BY <2>1, <2>2, <2>5
  <2>7. (j # 0) = TRUE /\ j \in 0..n
    BY <1>1
  <2> QED  BY <2>6, <2>7 DEF P, i
<1>4. \A j \in 0..n : j \in P
  <2> HIDE DEF P, n
  <2> QED  BY <1>1, <1>2, <1>3, FromZero
<1>5. n \in P /\ (n # 0) = TRUE
  BY <1>1, <1>4
<1> QED  BY <1>5

\* How strconv.Quote writes a rune.
Escaped(r) == CASE r \in {"dq", "bs"} -> <<"bs", r>>
                [] r = "nl" -> <<"bs", "n">>
                [] OTHER -> <<r>>

\* It is read as the rune.
LEMMA HasQuotedRune ==
    ASSUME NEW s \in Words, NEW read, ReadsAll(read, s), NEW o \in Nat,
           NEW values, NEW m \in Nat, NEW w \in Words, NEW j \in 1..Len(w),
           IsAt(s, o, Escaped(w[j])), Has(read[o], values, m, w, j - 1, TRUE, "dq")
    PROVE  Has(read[o + Len(Escaped(w[j]))], values, m, w, j, TRUE, "dq")
<1> DEFINE r == w[j]
           h == j - 1
           i == o + 1
           sc == read[o]
<1>1. Len(s) \in Nat /\ h \in Nat /\ h + 1 = j /\ i - 1 = o /\ r \in Runes
  <2>1. Len(s) \in Nat /\ Len(w) \in Nat
    BY DEF Words
  <2>2. r \in Runes
    BY RunesAre
  <2> QED  BY <2>1, <2>2
<1>2. Has(sc, values, m, w, h, TRUE, "dq")
  OBVIOUS
<1> HIDE DEF r, h
<1>3. ASSUME Escaped(r) = <<r>>, r \notin {"bs", "dq"}
      PROVE  Has(read[o + Len(Escaped(r))], values, m, w, j, TRUE, "dq")
  <2>1. Len(<<r>>) = 1 /\ <<r>>[1] = r /\ 1 \in 1..Len(<<r>>)
    OBVIOUS
  <2>2. i \in 1..Len(s) /\ o \in 0..Len(s) /\ s[i] = r
    BY <1>1, <1>3, <2>1 DEF IsAt, r
  <2>3. sc \in Scanner /\ Agrees(sc, s, i - 1) /\ read[i] = Accept(sc, s, i)
    <3> HIDE DEF i
    <3> QED  BY <1>1, <2>2 DEF ReadsAll
  <2> HIDE DEF i, sc
  <2>4. s[i] = w[h + 1] /\ s[i] \notin {"bs", "dq"} /\ "dq" \in {NoQuote, "dq"} /\ "dq" # NoQuote
    BY <1>1, <1>3, <2>2 DEF r, NoQuote
  <2>5. Has(Accept(sc, s, i), values, m, w, h + 1, TRUE, "dq")
    BY <1>1, <1>2, <2>2, <2>3, <2>4, HasRune
  <2> QED  BY <1>1, <1>3, <2>1, <2>3, <2>5 DEF i
<1>4. ASSUME NEW x \in Runes, Escaped(r) = <<"bs", x>>, EscapeSequence(x, "dq") = <<r>>
      PROVE  Has(read[o + Len(Escaped(r))], values, m, w, j, TRUE, "dq")
  <2> DEFINE q == i + 1
  <2>1. Len(<<"bs", x>>) = 2 /\ <<"bs", x>>[1] = "bs" /\ <<"bs", x>>[2] = x
    OBVIOUS
  <2>2. i \in 1..Len(s) /\ q \in 1..Len(s) /\ q - 1 = i /\ o \in 0..Len(s) /\ o + 2 = q
        /\ s[i] = "bs" /\ s[q] = x
    BY <1>1, <1>4, <2>1 DEF IsAt, r
  <2>3. sc \in Scanner /\ Agrees(sc, s, i - 1) /\ read[i] = Accept(sc, s, i)
        /\ read[q] = Accept(read[i], s, q)
    <3> HIDE DEF i, q
    <3> QED  BY <1>1, <2>2 DEF ReadsAll
  <2>4. s[i + 1] = x /\ EscapeSequence(s[i + 1], "dq") = <<w[h + 1]>>
    BY <1>1, <1>4, <2>2 DEF r
  <2> HIDE DEF i, sc
  <2>5. Has(Accept(Accept(sc, s, i), s, i + 1), values, m, w, h + 1, TRUE, "dq")
    BY <1>1, <1>2, <2>2, <2>3, <2>4, HasEscaped
  <2>6. Has(read[q], values, m, w, j, TRUE, "dq")
    BY <1>1, <2>3, <2>5
  <2> HIDE DEF q
  <2> QED  BY <1>4, <2>1, <2>2, <2>6
<1>5. CASE r \in {"dq", "bs"}
  <2>1. Escaped(r) = <<"bs", r>> /\ EscapeSequence(r, "dq") = <<r>>
    BY <1>5 DEF Escaped, EscapeSequence
  <2> QED  BY <1>1, <1>4, <2>1 DEF r
<1>6. CASE r = "nl"
  <2>1. Escaped(r) = <<"bs", "n">> /\ EscapeSequence("n", "dq") = <<r>> /\ "n" \in Runes
    BY <1>6 DEF Escaped, EscapeSequence, Runes
  <2> QED  BY <1>4, <2>1 DEF r
<1>7. CASE r \notin {"dq", "bs", "nl"}
  <2>1. Escaped(r) = <<r>>
    BY <1>7 DEF Escaped
  <2> QED  BY <1>3, <1>7, <2>1 DEF r
<1> QED  BY <1>5, <1>6, <1>7

\* Each rune is written as a text.
LEMMA EscapedType ==
    ASSUME NEW r \in Runes
    PROVE  Escaped(r) \in Words
<1>1. CASE r \in {"dq", "bs"}
  BY <1>1, RunesAreTexts DEF Escaped
<1>2. CASE r = "nl"
  <2>1. Escaped(r) = <<"bs", "n">> /\ "n" \in Runes
    BY <1>2 DEF Escaped, Runes
  <2> QED  BY <2>1, RunesAreTexts
<1>3. CASE r \notin {"dq", "bs", "nl"}
  <2>1. Escaped(r) = <<r>>
    BY <1>3 DEF Escaped
  <2> QED  BY <2>1, RunesAreTexts
<1> QED  BY <1>1, <1>2, <1>3

EscapedRunes(w) == [k \in DOMAIN w |-> Escaped(w[k])]

\* A word in quotes is the runes of the word, each as it is written.
LEMMA QuoteIs ==
    ASSUME NEW w \in Words
    PROVE  /\ Quote(w) = <<"dq">> \o FlattenSeq(EscapedRunes(w)) \o <<"dq">>
           /\ EscapedRunes(w) \in Seq(Words) /\ Len(EscapedRunes(w)) = Len(w)
           /\ \A k \in 1..Len(w) : EscapedRunes(w)[k] = Escaped(w[k])
           /\ FlattenSeq(EscapedRunes(w)) \in Words /\ <<"dq">> \in Words
           /\ Quote(w) \in Words
<1>1. Quote(w) = <<"dq">> \o FlattenSeq(EscapedRunes(w)) \o <<"dq">>
  BY DEF Quote, EscapedRunes, Escaped
<1>2. DOMAIN w = 1..Len(w) /\ Len(w) \in Nat /\ \A k \in 1..Len(w) : w[k] \in Runes
  BY DEF Words
<1>3. \A k \in 1..Len(w) : Escaped(w[k]) \in Words
  BY <1>2, EscapedType
<1>4. /\ EscapedRunes(w) \in Seq(Words) /\ Len(EscapedRunes(w)) = Len(w)
      /\ \A k \in 1..Len(w) : EscapedRunes(w)[k] = Escaped(w[k])
  BY <1>2, <1>3 DEF EscapedRunes
<1>5. FlattenSeq(EscapedRunes(w)) \in Words
  BY <1>4, FlattenType DEF Words
<1>6. <<"dq">> \in Words
  BY RunesAreTexts DEF Runes
<1> DEFINE f == FlattenSeq(EscapedRunes(w))
<1> HIDE DEF f
<1>7. f \in Words => <<"dq">> \o f \o <<"dq">> \in Words
  BY <1>6 DEF Words
<1> QED  BY <1>1, <1>4, <1>5, <1>6, <1>7 DEF f

\* A sequence of one element and another one.
LEMMA JoinedLengths ==
    ASSUME NEW S, NEW one \in Seq(S), Len(one) = 1, NEW other \in Seq(S)
    PROVE  /\ one \o other \in Seq(S) /\ Len(one \o other) = 1 + Len(other)
           /\ other \o one \in Seq(S) /\ Len(other \o one) = Len(other) + 1
<1>1. one \o other \in Seq(S)
  BY ConcatProperties
<1>2. other \o one \in Seq(S)
  BY ConcatProperties
<1>3. Len(one \o other) = Len(one) + Len(other)
  BY ConcatProperties
<1>4. Len(other \o one) = Len(other) + Len(one)
  BY ConcatProperties
<1> QED  BY <1>1, <1>2, <1>3, <1>4

\* A word in quotes is read as the word.
LEMMA HasQuoted ==
    ASSUME NEW s \in Words, NEW read, ReadsAll(read, s), NEW o \in Nat,
           NEW values, NEW m \in Nat, NEW w \in Words, IsAt(s, o, Quote(w)),
           Has(read[o], values, m, w, 0, FALSE, NoQuote)
    PROVE  Has(read[o + Len(Quote(w))], values, m, w, Len(w), TRUE, NoQuote)
<1> DEFINE n == Len(w)
           dq == <<"dq">>
           pieces == EscapedRunes(w)
           inner == FlattenSeq(pieces)
           first == o + 1
           last == first + Len(inner)
<1>1. /\ n \in Nat /\ Len(s) \in Nat /\ s \in Seq(Runes) /\ dq \in Seq(Runes)
      /\ inner \in Seq(Runes) /\ Len(inner) \in Nat /\ Len(dq) = 1 /\ dq[1] = "dq"
      /\ pieces \in Seq(Seq(Runes)) /\ Len(pieces) = n
      /\ \A k \in 1..n : pieces[k] = Escaped(w[k])
      /\ Quote(w) = dq \o inner \o dq
  BY QuoteIs DEF Words
<1> HIDE DEF n, dq, pieces, inner
<1>2. /\ dq \o inner \in Seq(Runes) /\ Len(dq \o inner) = 1 + Len(inner)
      /\ Len(Quote(w)) = Len(inner) + 2
  <2> DEFINE di == dq \o inner
             did == di \o dq
  <2>1. di \in Seq(Runes) /\ Len(di) = 1 + Len(inner)
    BY <1>1, JoinedLengths
  <2> HIDE DEF di
  <2>2. Len(did) = Len(di) + 1
    BY <1>1, <2>1, JoinedLengths
  <2>3. Quote(w) = did
    BY <1>1 DEF di
  <2> HIDE DEF did
  <2>4. Len(Quote(w)) = Len(inner) + 2
    BY <1>1, <2>1, <2>2, <2>3
  <2> QED  BY <2>1, <2>4 DEF di
<1>3. IsAt(s, o, dq \o inner) /\ IsAt(s, o + Len(dq \o inner), dq)
  <2>1. IsAt(s, o, (dq \o inner) \o dq)
    BY <1>1
  <2> QED  BY <1>1, <1>2, <2>1, JoinedAt
<1>4. IsAt(s, o, dq) /\ IsAt(s, first, inner)
  BY <1>1, <1>3, JoinedAt
<1>5. /\ o \in 0..Len(s) /\ first \in 1..Len(s) /\ first - 1 = o /\ s[first] = "dq"
      /\ last \in Nat /\ o + Len(dq \o inner) = last
  <2>1. 1 \in 1..Len(dq)
    BY <1>1
  <2> QED  BY <1>1, <1>2, <1>4, <2>1 DEF IsAt
<1>6. last + 1 \in 1..Len(s) /\ s[last + 1] = "dq" /\ last \in 0..Len(s) /\ last + 1 - 1 = last
  <2>1. 1 \in 1..Len(dq) /\ IsAt(s, last, dq)
    BY <1>1, <1>3, <1>5
  <2> HIDE DEF last
  <2> QED  BY <1>1, <1>5, <2>1 DEF IsAt
<1> HIDE DEF first, last
<1>7. Has(read[first], values, m, w, 0, TRUE, "dq")
  <2> DEFINE sc == read[o]
  <2>1. sc \in Scanner /\ Agrees(sc, s, first - 1) /\ read[first] = Accept(sc, s, first)
    BY <1>5 DEF ReadsAll
  <2>2. Has(sc, values, m, w, 0, FALSE, NoQuote)
    OBVIOUS
  <2> HIDE DEF sc
  <2>3. Has(Accept(sc, s, first), values, m, w, 0, TRUE, "dq")
    BY <1>5, <2>1, <2>2, HasOpening
  <2> QED  BY <2>1, <2>3
<1>8. PICK e : Places(e, s, first, pieces) /\ e[Len(pieces)] = first + Len(FlattenSeq(pieces))
  <2>1. IsAt(s, first, FlattenSeq(pieces)) /\ first \in Nat
    BY <1>4, <1>5 DEF inner
  <2> QED  BY <1>1, <2>1, PiecesAt
<1>9. e[n] = last
  BY <1>1, <1>8 DEF last, inner
<1>10. /\ e \in [0..n -> Nat] /\ e[0] = first
       /\ \A i \in 1..n : /\ e[i] = e[i - 1] + Len(Escaped(w[i]))
                          /\ IsAt(s, e[i - 1], Escaped(w[i]))
  BY <1>1, <1>8 DEF Places
<1> DEFINE P == {j \in 0..n : Has(read[e[j]], values, m, w, j, TRUE, "dq")}
<1>11. 0 \in P
  <2>1. 0 \in 0..n /\ e[0] = first
    BY <1>1, <1>10
  <2> QED  BY <1>7, <2>1
<1>12. \A j \in 1..n : j - 1 \in P => j \in P
  <2> SUFFICES ASSUME NEW j \in 1..n, j - 1 \in P
               PROVE  j \in P
    OBVIOUS
  <2> DEFINE p == e[j - 1]
  <2>1. p \in Nat /\ IsAt(s, p, Escaped(w[j])) /\ e[j] = p + Len(Escaped(w[j]))
    <3>1. j - 1 \in 0..n
      BY <1>1
    <3> QED  BY <1>10, <3>1
  <2>2. Has(read[p], values, m, w, j - 1, TRUE, "dq")
    OBVIOUS
  <2> HIDE DEF p, P
  <2>3. j \in 1..Len(w)
    BY DEF n
  <2>4. Has(read[p + Len(Escaped(w[j]))], values, m, w, j, TRUE, "dq")
    BY <2>1, <2>2, <2>3, HasQuotedRune
  <2>5. j \in 0..n
    BY <1>1
  <2> QED  BY <2>1, <2>4, <2>5 DEF P
<1>13. Has(read[last], values, m, w, n, TRUE, "dq")
  <2>1. \A j \in 0..n : j \in P
    <3> HIDE DEF P
    <3> QED  BY <1>1, <1>11, <1>12, FromZero
  <2>2. n \in 0..n
    BY <1>1
  <2>3. Has(read[e[n]], values, m, w, n, TRUE, "dq")
    BY <2>1, <2>2
  <2> QED  BY <1>9, <2>3
<1>14. Has(read[last + 1], values, m, w, n, TRUE, NoQuote)
  <2> DEFINE sc == read[last]
             i == last + 1
  <2>1. sc \in Scanner /\ read[i] = Accept(sc, s, i)
    BY <1>6 DEF ReadsAll
  <2>2. Has(sc, values, m, w, n, TRUE, "dq") /\ i \in 1..Len(s) /\ s[i] = "dq"
    BY <1>6, <1>13
  <2> HIDE DEF sc, i
  <2>3. Has(Accept(sc, s, i), values, m, w, n, TRUE, NoQuote)
    BY <1>1, <2>1, <2>2, HasClosing
  <2> QED  BY <2>1, <2>3 DEF i
<1>15. o + Len(Quote(w)) = last + 1
  BY <1>1, <1>2 DEF first, last
<1> QED  BY <1>14, <1>15 DEF n

\* A word as QuoteForRaw writes it.
Spelled(w) == IF NeedsQuotes(w) THEN Quote(w) ELSE w

\* The words it writes so that tokenize reads them back.
IsSafe(w) ==
    NeedsQuotes(w) \/ (w # <<>> /\ \A k \in DOMAIN w : w[k] \notin {"bs", "sq", "nl"})

\* A word is read as it was before QuoteForRaw wrote it.
LEMMA HasSpelled ==
    ASSUME NEW s \in Words, NEW read, ReadsAll(read, s), NEW o \in Nat,
           NEW values, NEW m \in Nat, NEW w \in Words, IsSafe(w), IsAt(s, o, Spelled(w)),
           Has(read[o], values, m, w, 0, FALSE, NoQuote)
    PROVE  Has(read[o + Len(Spelled(w))], values, m, w, Len(w), TRUE, NoQuote)
<1>1. CASE NeedsQuotes(w)
  BY <1>1, HasQuoted DEF Spelled
<1>2. CASE ~NeedsQuotes(w)
  <2>1. DOMAIN w = 1..Len(w)
    BY DEF Words
  <2>2. \A k \in 1..Len(w) : w[k] \notin Metas \cup {"sp", "dq", "bs", "sq", "nl"}
    BY <1>2, <2>1 DEF IsSafe, NeedsQuotes
  <2>3. w # <<>> /\ Spelled(w) = w
    BY <1>2 DEF IsSafe, Spelled
  <2> QED  BY <2>2, <2>3, HasPlain
<1> QED  BY <1>1, <1>2

\* What QuoteForRaw writes for any words that are safe to write, tokenize reads back as
\* those words.
THEOREM RoundTrip ==
    ASSUME NEW values \in Seq(Words), \A k \in DOMAIN values : IsSafe(values[k])
    PROVE  Tokenize(QuoteForRaw(values)) = values
<1> DEFINE n == Len(values)
           sp == <<"sp">>
           piece(k) == IF k = 1 THEN Spelled(values[k]) ELSE sp \o Spelled(values[k])
           pieces == [k \in DOMAIN values |-> piece(k)]
           s == QuoteForRaw(values)
<1>1. s = FlattenSeq(pieces)
  BY DEF QuoteForRaw, Spelled
<1>2. /\ n \in Nat /\ DOMAIN values = 1..n
      /\ \A k \in 1..n : values[k] \in Words /\ IsSafe(values[k])
  OBVIOUS
<1>3. sp \in Seq(Runes) /\ Len(sp) = 1 /\ sp[1] = "sp"
  <2>1. "sp" \in Runes
    BY DEF Runes, Spaces
  <2> QED  BY <2>1
<1>4. \A k \in 1..n : Spelled(values[k]) \in Seq(Runes)
  <2> HIDE DEF n
  <2> QED  BY <1>2, QuoteIs DEF Spelled, Words
<1> HIDE DEF n, sp
<1>5. \A k \in 1..n : piece(k) \in Seq(Runes)
  BY <1>3, <1>4
<1>6. pieces \in Seq(Seq(Runes)) /\ Len(pieces) = n /\ \A k \in 1..n : pieces[k] = piece(k)
  <2> HIDE DEF piece
  <2> QED  BY <1>2, <1>5
<1> HIDE DEF pieces, s
<1>7. s \in Words /\ s \in Seq(Runes) /\ Len(s) \in Nat
  BY <1>1, <1>6, FlattenType DEF Words
<1>8. PICK read : ReadsAll(read, s) /\ Tokenize(s) = ValuesOf(AtEnd(read[Len(s)]).tokens)
  BY <1>7, TokenizeReads
<1>9. PICK e : Places(e, s, 0, pieces) /\ e[Len(pieces)] = 0 + Len(FlattenSeq(pieces))
  <2>1. IsAt(s, 0, FlattenSeq(pieces))
    <3>1. \A j \in 1..Len(s) : 0 + j = j
      BY <1>7
    <3> QED  BY <1>1, <1>7, <3>1 DEF IsAt
  <2>2. 0 \in Nat
    OBVIOUS
  <2>3. \E e : Places(e, s, 0, pieces) /\ e[Len(pieces)] = 0 + Len(FlattenSeq(pieces))
    <3> HIDE DEF piece
    <3> QED  BY <1>6, <1>7, <2>1, <2>2, PiecesAt
  <2> QED  BY <2>3
<1>10. /\ e \in [0..n -> Nat] /\ e[0] = 0 /\ e[n] = Len(s)
       /\ \A i \in 1..n : e[i] = e[i - 1] + Len(piece(i)) /\ IsAt(s, e[i - 1], piece(i))
  <2> HIDE DEF piece
  <2>1. /\ e \in [0..n -> Nat] /\ e[0] = 0
        /\ \A i \in 1..n : e[i] = e[i - 1] + Len(piece(i)) /\ IsAt(s, e[i - 1], piece(i))
    BY <1>6, <1>9 DEF Places
  <2>2. e[n] = 0 + Len(s) /\ 0 + Len(s) = Len(s)
    BY <1>1, <1>6, <1>7, <1>9
  <2> QED  BY <2>1, <2>2
<1>11. StartScan = read[0] /\ HasText(<<>>, values[1], 0)
  BY <1>8 DEF ReadsAll, HasText
<1>12. Has(read[0], values, 0, values[1], 0, FALSE, NoQuote)
  BY <1>11 DEF Has, StartScan
<1> DEFINE Done(m) == Has(read[e[m]], values, m - 1, values[m], Len(values[m]), TRUE, NoQuote)
           P == {m \in 1..n : Done(m)}
<1>13. \A m \in 1..n : (m # 1 => m - 1 \in P) => m \in P
  <2> SUFFICES ASSUME NEW m \in 1..n, m # 1 => m - 1 \in P
               PROVE  m \in P
    OBVIOUS
  <2> DEFINE w == values[m]
             h == m - 1
             t == Spelled(w)
  <2>1. w \in Words /\ IsSafe(w) /\ t \in Seq(Runes) /\ h \in Nat /\ h \in 0..n /\ Len(t) \in Nat
    BY <1>2, <1>4
  <2>2. e[h] \in Nat /\ e[m] = e[h] + Len(piece(m)) /\ IsAt(s, e[h], piece(m))
    <3> HIDE DEF piece
    <3> QED  BY <1>10, <2>1
  <2>3. CASE m = 1
    <3>1. piece(m) = t /\ e[h] = 0 /\ h = 0
      BY <1>10, <2>3
    <3>2. Has(read[e[h]], values, h, w, 0, FALSE, NoQuote)
      BY <1>12, <2>3, <3>1
    <3>3. IsAt(s, e[h], t) /\ e[m] = e[h] + Len(t)
      BY <2>2, <3>1
    <3> HIDE DEF h, w, piece, P
    <3>4. Has(read[e[h] + Len(Spelled(w))], values, h, w, Len(w), TRUE, NoQuote)
      BY <1>7, <1>8, <2>1, <2>2, <3>2, <3>3, HasSpelled
    <3>5. Done(m)
      BY <3>3, <3>4 DEF h, w
    <3> QED  BY <3>5 DEF P
  <2>4. CASE m # 1
    <3> DEFINE p == e[h]
               i == p + 1
               v == values[h]
               sc == read[p]
    <3>1. h \in 1..n /\ Done(h) /\ v \in Words
      BY <1>2, <2>1, <2>4
    <3>2. piece(m) = sp \o t
      BY <2>4
    <3>3. IsAt(s, p, sp) /\ IsAt(s, p + Len(sp), t) /\ Len(piece(m)) = 1 + Len(t)
      <4>1. IsAt(s, p, sp \o t)
        BY <2>2, <3>2
      <4>2. p \in Nat
        BY <2>2
      <4> HIDE DEF p, t, piece
      <4>3. IsAt(s, p, sp) /\ IsAt(s, p + Len(sp), t)
        BY <1>3, <1>7, <2>1, <4>1, <4>2, JoinedAt
      <4>4. Len(sp \o t) = 1 + Len(t)
        BY <1>3, <2>1, JoinedLengths
      <4> QED  BY <3>2, <4>3, <4>4
    <3>4. /\ p \in Nat /\ i \in 1..Len(s) /\ p \in 0..Len(s) /\ i - 1 = p /\ s[i] = "sp"
          /\ p + Len(sp) = i /\ i \in Nat
      <4>1. 1 \in 1..Len(sp) /\ p \in Nat
        BY <1>3, <2>2
      <4> HIDE DEF p
      <4> QED  BY <1>3, <1>7, <3>3, <4>1 DEF IsAt
    <3>5. sc \in Scanner /\ read[i] = Accept(sc, s, i)
      <4> HIDE DEF i, p
      <4> QED  BY <1>8, <3>4 DEF ReadsAll
    <3>6. Has(sc, values, h - 1, v, Len(v), TRUE, NoQuote) /\ h - 1 \in Nat /\ h - 1 + 1 = h
      <4>1. Has(sc, values, h - 1, v, Len(v), TRUE, NoQuote)
        <5> HIDE DEF h
        <5> QED  BY <3>1
      <4>2. h - 1 \in Nat /\ h - 1 + 1 = h
        <5> HIDE DEF h
        <5> QED  BY <1>2, <3>1
      <4> QED  BY <4>1, <4>2
    <3>7. e[m] = i + Len(t)
      <4>1. e[m] = p + (1 + Len(t))
        BY <2>2, <3>3
      <4> HIDE DEF p, t
      <4> QED  BY <2>1, <3>4, <4>1
    <3>8. v = values[h - 1 + 1]
      BY <3>6
    <3> HIDE DEF h, w, piece, P, i, p, v, sc
    <3>9. Has(Accept(sc, s, i), values, h - 1 + 1, w, 0, FALSE, NoQuote)
      BY <1>7, <3>1, <3>4, <3>5, <3>6, <3>8, HasBlank
    <3>10. Has(read[i], values, h, w, 0, FALSE, NoQuote)
      BY <3>5, <3>6, <3>9
    <3>11. IsAt(s, i, Spelled(w))
      BY <3>3, <3>4
    <3>12. Has(read[i + Len(Spelled(w))], values, h, w, Len(w), TRUE, NoQuote)
      BY <1>7, <1>8, <2>1, <3>4, <3>10, <3>11, HasSpelled
    <3>13. Done(m)
      BY <3>7, <3>12 DEF h, w
    <3> QED  BY <3>13 DEF P
  <2> QED  BY <2>3, <2>4
<1>14. CASE n = 0
  <2>1. Len(s) = 0 /\ values = <<>>
    BY <1>2, <1>10, <1>14 DEF n
  <2>2. AtEnd(StartScan).tokens = <<>>
    BY DEF AtEnd, Flush, StartScan
  <2>3. Tokenize(s) = ValuesOf(<<>>)
    BY <1>8, <1>11, <2>1, <2>2
  <2>4. ValuesOf(<<>>) = <<>>
    BY DEF ValuesOf
  <2> QED  BY <2>1, <2>3, <2>4 DEF s
<1>15. CASE n # 0
  <2> DEFINE sc == read[Len(s)]
             w == values[n]
             h == n - 1
             end == AtEnd(sc)
  <2>1. \A m \in 1..n : m \in P
    <3> HIDE DEF P
    <3> QED  BY <1>2, <1>13, OneByOne
  <2>2. n \in 1..n /\ h \in Nat /\ h + 1 = n /\ w \in Words /\ Len(s) \in 0..Len(s)
    BY <1>2, <1>7, <1>15
  <2>3. Has(sc, values, h, w, Len(w), TRUE, NoQuote)
    BY <1>10, <2>1, <2>2
  <2>4. sc \in Scanner /\ Agrees(sc, s, Len(s))
    BY <1>8, <2>2 DEF ReadsAll
  <2> HIDE DEF sc, w, h, P
  <2>5. end = Flush(sc)
    BY <2>3 DEF AtEnd, Has
  <2>6. w = values[h + 1]
    BY <2>2 DEF w
  <2>7. Has(Flush(sc), values, h + 1, w, 0, FALSE, NoQuote)
    BY <2>2, <2>3, <2>4, <2>6, HasToken
  <2>8. end.tokens \in Seq(Token)
    <3>1. end \in Scanner
      BY <1>7, <2>4, AgreesFits, AtEndKeeps, <2>2
    <3> QED  BY <3>1, ScannerFields
  <2>9. Len(end.tokens) = n /\ \A k \in 1..n : end.tokens[k].value = values[k]
    BY <2>2, <2>5, <2>7 DEF Has
  <2> DEFINE tokens == end.tokens
  <2> HIDE DEF end
  <2>10. DOMAIN tokens = 1..n
    BY <2>8, <2>9
  <2> HIDE DEF tokens
  <2>11. ValuesOf(tokens) = [k \in 1..n |-> values[k]]
    BY <2>9, <2>10 DEF ValuesOf, tokens
  <2>12. values = [k \in 1..n |-> values[k]]
    BY <1>2
  <2> QED  BY <1>8, <2>11, <2>12 DEF s, tokens, end, sc
<1> QED  BY <1>14, <1>15

\* The arguments that a function writes into its body are, when the body is parsed, the
\* same words again: none is split, lost or taken for an operator.
THEOREM QuotedWordsAreReadBack == Spec => []QuoteRoundTrip
<1>1. TypeOK => QuoteRoundTrip
  <2> SUFFICES ASSUME TypeOK, NEW c \in DOMAIN line.commands,
                      \A k \in DOMAIN line.commands[c].words :
                        Survives(line.commands[c].words[k])
               PROVE  LET words == line.commands[c].words
                          v     == Tokenize(QuoteForRaw(words))
                      IN /\ \A k \in DOMAIN v : v[k] \notin Operators
                         /\ [k \in DOMAIN v |-> ExpandToken(v[k])] = words
    BY DEF QuoteRoundTrip
  <2> DEFINE words == line.commands[c].words
  <2>1. words \in Seq(Words)
    <3> DEFINE T == [words : Seq(Words), raw : Words]
    <3>1. line.commands \in Seq(T)
      BY DEF TypeOK
    <3> HIDE DEF T
    <3>2. line.commands[c] \in T
      <4> DEFINE all == line.commands
      <4>1. all \in Seq(T) /\ c \in DOMAIN all
        BY <3>1
      <4> HIDE DEF all
      <4>2. all[c] \in T
        BY <4>1
      <4> QED  BY <4>2 DEF all
    <3> QED  BY <3>2 DEF T
  <2>2. \A k \in DOMAIN words : Survives(words[k])
    OBVIOUS
  <2> HIDE DEF words
  <2>3. \A k \in DOMAIN words :
          /\ words[k] \in Words /\ IsSafe(words[k]) /\ words[k] \notin Operators
          /\ \A j \in DOMAIN words[k] : words[k][j] \notin {"$", "%"}
    BY <2>1, <2>2 DEF Survives, IsSafe
  <2>4. Tokenize(QuoteForRaw(words)) = words
    BY <2>1, <2>3, RoundTrip
  <2>5. \A k \in DOMAIN words : ExpandToken(words[k]) = words[k]
    BY <2>3, ExpandTokenKeeps
  <2>6. [k \in DOMAIN words |-> ExpandToken(words[k])] = words
    BY <2>1, <2>5
  <2> QED  BY <2>3, <2>4, <2>6 DEF words
<1> QED  BY <1>1, TypeCorrect, PTL
=============================================================================
