----------------------------- MODULE Product_proofs -----------------------------
(***************************************************************************)
(* Speech, proved for every text and every way of cutting it into          *)
(* fragments: no word is lost, split, glued to another or said out of      *)
(* order.                                                                  *)
(*                                                                         *)
(* The saju engine, proved for every day of every year: the calendar       *)
(* numbers its days without a gap, and the pillars go round the cycle of   *)
(* sixty with it.                                                          *)
(*                                                                         *)
(* The rate limiter, proved for any limit, window and clock: what a burst  *)
(* may admit, and what a caller who waits as told gets.                    *)
(*                                                                         *)
(* Readings, cards, shares, charts, speech, the language model, the filter,*)
(* the limiter and the lists together: each keeps its types.               *)
(***************************************************************************)
EXTENDS MCProduct, Readings_proofs, Cards_proofs, SequenceTheorems, TLAPS

-----------------------------------------------------------------------------
(* Speech: words *)

Text == Seq(Chars)

\* The first n characters.
LEMMA FirstOf ==
    ASSUME NEW S, NEW t \in Seq(S), NEW n \in 0 .. Len(t)
    PROVE  /\ SubSeq(t, 1, n) \in Seq(S) /\ Len(SubSeq(t, 1, n)) = n
           /\ \A i \in 1 .. n : SubSeq(t, 1, n)[i] = t[i]
           /\ n < Len(t) => SubSeq(t, 1, n + 1) = Append(SubSeq(t, 1, n), t[n + 1])
  OBVIOUS

\* One more character leaves a sequence of lengths.
LEMMA HeardType ==
    ASSUME NEW w \in Seq(Nat), NEW g \in BOOLEAN, NEW c
    PROVE  Heard(w, g, c) \in Seq(Nat)
<1>1. CASE c = "a" /\ g
  <2>1. CASE Len(w) \in 1 .. Len(w)
    BY <1>1, <2>1 DEF Heard
  <2>2. CASE Len(w) = 0
    <3>1. w = <<>> /\ [w EXCEPT ![Len(w)] = w[Len(w)] + 1] = w
      BY <2>2
    <3>. QED BY <1>1, <3>1 DEF Heard
  <2>. QED BY <2>1, <2>2
<1>2. CASE ~(c = "a" /\ g)
  BY <1>2 DEF Heard
<1>. QED BY <1>1, <1>2

\* Words is the fold its definition says.
LEMMA WordsFold ==
    ASSUME NEW t \in Text
    PROVE  \E w \in [0 .. Len(t) -> Seq(Nat)] :
              /\ w[0] = <<>>
              /\ \A n \in 1 .. Len(t) : w[n] = Heard(w[n - 1], n > 1 /\ t[n - 1] = "a", t[n])
              /\ Words(t) = w[Len(t)]
<1>1. PICK L \in Nat : L = Len(t)
  BY DEF Text
<1>. DEFINE goes_on(n) == n > 1 /\ t[n - 1] = "a"
            Def(f) == [n \in 0 .. L |->
                         IF n = 0 THEN <<>> ELSE Heard(f[n - 1], goes_on(n), t[n])]
<1>2. \E f : f = Def(f)
  <2>. DEFINE step == [n \in 1 .. L |-> [w \in Seq(Nat) |-> Heard(w, goes_on(n), t[n])]]
  <2>1. step \in [1 .. L -> [Seq(Nat) -> Seq(Nat)]]
    BY HeardType
  <2>2. \A n \in 1 .. L, w \in Seq(Nat) : step[n][w] = Heard(w, goes_on(n), t[n])
    OBVIOUS
  <2>. HIDE DEF step, goes_on
  <2>3. PICK f \in [0 .. L -> Seq(Nat)] :
           f[0] = <<>> /\ \A n \in 1 .. L : f[n] = step[n][f[n - 1]]
    <3>1. PICK S, e : S = Seq(Nat) /\ e = <<>>
      OBVIOUS
    <3>2. e \in S /\ step \in [1 .. L -> [S -> S]]
      BY <2>1, <3>1
    <3>3. \E f \in [0 .. L -> S] : f[0] = e /\ \A n \in 1 .. L : f[n] = step[n][f[n - 1]]
      BY <3>2, FoldExists, SMT
    <3>. QED BY <3>1, <3>3
  <2>4. ASSUME NEW n \in 1 .. L PROVE f[n] = Heard(f[n - 1], goes_on(n), t[n])
    <3>1. n - 1 \in 0 .. L
      OBVIOUS
    <3>. QED BY <2>2, <2>3, <3>1
  <2>. QED BY <2>3, <2>4
<1>. DEFINE w == CHOOSE g : g = Def(g)
<1>3. w = Def(w)
  BY <1>2
<1>4. Words(t) = w[L]
  BY <1>1 DEF Words
<1>. HIDE DEF w, goes_on
<1>5. w[0] = <<>> /\ \A n \in 1 .. L : w[n] = Heard(w[n - 1], goes_on(n), t[n])
  BY <1>3
<1>6. DOMAIN w = 0 .. L /\ w = [n \in 0 .. L |-> w[n]]
  BY <1>3
<1>. HIDE DEF Def
<1>7. \A n \in 1 .. L : w[n - 1] \in Seq(Nat) => w[n] \in Seq(Nat)
  BY <1>5, HeardType DEF goes_on
<1>8. w[0] \in Seq(Nat)
  BY <1>5
<1>9. w \in [0 .. L -> Seq(Nat)]
  BY <1>6, <1>7, <1>8, FoldTyped
<1>. QED BY <1>1, <1>4, <1>5, <1>9 DEF goes_on

\* The last element changes, whatever is before it.
LEMMA LastChanges ==
    ASSUME NEW S, NEW x \in Seq(S), NEW e \in S, NEW d \in S
    PROVE  [Append(x, e) EXCEPT ![Len(Append(x, e))] = d] = Append(x, d)
<1>1. PICK u : u = Append(x, e)
  OBVIOUS
<1>2. /\ u \in Seq(S) /\ Len(u) = Len(x) + 1 /\ \A i \in 1 .. Len(x) : u[i] = x[i]
  BY <1>1, AppendProperties
<1>3. PICK n \in 1 .. Len(u) : n = Len(u)
  BY <1>2
<1>4. /\ [u EXCEPT ![n] = d] \in Seq(S) /\ Len([u EXCEPT ![n] = d]) = Len(u)
      /\ \A j \in 1 .. Len(u) : [u EXCEPT ![n] = d][j] = IF j = n THEN d ELSE u[j]
  BY <1>2, ExceptSeq
<1>5. PICK v : v = [u EXCEPT ![n] = d]
  OBVIOUS
<1>6. PICK w : w = Append(x, d)
  OBVIOUS
<1>7. /\ w \in Seq(S) /\ Len(w) = Len(x) + 1 /\ w[Len(x) + 1] = d
      /\ \A i \in 1 .. Len(x) : w[i] = x[i]
  BY <1>6, AppendProperties
<1>8. /\ v \in Seq(S) /\ Len(v) = Len(u)
      /\ \A j \in 1 .. Len(u) : v[j] = IF j = n THEN d ELSE u[j]
  BY <1>4, <1>5
<1>9. \A i \in 1 .. Len(v) : v[i] = w[i]
  BY <1>2, <1>3, <1>7, <1>8
<1>10. v = w
  BY <1>2, <1>7, <1>8, <1>9, SeqEqual
<1>. QED BY <1>1, <1>3, <1>5, <1>6, <1>10

\* So does lengthening its last word.
LEMMA LastGrows ==
    ASSUME NEW x \in Seq(Nat), NEW y \in Seq(Nat), y # <<>>
    PROVE  [(x \o y) EXCEPT ![Len(x \o y)] = @ + 1] = x \o [y EXCEPT ![Len(y)] = @ + 1]
<1>1. PICK z \in Seq(Nat), e \in Nat : y = Append(z, e)
  BY SequenceEmptyOrAppend
<1>2. x \o y = Append(x \o z, e) /\ x \o z \in Seq(Nat)
  BY <1>1, AppendJoins, ConcatProperties
<1>3. /\ y[Len(y)] = e /\ (x \o y)[Len(x \o y)] = e /\ e + 1 \in Nat
  BY <1>1, <1>2, AppendProperties
<1>4. PICK d \in Nat : d = e + 1
  BY <1>3
<1>5. [y EXCEPT ![Len(y)] = d] = Append(z, d)
  <2>1. [Append(z, e) EXCEPT ![Len(Append(z, e))] = d] = Append(z, d)
    BY LastChanges
  <2>. QED BY <1>1, <2>1, Zenon
<1>6. [(x \o y) EXCEPT ![Len(x \o y)] = d] = Append(x \o z, d)
  <2>1. PICK w \in Seq(Nat) : w = x \o z
    BY <1>2
  <2>2. [Append(w, e) EXCEPT ![Len(Append(w, e))] = d] = Append(w, d)
    BY LastChanges
  <2>. QED BY <1>2, <2>1, <2>2, Zenon
<1>7. x \o Append(z, d) = Append(x \o z, d)
  BY AppendJoins
<1>. QED BY <1>3, <1>4, <1>5, <1>6, <1>7

\* No text, no words.
LEMMA WordsEmpty == Words(<<>>) = <<>>
<1>1. <<>> \in Text /\ Len(<<>>) = 0
  BY DEF Text
<1>. QED BY <1>1, WordsFold

\* Words are given by their lengths.
LEMMA WordsType == \A t \in Text : Words(t) \in Seq(Nat)
<1>1. TAKE t \in Text
<1>2. Len(t) \in 0 .. Len(t)
  BY DEF Text
<1>. QED BY <1>2, WordsFold

\* The words of a text that is one character longer.
LEMMA WordsAppend ==
    ASSUME NEW t \in Text, NEW c \in Chars
    PROVE  Words(Append(t, c)) = Heard(Words(t), t # <<>> /\ t[Len(t)] = "a", c)
<1>. DEFINE u == Append(t, c)
<1>1. PICK w \in [0 .. Len(t) -> Seq(Nat)] :
         /\ w[0] = <<>>
         /\ \A n \in 1 .. Len(t) : w[n] = Heard(w[n - 1], n > 1 /\ t[n - 1] = "a", t[n])
         /\ Words(t) = w[Len(t)]
  BY WordsFold
<1>2. PICK L \in Nat : L = Len(t)
  BY DEF Text
<1>3. /\ u \in Text /\ Len(u) = L + 1 /\ u[L + 1] = c /\ \A n \in 1 .. L : u[n] = t[n]
  BY <1>2 DEF Text
<1>. HIDE DEF u
<1>4. PICK v \in [0 .. L + 1 -> Seq(Nat)] :
         /\ v[0] = <<>>
         /\ \A n \in 1 .. L + 1 : v[n] = Heard(v[n - 1], n > 1 /\ u[n - 1] = "a", u[n])
         /\ Words(u) = v[L + 1]
  BY <1>3, WordsFold
<1>. DEFINE T == {n \in Nat : n <= L => v[n] = w[n]}
<1>5. 0 \in T /\ T \in SUBSET Nat
  BY <1>1, <1>4
<1>6. ASSUME NEW n \in T PROVE n + 1 \in T
  <2>1. CASE n + 1 <= L
    <3>1. n + 1 \in 1 .. L /\ n + 1 \in 1 .. L + 1 /\ (n + 1) - 1 = n /\ v[n] = w[n]
      BY <2>1
    <3>2. u[n + 1] = t[n + 1] /\ (n + 1 > 1 => u[n] = t[n])
      BY <1>3, <3>1
    <3>3. v[n + 1] = Heard(v[n], n + 1 > 1 /\ u[n] = "a", u[n + 1])
      BY <1>4, <3>1
    <3>4. w[n + 1] = Heard(w[n], n + 1 > 1 /\ t[n] = "a", t[n + 1])
      BY <1>1, <1>2, <3>1
    <3>5. (n + 1 > 1 /\ u[n] = "a") = (n + 1 > 1 /\ t[n] = "a")
      BY <3>2
    <3>. QED BY <3>1, <3>2, <3>3, <3>4, <3>5
  <2>. QED BY <2>1
<1>. HIDE DEF T
<1>7. T = Nat
  BY <1>5, <1>6, NatSet
<1>8. v[L] = Words(t)
  BY <1>1, <1>2, <1>7 DEF T
<1>9. Words(u) = Heard(v[L], L + 1 > 1 /\ u[L] = "a", c)
  <2>1. L + 1 \in 1 .. L + 1 /\ (L + 1) - 1 = L
    OBVIOUS
  <2>. QED BY <1>3, <1>4, <2>1
<1>10. (L + 1 > 1 /\ u[L] = "a") = (t # <<>> /\ t[L] = "a")
  <2>1. t = <<>> <=> L = 0
    BY <1>2 DEF Text
  <2>2. L > 0 => u[L] = t[L]
    BY <1>3
  <2>. QED BY <2>1, <2>2
<1>. QED BY <1>2, <1>8, <1>9, <1>10 DEF u

\* Words run together only where a letter meets a letter.
LEMMA WordsMeet ==
    ASSUME NEW s \in Text, NEW t \in Text,
           s = <<>> \/ t = <<>> \/ s[Len(s)] # "a" \/ t[1] # "a"
    PROVE  Words(s \o t) = Words(s) \o Words(t)
<1>. DEFINE Apart(r) == s = <<>> \/ r = <<>> \/ s[Len(s)] # "a" \/ r[1] # "a"
            Begun(r) == r # <<>> /\ r[Len(r)] = "a"
            T == {r \in Text : /\ Begun(r) => Words(r) # <<>>
                               /\ Apart(r) => Words(s \o r) = Words(s) \o Words(r)}
<1>1. <<>> \in T
  <2>1. <<>> \in Text /\ s \o <<>> = s /\ Words(s) \o <<>> = Words(s)
    BY WordsType DEF Text
  <2>. QED BY <2>1, WordsEmpty
<1>2. ASSUME NEW r \in T, NEW c \in Chars PROVE Append(r, c) \in T
  <2>1. r \in Text /\ Append(r, c) \in Text /\ s \o r \in Text
    BY DEF Text
  <2>2. /\ Words(Append(r, c)) = Heard(Words(r), Begun(r), c)
        /\ Words(Append(s \o r, c)) = Heard(Words(s \o r), Begun(s \o r), c)
    BY <2>1, WordsAppend
  <2>3. s \o Append(r, c) = Append(s \o r, c)
    BY <2>1 DEF Text
  <2>4. Words(s) \in Seq(Nat) /\ Words(r) \in Seq(Nat)
    BY <2>1, WordsType
  <2>5. Append(r, c) # <<>> /\ Append(r, c)[Len(Append(r, c))] = c
    BY <2>1, AppendProperties DEF Text
  <2>6. c = "a" => Words(Append(r, c)) # <<>>
    <3>1. CASE Begun(r)
      <4>1. Words(r) # <<>>
        BY <3>1
      <4>. HIDE DEF Begun
      <4>. QED BY <2>2, <2>4, <3>1, <4>1 DEF Heard
    <3>2. CASE ~Begun(r)
      <4>. HIDE DEF Begun
      <4>1. Append(Words(r), 1) # <<>>
        BY <2>4, AppendProperties
      <4>. QED BY <2>2, <3>2, <4>1 DEF Heard
    <3>. QED BY <3>1, <3>2
  <2>7. ASSUME Apart(Append(r, c))
        PROVE  Words(s \o Append(r, c)) = Words(s) \o Words(Append(r, c))
    <3>1. CASE r = <<>>
      <4>1. s \o r = s /\ Append(r, c)[1] = c /\ ~Begun(r) /\ Words(r) = <<>>
        BY <3>1, WordsEmpty DEF Text
      <4>2. c # "a" \/ ~Begun(s)
        BY <2>5, <2>7, <4>1
      <4>3. Words(Append(s, c)) = Heard(Words(s), Begun(s), c)
        BY WordsAppend
      <4>. HIDE DEF Begun
      <4>4. Heard(Words(s), Begun(s), c) = Words(s) \o Heard(<<>>, Begun(r), c)
        BY <2>4, <4>1, <4>2 DEF Heard
      <4>. QED BY <2>2, <2>3, <4>1, <4>3, <4>4
    <3>2. CASE r # <<>>
      <4>1. /\ Append(r, c)[1] = r[1] /\ s \o r # <<>> /\ (s \o r)[Len(s \o r)] = r[Len(r)]
        BY <2>1, <3>2 DEF Text
      <4>2. Words(s \o r) = Words(s) \o Words(r)
        BY <2>7, <3>2, <4>1
      <4>3. Begun(s \o r) = Begun(r) /\ (Begun(r) => Words(r) # <<>>)
        BY <3>2, <4>1
      <4>. HIDE DEF Begun
      <4>4. ASSUME NEW x \in Seq(Nat), NEW y \in Seq(Nat), NEW g \in BOOLEAN, g => y # <<>>
            PROVE  Heard(x \o y, g, c) = x \o Heard(y, g, c)
        <5>1. CASE c = "a" /\ g
          <6>1. Len(x \o y) \in Nat /\ Len(y) \in Nat
            OBVIOUS
          <6>. QED BY <4>4, <5>1, LastGrows DEF Heard
        <5>2. CASE c = "a" /\ ~g
          <6>1. 1 \in Nat
            OBVIOUS
          <6>2. x \o Append(y, 1) = Append(x \o y, 1)
            BY <6>1, AppendJoins
          <6>. QED BY <5>2, <6>2 DEF Heard
        <5>3. CASE c # "a"
          BY <5>3 DEF Heard
        <5>. QED BY <5>1, <5>2, <5>3
      <4>5. Begun(r) \in BOOLEAN
        BY DEF Begun
      <4>6. Heard(Words(s) \o Words(r), Begun(r), c) = Words(s) \o Heard(Words(r), Begun(r), c)
        BY <2>4, <4>3, <4>4, <4>5
      <4>. QED BY <2>2, <2>3, <4>2, <4>3, <4>6
    <3>. QED BY <3>1, <3>2
  <2>. HIDE DEF Apart
  <2>8. Begun(Append(r, c)) => Words(Append(r, c)) # <<>>
    BY <2>5, <2>6
  <2>. HIDE DEF Begun
  <2>. QED BY <2>1, <2>7, <2>8
<1>. HIDE DEF T
<1>3. T = Text
  <2>1. T \in SUBSET Seq(Chars)
    BY DEF T, Text
  <2>. QED BY <1>1, <1>2, <2>1, SequenceSet DEF Text
<1>. QED BY <1>3 DEF T

-----------------------------------------------------------------------------
(* Sentences in a row *)

\* A sentence and the pause after it.
Then(said, s) == said \o Append(s, " ")

\* A sentence and its pause end in a space.
LEMMA Paused ==
    ASSUME NEW s \in Text
    PROVE  /\ Append(s, " ") \in Text /\ Append(s, " ") # <<>>
           /\ Append(s, " ")[Len(Append(s, " "))] = " "
<1>1. PICK c \in Chars : c = " "
  BY DEF Chars
<1>2. /\ Append(s, c) \in Seq(Chars) /\ Append(s, c) # <<>>
      /\ Append(s, c)[Len(Append(s, c))] = c
  BY AppendProperties DEF Text
<1>. QED BY <1>1, <1>2 DEF Text

\* What has been said and one more sentence are a text.
LEMMA ThenType == \A w, s \in Text : Then(w, s) \in Text
  BY Paused, ConcatProperties DEF Then, Text

\* Joined is the fold its definition says.
LEMMA JoinedFold ==
    ASSUME NEW cut \in Seq(Text)
    PROVE  \E w \in [0 .. Len(cut) -> Text] :
              /\ w[0] = <<>>
              /\ \A n \in 1 .. Len(cut) : w[n] = Then(w[n - 1], cut[n])
              /\ Joined(cut) = w[Len(cut)]
<1>1. PICK L \in Nat : L = Len(cut)
  OBVIOUS
<1>. DEFINE Def(f) == [n \in 0 .. L |-> IF n = 0 THEN <<>> ELSE Then(f[n - 1], cut[n])]
<1>2. \A n \in 1 .. L : cut[n] \in Text
  BY <1>1, ElementOfSeq
<1>3. \A w \in Text : \A n \in 1 .. L : Then(w, cut[n]) \in Text
  BY <1>2, ThenType
<1>4. <<>> \in Text
  BY DEF Text
<1>5. \E f : f = Def(f)
  <2>. DEFINE step == [n \in 1 .. L |-> [w \in Text |-> Then(w, cut[n])]]
  <2>1. step \in [1 .. L -> [Text -> Text]]
    BY <1>3
  <2>2. \A n \in 1 .. L, w \in Text : step[n][w] = Then(w, cut[n])
    OBVIOUS
  <2>. HIDE DEF step
  <2>3. PICK f \in [0 .. L -> Text] :
           f[0] = <<>> /\ \A n \in 1 .. L : f[n] = step[n][f[n - 1]]
    <3>1. PICK e : e = <<>>
      OBVIOUS
    <3>2. e \in Text
      BY <1>4, <3>1
    <3>3. \E f \in [0 .. L -> Text] : f[0] = e /\ \A n \in 1 .. L : f[n] = step[n][f[n - 1]]
      BY <2>1, <3>2, FoldExists, SMT
    <3>. QED BY <3>1, <3>3
  <2>4. ASSUME NEW n \in 1 .. L PROVE f[n] = Then(f[n - 1], cut[n])
    <3>1. n - 1 \in 0 .. L
      OBVIOUS
    <3>. QED BY <2>2, <2>3, <3>1
  <2>. QED BY <2>3, <2>4
<1>. DEFINE w == CHOOSE g : g = Def(g)
<1>6. w = Def(w)
  BY <1>5
<1>7. Joined(cut) = w[L]
  BY <1>1 DEF Joined, Then
<1>. HIDE DEF w
<1>8. w[0] = <<>> /\ \A n \in 1 .. L : w[n] = Then(w[n - 1], cut[n])
  BY <1>6
<1>9. DOMAIN w = 0 .. L /\ w = [n \in 0 .. L |-> w[n]]
  BY <1>6
<1>. HIDE DEF Def
<1>10. w \in [0 .. L -> Text]
  <2>1. w[0] \in Text /\ \A n \in 1 .. L : w[n - 1] \in Text => w[n] \in Text
    BY <1>3, <1>4, <1>8
  <2>. QED BY <1>9, <2>1, FoldTyped
<1>. QED BY <1>1, <1>7, <1>8, <1>10

\* Sentences in a row are a text.
LEMMA JoinedType == \A cut \in Seq(Text) : Joined(cut) \in Text
<1>1. TAKE cut \in Seq(Text)
<1>2. Len(cut) \in 0 .. Len(cut)
  OBVIOUS
<1>. QED BY <1>2, JoinedFold

\* No sentences, no text.
LEMMA JoinedEmpty == Joined(<<>>) = <<>>
<1>1. <<>> \in Seq(Text) /\ Len(<<>>) = 0
  OBVIOUS
<1>. QED BY <1>1, JoinedFold

\* One more sentence comes last.
LEMMA JoinedAppend ==
    ASSUME NEW cut \in Seq(Text), NEW s \in Text
    PROVE  Joined(Append(cut, s)) = Joined(cut) \o Append(s, " ")
<1>1. PICK L \in Nat : L = Len(cut)
  OBVIOUS
<1>2. PICK w \in [0 .. L -> Text] :
         /\ w[0] = <<>> /\ Joined(cut) = w[L]
         /\ \A n \in 1 .. L : w[n] = Then(w[n - 1], cut[n])
  BY <1>1, JoinedFold
<1>3. PICK u : u = Append(cut, s)
  OBVIOUS
<1>4. u \in Seq(Text) /\ Len(u) = L + 1 /\ u[L + 1] = s /\ \A n \in 1 .. L : u[n] = cut[n]
  BY <1>1, <1>3, AppendProperties
<1>5. PICK v \in [0 .. L + 1 -> Text] :
         /\ v[0] = <<>> /\ Joined(u) = v[L + 1]
         /\ \A n \in 1 .. L + 1 : v[n] = Then(v[n - 1], u[n])
  <2>1. \E v \in [0 .. Len(u) -> Text] :
           /\ v[0] = <<>> /\ \A n \in 1 .. Len(u) : v[n] = Then(v[n - 1], u[n])
           /\ Joined(u) = v[Len(u)]
    BY <1>4, JoinedFold
  <2>. QED BY <1>4, <2>1
<1>6. v[L] = w[L]
  <2>1. \A n \in 1 .. L : n \in 1 .. L + 1
    OBVIOUS
  <2>2. \A n \in 1 .. L : v[n - 1] = w[n - 1] => v[n] = w[n]
    BY <1>2, <1>4, <1>5, <2>1
  <2>3. v[0] = w[0]
    BY <1>2, <1>5
  <2>. QED BY <2>2, <2>3, FoldsAgree
<1>7. v[L + 1] = Then(v[L], s)
  <2>1. L + 1 \in 1 .. L + 1 /\ (L + 1) - 1 = L
    OBVIOUS
  <2>. QED BY <1>4, <1>5, <2>1
<1>. QED BY <1>2, <1>3, <1>5, <1>6, <1>7 DEF Then

\* What is joined is empty or ends in a pause.
LEMMA JoinedEnds ==
    ASSUME NEW cut \in Seq(Text)
    PROVE  Joined(cut) = <<>> \/ Joined(cut)[Len(Joined(cut))] = " "
<1>1. CASE cut = <<>>
  BY <1>1, JoinedEmpty
<1>2. CASE cut # <<>>
  <2>1. PICK c \in Seq(Text), s \in Text : cut = Append(c, s)
    BY <1>2, SequenceEmptyOrAppend
  <2>2. Joined(cut) = Joined(c) \o Append(s, " ")
    BY <2>1, JoinedAppend
  <2>3. PICK a, b : a = Joined(c) /\ b = Append(s, " ")
    OBVIOUS
  <2>4. a \in Seq(Chars) /\ b \in Seq(Chars) /\ b # <<>> /\ b[Len(b)] = " "
    BY <2>3, JoinedType, Paused DEF Text
  <2>5. (a \o b)[Len(a \o b)] = b[Len(b)]
    <3>1. /\ Len(a) \in Nat /\ Len(b) \in Nat /\ Len(b) # 0 /\ Len(a \o b) = Len(a) + Len(b)
      BY <2>4, EmptySeq, LenProperties, ConcatProperties
    <3>2. Len(a \o b) \in 1 .. Len(a) + Len(b) /\ ~(Len(a \o b) <= Len(a))
      BY <3>1
    <3>3. (a \o b)[Len(a \o b)] = b[Len(a \o b) - Len(a)]
      BY <2>4, <3>2, ConcatProperties
    <3>. QED BY <3>1, <3>3
  <2>. QED BY <2>2, <2>3, <2>4, <2>5
<1>. QED BY <1>1, <1>2

\* Texts in a row, however they are put together.
LEMMA CharsAssociative ==
    ASSUME NEW x \in Seq(Chars), NEW y \in Seq(Chars), NEW z \in Seq(Chars)
    PROVE  (x \o y) \o z = x \o (y \o z)
  BY ConcatAssociative

\* Sentences in two groups come one group after the other.
LEMMA JoinedMeet ==
    ASSUME NEW a \in Seq(Text), NEW b \in Seq(Text)
    PROVE  Joined(a \o b) = Joined(a) \o Joined(b)
<1>. DEFINE T == {c \in Seq(Text) : Joined(a \o c) = Joined(a) \o Joined(c)}
<1>1. <<>> \in T
  <2>1. a \o <<>> = a /\ Joined(a) \o <<>> = Joined(a)
    <3>1. Joined(a) \in Seq(Chars)
      BY JoinedType DEF Text
    <3>. QED BY <3>1, ConcatEmptySeq
  <2>2. <<>> \in Seq(Text)
    OBVIOUS
  <2>. QED BY <2>1, <2>2, JoinedEmpty
<1>2. ASSUME NEW c \in T, NEW s \in Text PROVE Append(c, s) \in T
  <2>1. /\ c \in Seq(Text) /\ Append(c, s) \in Seq(Text) /\ a \o c \in Seq(Text)
    BY AppendProperties, ConcatProperties
  <2>2. a \o Append(c, s) = Append(a \o c, s)
    BY <2>1, AppendJoins
  <2>3. Joined(Append(a \o c, s)) = Joined(a \o c) \o Append(s, " ")
    BY <2>1, JoinedAppend
  <2>4. Joined(Append(c, s)) = Joined(c) \o Append(s, " ")
    BY <2>1, JoinedAppend
  <2>5. (Joined(a) \o Joined(c)) \o Append(s, " ") = Joined(a) \o (Joined(c) \o Append(s, " "))
    <3>1. Joined(a) \in Seq(Chars) /\ Joined(c) \in Seq(Chars) /\ Append(s, " ") \in Seq(Chars)
      BY <2>1, JoinedType, Paused DEF Text
    <3>. QED BY <3>1, CharsAssociative, Zenon
  <2>. QED BY <2>1, <2>2, <2>3, <2>4, <2>5
<1>. HIDE DEF T
<1>3. T = Seq(Text)
  <2>1. T \in SUBSET Seq(Text)
    BY DEF T
  <2>. QED BY <1>1, <1>2, <2>1, SequenceSet
<1>. QED BY <1>3 DEF T

\* The words of sentences are those of each, one after the other.
LEMMA JoinedWords ==
    ASSUME NEW cut \in Seq(Text), NEW s \in Text
    PROVE  /\ Words(Joined(Append(cut, s))) = Words(Joined(cut)) \o Words(s)
           /\ Words(Joined(cut) \o s) = Words(Joined(cut)) \o Words(s)
<1>1. Joined(cut) \in Text /\ Append(s, " ") \in Text
  BY JoinedType, Paused
<1>2. Joined(cut) = <<>> \/ Joined(cut)[Len(Joined(cut))] # "a"
  BY JoinedEnds
<1>3. \A r \in Text : Words(Joined(cut) \o r) = Words(Joined(cut)) \o Words(r)
  BY <1>1, <1>2, WordsMeet
<1>4. Words(Append(s, " ")) = Words(s)
  <2>1. " " \in Chars /\ " " # "a"
    BY DEF Chars
  <2>. QED BY <2>1, WordsAppend DEF Heard
<1>. QED BY <1>1, <1>3, <1>4, JoinedAppend

-----------------------------------------------------------------------------
(* Trimming *)

\* A text without letters has no words.
LEMMA Silent ==
    ASSUME NEW t \in Text, \A i \in 1 .. Len(t) : t[i] # "a"
    PROVE  Words(t) = <<>>
<1>. DEFINE T == {r \in Text : (\A i \in 1 .. Len(r) : r[i] # "a") => Words(r) = <<>>}
<1>1. <<>> \in T
  BY WordsEmpty DEF Text
<1>2. ASSUME NEW r \in T, NEW c \in Chars PROVE Append(r, c) \in T
  <2>1. /\ Append(r, c) \in Text /\ Len(Append(r, c)) = Len(r) + 1 /\ Append(r, c)[Len(r) + 1] = c
        /\ \A i \in 1 .. Len(r) : Append(r, c)[i] = r[i]
        /\ Len(r) \in Nat
    BY AppendProperties, LenProperties DEF Text
  <2>2. ASSUME \A i \in 1 .. Len(Append(r, c)) : Append(r, c)[i] # "a"
        PROVE  Words(Append(r, c)) = <<>>
    <3>1. c # "a" /\ \A i \in 1 .. Len(r) : r[i] # "a"
      BY <2>1, <2>2
    <3>2. Words(r) = <<>>
      BY <3>1
    <3>. QED BY <3>1, <3>2, WordsAppend DEF Heard
  <2>. QED BY <2>1, <2>2
<1>. HIDE DEF T
<1>3. T = Text
  <2>1. T \in SUBSET Seq(Chars)
    BY DEF T, Text
  <2>. QED BY <1>1, <1>2, <2>1, SequenceSet DEF Text
<1>. QED BY <1>3 DEF T

\* A part of a text.
LEMMA Parts ==
    ASSUME NEW t \in Text, NEW m \in 1 .. Len(t) + 1, NEW n \in m - 1 .. Len(t)
    PROVE  /\ SubSeq(t, m, n) \in Text /\ Len(SubSeq(t, m, n)) = n - m + 1
           /\ \A i \in 1 .. n - m + 1 : SubSeq(t, m, n)[i] = t[m + i - 1]
<1>1. Len(t) \in Nat /\ \A i \in m .. n : t[i] \in Chars
  BY ElementOfSeq DEF Text
<1>2. m \in Int /\ n \in Int
  BY <1>1
<1>3. /\ SubSeq(t, m, n) \in Seq(Chars)
      /\ Len(SubSeq(t, m, n)) = IF m <= n THEN n - m + 1 ELSE 0
      /\ \A i \in 1 .. n - m + 1 : SubSeq(t, m, n)[i] = t[m + i - 1]
  BY <1>1, <1>2, SubSeqProperties
<1>. QED BY <1>2, <1>3 DEF Text

\* The words of two neighbouring parts between which no word goes on.
LEMMA PartsMeet ==
    ASSUME NEW t \in Text, NEW m \in 1 .. Len(t) + 1, NEW k \in m - 1 .. Len(t),
           NEW n \in k .. Len(t),
           k < m \/ n = k \/ t[k] # "a" \/ t[k + 1] # "a"
    PROVE  Words(SubSeq(t, m, n)) = Words(SubSeq(t, m, k)) \o Words(SubSeq(t, k + 1, n))
<1>1. Len(t) \in Nat
  BY DEF Text
<1>2. k + 1 \in 1 .. Len(t) + 1 /\ n \in (k + 1) - 1 .. Len(t) /\ k \in Int /\ m \in Int
  BY <1>1
<1>3. PICK r, s : r = SubSeq(t, m, k) /\ s = SubSeq(t, k + 1, n)
  OBVIOUS
<1>4. /\ r \in Text /\ Len(r) = k - m + 1
      /\ \A i \in 1 .. k - m + 1 : r[i] = t[m + i - 1]
  BY <1>3, Parts
<1>5. /\ s \in Text /\ Len(s) = n - k
      /\ \A i \in 1 .. n - k : s[i] = t[k + i]
  <2>1. /\ s \in Text /\ Len(s) = n - (k + 1) + 1
        /\ \A i \in 1 .. n - (k + 1) + 1 : s[i] = t[(k + 1) + i - 1]
    BY <1>2, <1>3, Parts
  <2>2. n \in Int
    BY <1>1
  <2>. QED BY <1>2, <2>1, <2>2
<1>6. r \o s = SubSeq(t, m, n)
  BY <1>3, ConcatAdjacentSubSeq DEF Text
<1>7. r = <<>> \/ s = <<>> \/ r[Len(r)] # "a" \/ s[1] # "a"
  <2>1. CASE k < m
    <3>1. Len(r) = 0
      BY <1>2, <1>4, <2>1
    <3>. QED BY <1>4, <3>1, EmptySeq DEF Text
  <2>2. CASE n = k
    <3>1. Len(s) = 0
      BY <1>2, <1>5, <2>2
    <3>. QED BY <1>5, <3>1, EmptySeq DEF Text
  <2>3. CASE k >= m /\ n > k
    <3>1. r[Len(r)] = t[k]
      BY <1>2, <1>4, <2>3
    <3>2. s[1] = t[k + 1]
      BY <1>1, <1>2, <1>5, <2>3
    <3>. QED BY <2>3, <3>1, <3>2
  <2>. QED BY <1>1, <1>2, <2>1, <2>2, <2>3
<1>. QED BY <1>3, <1>4, <1>5, <1>6, <1>7, WordsMeet

Blank(c) == c = " "

\* A space is not a letter.
LEMMA BlankIsNoLetter == \A c : Blank(c) => c # "a"
  BY DEF Blank

\* Trimming leaves a part of the text, with spaces on either side, or nothing.
LEMMA StripParts ==
    ASSUME NEW t \in Text
    PROVE  \/ Strip(t) = <<>> /\ \A i \in 1 .. Len(t) : Blank(t[i])
           \/ \E a \in 1 .. Len(t) : \E b \in a .. Len(t) :
                 /\ Strip(t) = SubSeq(t, a, b)
                 /\ \A i \in 1 .. Len(t) : (i < a \/ b < i) => Blank(t[i])
<1>1. PICK L \in Nat : L = Len(t)
  BY DEF Text
<1>. DEFINE ink == {i \in DOMAIN t : t[i] # " "}
<1>3. DOMAIN t = 1 .. L
  BY <1>1 DEF Text
<1>5. Strip(t) = IF ink = {} THEN <<>>
                 ELSE SubSeq(t, CHOOSE i \in ink : \A j \in ink : i <= j,
                                CHOOSE i \in ink : \A j \in ink : j <= i)
  BY Zenon DEF Strip
<1>4. /\ ink \in SUBSET (1 .. L)
      /\ \A i \in 1 .. L : i \notin ink => Blank(t[i])
  <2>1. ink = {i \in DOMAIN t : ~Blank(t[i])}
    BY Zenon DEF Blank
  <2>. QED BY <1>3, <2>1
<1>. HIDE DEF ink
<1>6. CASE ink = {}
  BY <1>1, <1>4, <1>5, <1>6
<1>7. CASE ink # {}
  <2>1. ink \in SUBSET Nat /\ ink \in SUBSET (0 .. L)
    BY <1>4
  <2>2. \E i \in ink : \A j \in ink : i <= j
    BY <1>7, <2>1, Smallest
  <2>3. \E i \in ink : \A j \in ink : j <= i
    BY <1>7, <2>1, Largest
  <2>4. PICK a \in ink : a = (CHOOSE i \in ink : \A j \in ink : i <= j) /\ \A j \in ink : a <= j
    BY <2>2
  <2>5. PICK b \in ink : b = (CHOOSE i \in ink : \A j \in ink : j <= i) /\ \A j \in ink : j <= b
    BY <2>3
  <2>6. Strip(t) = SubSeq(t, a, b)
    BY <1>5, <1>7, <2>4, <2>5
  <2>7. a \in 1 .. L /\ b \in a .. L
    <3>1. a \in 1 .. L /\ b \in 1 .. L /\ a <= b
      BY <1>4, <2>4
    <3>. QED BY <3>1
  <2>8. \A i \in 1 .. L : (i < a \/ b < i) => Blank(t[i])
    BY <1>4, <2>4, <2>5, <2>7
  <2>. QED BY <1>1, <2>6, <2>7, <2>8
<1>. QED BY <1>6, <1>7

\* A part of a text without letters has no words.
LEMMA SilentPart ==
    ASSUME NEW t \in Text, NEW m \in 1 .. Len(t) + 1, NEW n \in m - 1 .. Len(t),
           \A i \in m .. n : t[i] # "a"
    PROVE  Words(SubSeq(t, m, n)) = <<>>
<1>1. Len(t) \in Nat
  BY DEF Text
<1>2. PICK r : r = SubSeq(t, m, n)
  OBVIOUS
<1>3. /\ r \in Text /\ Len(r) = n - m + 1
      /\ \A i \in 1 .. n - m + 1 : r[i] = t[m + i - 1]
  BY <1>2, Parts
<1>4. \A i \in 1 .. Len(r) : r[i] # "a"
  <2>1. TAKE i \in 1 .. Len(r)
  <2>2. m \in Int /\ n \in Int /\ i \in 1 .. n - m + 1
    BY <1>1, <1>3
  <2>3. m + i - 1 \in m .. n
    BY <2>2
  <2>. QED BY <1>3, <2>2, <2>3
<1>. QED BY <1>2, <1>3, <1>4, Silent

\* Trimming takes no word away, and what is blank has none.
LEMMA StripWords ==
    ASSUME NEW t \in Text
    PROVE  /\ Strip(t) \in Text /\ Len(Strip(t)) <= Len(t)
           /\ Words(Strip(t)) = Words(t)
<1>1. PICK L \in Nat : L = Len(t)
  BY DEF Text
<1>2. ASSUME Strip(t) = <<>>, \A i \in 1 .. Len(t) : Blank(t[i])
      PROVE  /\ Strip(t) \in Text /\ Len(Strip(t)) <= Len(t)
             /\ Words(Strip(t)) = Words(t)
  <2>1. Words(t) = <<>>
    <3>1. \A i \in 1 .. Len(t) : t[i] # "a"
      BY <1>2, BlankIsNoLetter
    <3>. QED BY <3>1, Silent
  <2>2. <<>> \in Text /\ Len(<<>>) = 0
    BY DEF Text
  <2>. QED BY <1>1, <1>2, <2>1, <2>2, WordsEmpty
<1>3. ASSUME NEW a \in 1 .. L, NEW b \in a .. L, Strip(t) = SubSeq(t, a, b),
             \A i \in 1 .. L : (i < a \/ b < i) => Blank(t[i])
      PROVE  /\ Strip(t) \in Text /\ Len(Strip(t)) <= Len(t)
             /\ Words(Strip(t)) = Words(t)
  <2>1. a \in Int /\ b \in Int /\ 1 <= a /\ a <= b /\ b <= L
    OBVIOUS
  <2>2. t = SubSeq(t, 1, L)
    BY <1>1, SubSeqFull DEF Text
  <2>3. Words(SubSeq(t, 1, L)) = Words(SubSeq(t, 1, a - 1)) \o Words(SubSeq(t, a, L))
    <3>1. PICK k : k = a - 1
      OBVIOUS
    <3>2. /\ 1 \in 1 .. L + 1 /\ k \in 1 - 1 .. L /\ L \in k .. L
          /\ k + 1 = a /\ (k < 1 \/ t[k] # "a")
      BY <1>3, <2>1, <3>1, BlankIsNoLetter
    <3>3. Words(SubSeq(t, 1, L)) = Words(SubSeq(t, 1, k)) \o Words(SubSeq(t, k + 1, L))
      BY <1>1, <3>2, PartsMeet
    <3>. QED BY <3>1, <3>2, <3>3
  <2>4. Words(SubSeq(t, a, L)) = Words(SubSeq(t, a, b)) \o Words(SubSeq(t, b + 1, L))
    <3>1. /\ a \in 1 .. L + 1 /\ b \in a - 1 .. L /\ L \in b .. L
          /\ (L = b \/ t[b + 1] # "a")
      BY <1>3, <2>1, BlankIsNoLetter
    <3>. QED BY <1>1, <3>1, PartsMeet
  <2>5. Words(SubSeq(t, 1, a - 1)) = <<>>
    <3>1. PICK k : k = a - 1
      OBVIOUS
    <3>2. 1 \in 1 .. L + 1 /\ k \in 1 - 1 .. L /\ \A i \in 1 .. k : t[i] # "a"
      BY <1>3, <2>1, <3>1, BlankIsNoLetter
    <3>3. Words(SubSeq(t, 1, k)) = <<>>
      BY <1>1, <3>2, SilentPart
    <3>. QED BY <3>1, <3>3
  <2>6. Words(SubSeq(t, b + 1, L)) = <<>>
    <3>1. PICK k : k = b + 1
      OBVIOUS
    <3>2. k \in 1 .. L + 1 /\ L \in k - 1 .. L /\ \A i \in k .. L : t[i] # "a"
      BY <1>3, <2>1, <3>1, BlankIsNoLetter
    <3>3. Words(SubSeq(t, k, L)) = <<>>
      BY <1>1, <3>2, SilentPart
    <3>. QED BY <3>1, <3>3
  <2>7. SubSeq(t, a, b) \in Text /\ Len(SubSeq(t, a, b)) = b - a + 1
    <3>1. a \in 1 .. L + 1 /\ b \in a - 1 .. L
      BY <2>1
    <3>. QED BY <1>1, <3>1, Parts
  <2>8. Words(t) = Words(SubSeq(t, a, b))
    <3>1. PICK w \in Seq(Nat) : w = Words(SubSeq(t, a, b))
      BY <2>7, WordsType
    <3>2. <<>> \o (w \o <<>>) = w
      BY ConcatEmptySeq
    <3>. QED BY <2>2, <2>3, <2>4, <2>5, <2>6, <3>1, <3>2
  <2>9. b - a + 1 <= L
    BY <2>1
  <2>. QED BY <1>1, <1>3, <2>7, <2>8, <2>9
<1>4. \/ Strip(t) = <<>> /\ \A i \in 1 .. Len(t) : Blank(t[i])
      \/ \E a \in 1 .. L : \E b \in a .. L :
            /\ Strip(t) = SubSeq(t, a, b)
            /\ \A i \in 1 .. L : (i < a \/ b < i) => Blank(t[i])
  BY <1>1, StripParts
<1>. QED BY <1>2, <1>3, <1>4

-----------------------------------------------------------------------------
(* Speech: sentences trimmed *)

\* Texts of bounded length.
LEMMA TextsAre ==
    ASSUME NEW n \in Nat
    PROVE  Texts(n) = {t \in Text : Len(t) <= n}
<1>1. ASSUME NEW t \in Texts(n) PROVE t \in Text /\ Len(t) <= n
  <2>1. PICK k \in 0 .. n : t \in [1 .. k -> Chars]
    BY DEF Texts
  <2>2. t \in Seq(Chars) /\ Len(t) = k
    BY <2>1
  <2>. QED BY <2>2 DEF Text
<1>2. ASSUME NEW t \in Text, Len(t) <= n PROVE t \in Texts(n)
  <2>1. PICK k \in 0 .. n : k = Len(t)
    BY <1>2 DEF Text
  <2>2. t \in [1 .. k -> Chars]
    BY <2>1 DEF Text
  <2>. QED BY <2>2 DEF Texts
<1>. QED BY <1>1, <1>2

\* One sentence trimmed, and kept unless it is blank.
Kept(done, s) == IF Strip(s) = <<>> THEN done ELSE Append(done, Strip(s))

\* A sentence trimmed, or dropped for being blank, leaves sentences.
LEMMA KeptType ==
    ASSUME NEW n \in Nat, NEW done \in Seq(Texts(n)), NEW s \in Texts(n)
    PROVE  Kept(done, s) \in Seq(Texts(n))
<1>1. s \in Text /\ Len(s) <= n /\ Len(s) \in Nat
  BY TextsAre DEF Text
<1>2. PICK r : r = Strip(s)
  OBVIOUS
<1>3. r \in Text /\ Len(r) <= Len(s) /\ Len(r) \in Nat
  BY <1>1, <1>2, StripWords DEF Text
<1>4. r \in Texts(n)
  <2>1. Len(r) <= n
    BY <1>1, <1>3
  <2>. QED BY <1>3, <2>1, TextsAre
<1>. QED BY <1>2, <1>4, AppendProperties DEF Kept

KeepsTo(f, S, base, L, cut) ==
    /\ f \in [0 .. L -> S] /\ f[0] = base
    /\ \A n \in 1 .. L : f[n] = Kept(f[n - 1], cut[n])

\* Trimming sentence by sentence can be folded.
LEMMA KeptSteps ==
    ASSUME NEW S, NEW e \in S, NEW L \in Nat, NEW cut,
           \A w \in S : \A n \in 1 .. L : Kept(w, cut[n]) \in S
    PROVE  \E f : KeepsTo(f, S, e, L, cut)
<1>. DEFINE step == [n \in 1 .. L |-> [w \in S |-> Kept(w, cut[n])]]
<1>1. step \in [1 .. L -> [S -> S]]
  OBVIOUS
<1>2. \A n \in 1 .. L, w \in S : step[n][w] = Kept(w, cut[n])
  OBVIOUS
<1>. HIDE DEF step
<1>3. PICK f : IsFold(f, S, e, L, step)
  BY <1>1, FoldIs, Zenon
<1>4. ASSUME NEW n \in 1 .. L PROVE f[n] = Kept(f[n - 1], cut[n])
  <2>1. n - 1 \in 0 .. L
    OBVIOUS
  <2>. QED BY <1>2, <1>3, <2>1 DEF IsFold
<1>. QED BY <1>3, <1>4 DEF IsFold, KeepsTo

\* Cleaned is that fold.
LEMMA CleanedFold ==
    ASSUME NEW m \in Nat, NEW cut \in Seq(Texts(m))
    PROVE  \E w \in [0 .. Len(cut) -> Seq(Texts(m))] :
              /\ w[0] = <<>>
              /\ \A n \in 1 .. Len(cut) : w[n] = Kept(w[n - 1], cut[n])
              /\ Cleaned(cut) = w[Len(cut)]
<1>1. PICK L \in Nat : L = Len(cut)
  OBVIOUS
<1>. DEFINE Def(f) == [n \in 0 .. L |-> IF n = 0 THEN <<>> ELSE Kept(f[n - 1], cut[n])]
<1>2. \A n \in 1 .. L : cut[n] \in Texts(m)
  BY <1>1, ElementOfSeq
<1>3. \A w \in Seq(Texts(m)) : \A n \in 1 .. L : Kept(w, cut[n]) \in Seq(Texts(m))
  BY <1>2, KeptType
<1>4. <<>> \in Seq(Texts(m))
  OBVIOUS
<1>5. \E f : f = Def(f)
  <2>1. PICK S : S = Seq(Texts(m))
    OBVIOUS
  <2>2. PICK e \in S : e = <<>>
    BY <1>4, <2>1
  <2>3. \A w \in S : \A n \in 1 .. L : Kept(w, cut[n]) \in S
    BY <1>3, <2>1
  <2>4. PICK f : KeepsTo(f, S, e, L, cut)
    BY <2>3, KeptSteps, Zenon
  <2>. QED BY <2>2, <2>4 DEF KeepsTo
<1>. DEFINE w == CHOOSE g : g = Def(g)
<1>6. w = Def(w)
  BY <1>5
<1>7. Cleaned(cut) = w[L]
  BY <1>1 DEF Cleaned, Kept
<1>. HIDE DEF w
<1>8. w[0] = <<>> /\ \A n \in 1 .. L : w[n] = Kept(w[n - 1], cut[n])
  BY <1>6
<1>9. DOMAIN w = 0 .. L /\ w = [n \in 0 .. L |-> w[n]]
  BY <1>6
<1>. HIDE DEF Def
<1>10. w \in [0 .. L -> Seq(Texts(m))]
  <2>1. \A n \in 1 .. L : w[n - 1] \in Seq(Texts(m)) => w[n] \in Seq(Texts(m))
    BY <1>3, <1>8
  <2>2. w[0] \in Seq(Texts(m))
    BY <1>4, <1>8
  <2>. QED BY <1>9, <2>1, <2>2, FoldTyped
<1>. QED BY <1>1, <1>7, <1>8, <1>10

\* Cleaning keeps the sentences short and takes no word away.
LEMMA CleanedWords ==
    ASSUME NEW m \in Nat, NEW cut \in Seq(Texts(m))
    PROVE  /\ Cleaned(cut) \in Seq(Texts(m))
           /\ Words(Joined(Cleaned(cut))) = Words(Joined(cut))
<1>1. PICK L \in Nat : L = Len(cut)
  OBVIOUS
<1>2. PICK w \in [0 .. L -> Seq(Texts(m))] :
         /\ w[0] = <<>> /\ Cleaned(cut) = w[L]
         /\ \A n \in 1 .. L : w[n] = Kept(w[n - 1], cut[n])
  BY <1>1, CleanedFold
<1>3. \A n \in 1 .. L : cut[n] \in Texts(m) /\ cut[n] \in Text
  BY <1>1, ElementOfSeq, TextsAre
<1>4. cut \in Seq(Text)
  BY <1>1, <1>3
<1>5. Seq(Texts(m)) \in SUBSET Seq(Text)
  <2>1. Texts(m) \in SUBSET Text
    BY TextsAre
  <2>. QED BY <2>1
<1>. DEFINE Head_(n) == SubSeq(cut, 1, n)
            T == {n \in Nat : n <= L => Words(Joined(w[n])) = Words(Joined(Head_(n)))}
<1>6. T \in SUBSET Nat
  OBVIOUS
<1>7. 0 \in T
  <2>1. SubSeq(cut, 1, 0) = <<>>
    BY <1>4
  <2>2. 0 <= L => Words(Joined(w[0])) = Words(Joined(Head_(0)))
    BY <1>2, <2>1
  <2>. QED BY <2>2
<1>8. ASSUME NEW n \in T PROVE n + 1 \in T
  <2>1. SUFFICES ASSUME n + 1 <= L PROVE Words(Joined(w[n + 1])) = Words(Joined(Head_(n + 1)))
    OBVIOUS
  <2>2. /\ n \in Nat /\ n \in 0 .. L /\ n + 1 \in 1 .. L /\ (n + 1) - 1 = n
        /\ Words(Joined(w[n])) = Words(Joined(Head_(n)))
    BY <2>1
  <2>3. PICK h : h = Head_(n)
    OBVIOUS
  <2>4. h \in Seq(Text) /\ Head_(n + 1) = Append(h, cut[n + 1])
    <3>1. n \in 0 .. Len(cut) /\ n < Len(cut)
      BY <1>1, <2>1, <2>2
    <3>. QED BY <1>4, <2>3, <3>1, FirstOf
  <2>. HIDE DEF Head_
  <2>5. PICK v : v = w[n]
    OBVIOUS
  <2>6. v \in Seq(Text) /\ w[n + 1] = Kept(v, cut[n + 1])
    BY <1>2, <1>5, <2>2, <2>5
  <2>7. PICK s \in Text : s = cut[n + 1]
    BY <1>3, <2>2
  <2>8. Words(Joined(Head_(n + 1))) = Words(Joined(v)) \o Words(s)
    <3>1. Words(Joined(Append(h, s))) = Words(Joined(h)) \o Words(s)
      BY <2>4, JoinedWords
    <3>. QED BY <2>2, <2>3, <2>4, <2>5, <2>7, <3>1
  <2>9. Words(Joined(Kept(v, s))) = Words(Joined(v)) \o Words(s)
    <3>1. PICK r : r = Strip(s)
      OBVIOUS
    <3>2. r \in Text /\ Words(r) = Words(s)
      BY <3>1, StripWords
    <3>3. CASE r = <<>>
      <4>1. Words(s) = <<>>
        BY <3>2, <3>3, WordsEmpty
      <4>2. Words(Joined(v)) \in Seq(Nat)
        BY <2>6, JoinedType, WordsType
      <4>3. Words(Joined(v)) \o <<>> = Words(Joined(v))
        BY <4>2, ConcatEmptySeq
      <4>. QED BY <3>1, <3>3, <4>1, <4>3 DEF Kept
    <3>4. CASE r # <<>>
      <4>1. Words(Joined(Append(v, r))) = Words(Joined(v)) \o Words(r)
        BY <2>6, <3>2, JoinedWords
      <4>. QED BY <3>1, <3>2, <3>4, <4>1 DEF Kept
    <3>. QED BY <3>3, <3>4
  <2>. QED BY <2>6, <2>7, <2>8, <2>9
<1>. HIDE DEF T
<1>9. L \in T
  BY <1>6, <1>7, <1>8, NatSet
<1>10. SubSeq(cut, 1, L) = cut
  BY <1>1, SubSeqFull
<1>11. Cleaned(cut) \in Seq(Texts(m))
  <2>1. L \in 0 .. L
    OBVIOUS
  <2>. QED BY <1>2, <2>1
<1>12. Words(Joined(w[L])) = Words(Joined(SubSeq(cut, 1, L)))
  BY <1>9 DEF T
<1>. QED BY <1>2, <1>10, <1>11, <1>12

-----------------------------------------------------------------------------
(* Speech: one character *)

Dot(c) == c = "."

\* A character is a letter, a space or a stop.
LEMMA Characters == \A c \in Chars : c = "a" <=> ~(Blank(c) \/ Dot(c))
  BY Zenon DEF Chars, Blank, Dot

\* LastSpace is the place of the last space, or 0.
LEMMA LastSpaceIs ==
    ASSUME NEW t \in Text
    PROVE  /\ LastSpace(t) \in 0 .. Len(t)
           /\ LastSpace(t) # 0 => Blank(t[LastSpace(t)])
           /\ \A j \in LastSpace(t) + 1 .. Len(t) : ~Blank(t[j])
<1>1. PICK L \in Nat : L = Len(t)
  BY DEF Text
<1>2. PICK I : I = {i \in 0 .. L : i # 0 => Blank(t[i])}
  OBVIOUS
<1>3. I \in SUBSET (0 .. L) /\ 0 \in I
  BY <1>2
<1>4. PICK i \in I : \A j \in I : j <= i
  <2>1. I # {}
    BY <1>3
  <2>. QED BY <1>3, <2>1, Largest
<1>5. i \in 0 .. L /\ (i # 0 => Blank(t[i]))
  BY <1>2
<1>6. \A j \in i + 1 .. L : ~Blank(t[j])
  <2>1. SUFFICES ASSUME NEW j \in i + 1 .. L, Blank(t[j]) PROVE FALSE
    OBVIOUS
  <2>2. j \in 0 .. L /\ j > i
    BY <1>5
  <2>3. j \in I
    BY <1>2, <2>1, <2>2
  <2>. QED BY <1>4, <1>5, <2>2, <2>3
<1>. DEFINE P(k) == /\ k # 0 => Blank(t[k])
                    /\ \A j \in k + 1 .. L : ~Blank(t[j])
            c == CHOOSE k \in 0 .. L : P(k)
<1>7. LastSpace(t) = c
  BY <1>1, Zenon DEF LastSpace, Blank
<1>8. c \in 0 .. L /\ P(c)
  <2>1. P(i)
    BY <1>5, <1>6
  <2>. HIDE DEF P
  <2>. QED BY <1>5, <2>1
<1>. HIDE DEF c
<1>. QED BY <1>1, <1>7, <1>8

Split == [sentences : Seq(Text), buffer : Text, closing : BOOLEAN]

\* The four things a character does.
AddsStop(v, ch)  == [sentences |-> [v.sentences EXCEPT ![Len(v.sentences)] = Append(@, ch)],
                    buffer |-> v.buffer, closing |-> v.closing]
Closes(v, ch)   == [sentences |-> Append(v.sentences, Append(v.buffer, ch)),
                    buffer |-> <<>>, closing |-> TRUE]
CutAt(v, b, k)  == [sentences |-> Append(v.sentences, SubSeq(b, 1, k - 1)),
                    buffer |-> SubSeq(b, k + 1, Len(b)), closing |-> FALSE]
CutHere(v, b)   == [sentences |-> Append(v.sentences, b), buffer |-> <<>>, closing |-> FALSE]
Goes(v, b)      == [sentences |-> v.sentences, buffer |-> b, closing |-> FALSE]

Record(s, b, c) == [sentences |-> s, buffer |-> b, closing |-> c]
SetBC(r, x, y) == [r EXCEPT !.buffer = x, !.closing = y]
SetSB(r, x, y) == [r EXCEPT !.sentences = x, !.buffer = y]

\* Two fields of a split in progress are set, the third stays.
LEMMA SplitChanges ==
    ASSUME NEW s, NEW b, NEW c, NEW x, NEW y
    PROVE  /\ SetBC(Record(s, b, c), x, y) = Record(s, x, y)
           /\ SetSB(Record(s, b, c), x, y) = Record(x, y, c)
<1>1. [[sentences |-> s, buffer |-> b, closing |-> c] EXCEPT !.buffer = x]
        = [sentences |-> s, buffer |-> x, closing |-> c]
  OBVIOUS
<1>2. [[sentences |-> s, buffer |-> x, closing |-> c] EXCEPT !.closing = y]
        = [sentences |-> s, buffer |-> x, closing |-> y]
  OBVIOUS
<1>3. [[sentences |-> s, buffer |-> b, closing |-> c] EXCEPT !.sentences = x]
        = [sentences |-> x, buffer |-> b, closing |-> c]
  OBVIOUS
<1>4. [[sentences |-> x, buffer |-> b, closing |-> c] EXCEPT !.buffer = y]
        = [sentences |-> x, buffer |-> y, closing |-> c]
  OBVIOUS
<1>5. \A r : /\ [r EXCEPT !.buffer = x, !.closing = y] = [[r EXCEPT !.buffer = x] EXCEPT !.closing = y]
             /\ [r EXCEPT !.sentences = x, !.buffer = y] = [[r EXCEPT !.sentences = x] EXCEPT !.buffer = y]
  OBVIOUS
<1>. QED BY <1>1, <1>2, <1>3, <1>4, <1>5 DEF Record, SetBC, SetSB

\* The same of a record known by its fields: buffer and closing.
LEMMA SetsBC ==
    ASSUME NEW v, NEW s, NEW b, NEW c, NEW x, NEW y, v = Record(s, b, c)
    PROVE  SetBC(v, x, y) = Record(s, x, y)
  BY SplitChanges

\* Sentences and buffer.
LEMMA SetsSB ==
    ASSUME NEW v, NEW s, NEW b, NEW c, NEW x, NEW y, v = Record(s, b, c)
    PROVE  SetSB(v, x, y) = Record(x, y, c)
  BY SplitChanges

\* The four things one character does to a split in progress.
LEMMA TakeIs ==
    ASSUME NEW v \in Split, NEW ch \in Chars
    PROVE  Take(v, ch) =
             IF Dot(ch) /\ v.closing THEN AddsStop(v, ch)
             ELSE IF Dot(ch) THEN Closes(v, ch)
             ELSE IF ~(Len(Append(v.buffer, ch)) >= MaxSentenceChars)
                  THEN Goes(v, Append(v.buffer, ch))
             ELSE IF LastSpace(Append(v.buffer, ch)) > 1
                  THEN CutAt(v, Append(v.buffer, ch), LastSpace(Append(v.buffer, ch)))
             ELSE CutHere(v, Append(v.buffer, ch))
<1>1. PICK s, b, c, l : s = v.sentences /\ b = v.buffer /\ c = v.closing /\ l = Append(b, ch)
  OBVIOUS
<1>2. v = Record(s, b, c)
  BY <1>1 DEF Split, Record
<1>3. PICK no : no = FALSE
  OBVIOUS
<1>4. PICK g : g = Goes(v, l)
  OBVIOUS
<1>5. g = Record(s, l, no)
  BY <1>1, <1>3, <1>4 DEF Goes, Record
<1>6. SetBC(v, l, no) = g
  BY <1>2, <1>5, SetsBC
<1>7. [v EXCEPT !.buffer = Append(@, ch), !.closing = FALSE] = g
  BY <1>1, <1>3, <1>6, Zenon DEF SetBC
<1>8. ch \in Terminators <=> Dot(ch)
  BY Zenon DEF Terminators, Dot
<1>9. [v EXCEPT !.sentences[Len(v.sentences)] = Append(@, ch)] = AddsStop(v, ch)
  <2>1. PICK n, e : n = Len(s) /\ e = Append(s[Len(s)], ch)
    OBVIOUS
  <2>2. [[sentences |-> s, buffer |-> b, closing |-> c] EXCEPT !.sentences[n] = e]
          = [sentences |-> [s EXCEPT ![n] = e], buffer |-> b, closing |-> c]
    OBVIOUS
  <2>3. [v EXCEPT !.sentences[n] = e]
          = [sentences |-> [s EXCEPT ![n] = e], buffer |-> b, closing |-> c]
    BY <1>2, <2>2 DEF Record
  <2>. QED BY <1>1, <2>1, <2>3 DEF AddsStop
<1>10. ForceCut(g) = IF LastSpace(l) > 1 THEN CutAt(v, l, LastSpace(l)) ELSE CutHere(v, l)
  <2>1. PICK k : k = LastSpace(l)
    OBVIOUS
  <2>2. g.buffer = l /\ g.sentences = s
    BY <1>5 DEF Record
  <2>3. SetSB(g, Append(s, SubSeq(l, 1, k - 1)), SubSeq(l, k + 1, Len(l)))
          = Record(Append(s, SubSeq(l, 1, k - 1)), SubSeq(l, k + 1, Len(l)), no)
    BY <1>5, SetsSB
  <2>4. SetSB(g, Append(s, l), <<>>) = Record(Append(s, l), <<>>, no)
    BY <1>5, SetsSB
  <2>5. CutAt(v, l, k) = Record(Append(s, SubSeq(l, 1, k - 1)), SubSeq(l, k + 1, Len(l)), no)
    BY <1>1, <1>3, Zenon DEF CutAt, Record
  <2>6. CutHere(v, l) = Record(Append(s, l), <<>>, no)
    BY <1>1, <1>3, Zenon DEF CutHere, Record
  <2>7. [g EXCEPT !.sentences = Append(@, SubSeq(g.buffer, 1, k - 1)),
                  !.buffer = SubSeq(@, k + 1, Len(@))]
          = SetSB(g, Append(s, SubSeq(l, 1, k - 1)), SubSeq(l, k + 1, Len(l)))
    BY <2>2, Zenon DEF SetSB
  <2>8. [g EXCEPT !.sentences = Append(@, g.buffer), !.buffer = <<>>] = SetSB(g, Append(s, l), <<>>)
    BY <2>2, Zenon DEF SetSB
  <2>. QED BY <2>1, <2>2, <2>3, <2>4, <2>5, <2>6, <2>7, <2>8 DEF ForceCut
<1>11. [sentences |-> Append(v.sentences, g.buffer), buffer |-> <<>>, closing |-> TRUE] = Closes(v, ch)
  <2>1. g.buffer = Append(v.buffer, ch)
    BY <1>1, <1>5 DEF Record
  <2>. QED BY <2>1, Zenon DEF Closes
<1>12. g.buffer = l
  BY <1>5 DEF Record
<1>13. Take(v, ch) = IF Dot(ch) /\ v.closing THEN AddsStop(v, ch)
                     ELSE IF Dot(ch) THEN Closes(v, ch)
                     ELSE IF Len(l) >= MaxSentenceChars THEN ForceCut(g) ELSE g
  BY <1>7, <1>8, <1>9, <1>11, <1>12 DEF Take
<1>. QED BY <1>1, <1>4, <1>10, <1>13

\* A part of a text grows by the character behind it.
LEMMA PartGrows ==
    ASSUME NEW t \in Text, NEW m \in 1 .. Len(t) + 1, NEW n \in m - 1 .. Len(t) - 1
    PROVE  Append(SubSeq(t, m, n), t[n + 1]) = SubSeq(t, m, n + 1)
<1>1. Len(t) \in Nat
  BY DEF Text
<1>2. m \in Int /\ n \in Int /\ n \in m - 1 .. Len(t) /\ n + 1 \in m - 1 .. Len(t) /\ n + 1 \in 1 .. Len(t)
  BY <1>1
<1>3. PICK r, u : r = SubSeq(t, m, n) /\ u = SubSeq(t, m, n + 1)
  OBVIOUS
<1>4. r \in Text /\ Len(r) = n - m + 1 /\ \A i \in 1 .. n - m + 1 : r[i] = t[m + i - 1]
  BY <1>2, <1>3, Parts
<1>5. /\ u \in Text /\ Len(u) = n - m + 2 /\ \A i \in 1 .. n - m + 2 : u[i] = t[m + i - 1]
  <2>1. PICK k : k = n + 1
    OBVIOUS
  <2>2. k \in m - 1 .. Len(t)
    BY <1>2, <2>1
  <2>3. /\ SubSeq(t, m, k) \in Text /\ Len(SubSeq(t, m, k)) = k - m + 1
        /\ \A i \in 1 .. k - m + 1 : SubSeq(t, m, k)[i] = t[m + i - 1]
    BY <2>2, Parts
  <2>4. k - m + 1 = n - m + 2
    BY <1>2, <2>1
  <2>. QED BY <1>3, <2>1, <2>3, <2>4
<1>6. t[n + 1] \in Chars
  BY <1>2, ElementOfSeq DEF Text
<1>7. PICK c \in Chars : c = t[n + 1]
  BY <1>6
<1>8. /\ Append(r, c) \in Seq(Chars) /\ Len(Append(r, c)) = Len(r) + 1 /\ Append(r, c)[Len(r) + 1] = c
      /\ \A i \in 1 .. Len(r) : Append(r, c)[i] = r[i]
  BY <1>4, AppendProperties DEF Text
<1>9. PICK w : w = Append(r, c)
  OBVIOUS
<1>10. w \in Seq(Chars) /\ u \in Seq(Chars) /\ Len(w) = Len(u) /\ Len(u) = n - m + 2
  BY <1>2, <1>4, <1>5, <1>8, <1>9 DEF Text
<1>11. ASSUME NEW i \in 1 .. Len(w) PROVE w[i] = u[i]
  <2>1. i \in 1 .. n - m + 2 /\ i \in Int
    BY <1>2, <1>10
  <2>2. CASE i = n - m + 2
    <3>1. i = Len(r) + 1 /\ m + i - 1 = n + 1
      BY <1>2, <1>4, <2>2
    <3>. QED BY <1>5, <1>7, <1>8, <1>9, <2>1, <3>1
  <2>3. CASE i # n - m + 2
    <3>1. i \in 1 .. Len(r) /\ i \in 1 .. n - m + 1
      BY <1>2, <1>4, <2>1, <2>3
    <3>. QED BY <1>4, <1>5, <1>8, <1>9, <2>1, <3>1
  <2>. QED BY <2>2, <2>3
<1>12. w = u
  BY <1>10, <1>11, SeqEqual
<1>. QED BY <1>3, <1>7, <1>9, <1>12

\* A part of a part of a text.
LEMMA PartsOfParts ==
    ASSUME NEW t \in Text, NEW m \in 1 .. Len(t) + 1, NEW n \in m - 1 .. Len(t),
           NEW i \in 1 .. n - m + 2, NEW j \in i - 1 .. n - m + 1
    PROVE  SubSeq(SubSeq(t, m, n), i, j) = SubSeq(t, m + i - 1, m + j - 1)
<1>1. Len(t) \in Nat
  BY DEF Text
<1>2. m \in Int /\ n \in Int /\ i \in Int /\ j \in Int
  BY <1>1
<1>3. PICK r : r = SubSeq(t, m, n)
  OBVIOUS
<1>4. r \in Text /\ Len(r) = n - m + 1 /\ \A k \in 1 .. n - m + 1 : r[k] = t[m + k - 1]
  BY <1>3, Parts
<1>5. PICK a, b : a = m + i - 1 /\ b = m + j - 1
  OBVIOUS
<1>6. /\ a \in 1 .. Len(t) + 1 /\ b \in a - 1 .. Len(t) /\ b - a + 1 = j - i + 1
      /\ a \in Int /\ b \in Int
  BY <1>1, <1>2, <1>5
<1>7. /\ SubSeq(t, a, b) \in Text /\ Len(SubSeq(t, a, b)) = b - a + 1
      /\ \A k \in 1 .. b - a + 1 : SubSeq(t, a, b)[k] = t[a + k - 1]
  BY <1>6, Parts
<1>8. /\ SubSeq(r, i, j) \in Text /\ Len(SubSeq(r, i, j)) = j - i + 1
      /\ \A k \in 1 .. j - i + 1 : SubSeq(r, i, j)[k] = r[i + k - 1]
  <2>1. i \in 1 .. Len(r) + 1 /\ j \in i - 1 .. Len(r)
    BY <1>2, <1>4
  <2>. QED BY <1>4, <2>1, Parts
<1>9. PICK u, w : u = SubSeq(r, i, j) /\ w = SubSeq(t, a, b)
  OBVIOUS
<1>10. u \in Seq(Chars) /\ w \in Seq(Chars) /\ Len(u) = Len(w) /\ Len(u) = j - i + 1
  BY <1>6, <1>7, <1>8, <1>9 DEF Text
<1>11. ASSUME NEW k \in 1 .. Len(u) PROVE u[k] = w[k]
  <2>1. k \in 1 .. j - i + 1 /\ k \in 1 .. b - a + 1 /\ k \in Int
    BY <1>2, <1>6, <1>10
  <2>2. i + k - 1 \in 1 .. n - m + 1 /\ m + (i + k - 1) - 1 = a + k - 1
    BY <1>2, <1>5, <2>1
  <2>. QED BY <1>4, <1>7, <1>8, <1>9, <2>1, <2>2
<1>12. u = w
  BY <1>10, <1>11, SeqEqual
<1>. QED BY <1>3, <1>5, <1>9, <1>12

-----------------------------------------------------------------------------
(* Where the text may be cut *)

\* The word that ends here, if any, is as long as a word can be.
Hard(t, p) == /\ p >= MaxSentenceChars - 1
              /\ \A i \in p - MaxSentenceChars + 2 .. p : t[i] = "a"

SafeCut(t, p) == p = 0 \/ t[p] # "a" \/ Hard(t, p)

\* In a text without long words a safe cut has no letter on one of its sides.
LEMMA CutIsSafe ==
    ASSUME NEW t \in Text, NEW p \in 0 .. Len(t) - 1, SafeCut(t, p), ShortWords(t)
    PROVE  p < 1 \/ t[p] # "a" \/ t[p + 1] # "a"
<1>1. Len(t) \in Nat /\ DOMAIN t = 1 .. Len(t) /\ MaxSentenceChars \in Nat \ {0}
  BY SpeechAssumption DEF Text
<1>2. SUFFICES ASSUME Hard(t, p) PROVE t[p + 1] # "a"
  BY DEF SafeCut
<1>3. PICK i : i = p - MaxSentenceChars + 2
  OBVIOUS
<1>4. i \in 1 .. Len(t) /\ i + MaxSentenceChars - 1 = p + 1 /\ p \in Int /\ i \in Int /\ p + 1 \in 1 .. Len(t)
  BY <1>1, <1>2, <1>3 DEF Hard
<1>5. PICK j \in i .. i + MaxSentenceChars - 1 : j \in DOMAIN t => t[j] # "a"
  BY <1>1, <1>4 DEF ShortWords
<1>6. j \in DOMAIN t /\ (j \in i .. p \/ j = p + 1)
  BY <1>1, <1>4
<1>. QED BY <1>2, <1>3, <1>5, <1>6 DEF Hard

\* What comes after a safe cut is a sentence of its own.
LEMMA SentenceEnds ==
    ASSUME NEW t \in Text, NEW cut \in Seq(Text), NEW q \in 0 .. Len(t), NEW p \in 0 .. q,
           SafeCut(t, p), ShortWords(t), Words(Joined(cut)) = Words(SubSeq(t, 1, p))
    PROVE  Words(Joined(Append(cut, SubSeq(t, p + 1, q)))) = Words(SubSeq(t, 1, q))
<1>1. Len(t) \in Nat
  BY DEF Text
<1>2. /\ p \in Int /\ q \in Int /\ 1 \in 1 .. Len(t) + 1 /\ p \in 1 - 1 .. Len(t) /\ q \in p .. Len(t)
      /\ p + 1 \in 1 .. Len(t) + 1 /\ q \in (p + 1) - 1 .. Len(t)
  BY <1>1
<1>3. p < 1 \/ q = p \/ t[p] # "a" \/ t[p + 1] # "a"
  <2>1. CASE q = p
    BY <2>1
  <2>2. CASE q # p
    <3>1. p \in 0 .. Len(t) - 1
      BY <1>1, <1>2, <2>2
    <3>. QED BY <3>1, CutIsSafe
  <2>. QED BY <2>1, <2>2
<1>4. Words(SubSeq(t, 1, q)) = Words(SubSeq(t, 1, p)) \o Words(SubSeq(t, p + 1, q))
  BY <1>2, <1>3, PartsMeet
<1>5. SubSeq(t, p + 1, q) \in Text
  BY <1>2, Parts
<1>6. Words(Joined(Append(cut, SubSeq(t, p + 1, q)))) = Words(Joined(cut)) \o Words(SubSeq(t, p + 1, q))
  BY <1>5, JoinedWords
<1>. QED BY <1>4, <1>6

\* A space or a stop adds no word.
LEMMA NoLetter ==
    ASSUME NEW t \in Text, NEW q \in 0 .. Len(t) - 1, t[q + 1] # "a"
    PROVE  Words(SubSeq(t, 1, q + 1)) = Words(SubSeq(t, 1, q))
<1>1. Len(t) \in Nat
  BY DEF Text
<1>2. q \in 0 .. Len(t) /\ q < Len(t) /\ q + 1 \in 1 .. Len(t)
  BY <1>1
<1>3. PICK r : r = SubSeq(t, 1, q)
  OBVIOUS
<1>4. r \in Text /\ SubSeq(t, 1, q + 1) = Append(r, t[q + 1])
  BY <1>2, <1>3, FirstOf DEF Text
<1>5. PICK c \in Chars : c = t[q + 1]
  BY <1>2, ElementOfSeq DEF Text
<1>6. Words(Append(r, c)) = Words(r)
  BY <1>4, <1>5, WordsAppend DEF Heard
<1>. QED BY <1>3, <1>4, <1>5, <1>6

-----------------------------------------------------------------------------
(* Speech: the chunker *)

\* The first n characters of t are cut up to the p-th into the sentences s.
CutSoFar(t, n, p, s, c) ==
    /\ s \in Seq(Texts(n)) /\ p \in 0 .. n
    /\ c \in BOOLEAN /\ (c => s # <<>> /\ p = n)
    /\ \A i \in p + 1 .. n : ~Dot(t[i])
    /\ ShortWords(t) => /\ Words(Joined(s)) = Words(SubSeq(t, 1, p))
                        /\ SafeCut(t, p)

\* Texts of bounded length are texts of a greater bound.
LEMMA Longer ==
    ASSUME NEW n \in Nat
    PROVE  /\ Seq(Texts(n)) \in SUBSET Seq(Texts(n + 1)) /\ Seq(Texts(n)) \in SUBSET Seq(Text)
           /\ Texts(n) \in SUBSET Text
<1>1. Texts(n) = {t \in Text : Len(t) <= n} /\ Texts(n + 1) = {t \in Text : Len(t) <= n + 1}
  BY TextsAre
<1>2. \A t \in Text : Len(t) \in Nat
  BY DEF Text
<1>3. Texts(n) \in SUBSET Texts(n + 1) /\ Texts(n) \in SUBSET Text
  BY <1>1, <1>2
<1>. QED BY <1>3

\* A stop that follows a stop ends the sentence before it once more.
LEMMA AddsStopCuts ==
    ASSUME NEW t \in Text, NEW n \in 0 .. Len(t) - 1, NEW p, NEW s, NEW c,
           CutSoFar(t, n, p, s, c), Dot(t[n + 1]), c
    PROVE  CutSoFar(t, n + 1, n + 1, [s EXCEPT ![Len(s)] = Append(@, t[n + 1])], c)
<1>1. Len(t) \in Nat /\ n \in Nat /\ n + 1 \in 1 .. Len(t)
  BY DEF Text
<1>2. PICK d \in Chars : d = t[n + 1]
  BY <1>1, ElementOfSeq DEF Text
<1>3. d # "a"
  BY <1>2, Characters
<1>4. s \in Seq(Texts(n)) /\ s # <<>> /\ p = n
  BY DEF CutSoFar
<1>5. PICK b \in Seq(Texts(n)), e \in Texts(n) : s = Append(b, e)
  BY <1>4, SequenceEmptyOrAppend
<1>6. e \in Text /\ Len(e) <= n /\ Len(e) \in Nat /\ b \in Seq(Text) /\ b \in Seq(Texts(n + 1))
      /\ e \in Texts(n + 1)
  <2>1. e \in Text /\ Len(e) <= n /\ Len(e) \in Nat
    BY <1>1, TextsAre DEF Text
  <2>2. b \in Seq(Text) /\ b \in Seq(Texts(n + 1))
    BY <1>1, Longer
  <2>3. e \in Texts(n + 1)
    BY <1>1, <2>1, TextsAre
  <2>. QED BY <2>1, <2>2, <2>3
<1>7. PICK g : g = Append(e, d)
  OBVIOUS
<1>8. g \in Text /\ Len(g) = Len(e) + 1
  BY <1>6, <1>7, AppendProperties DEF Text
<1>9. g \in Texts(n + 1)
  BY <1>1, <1>6, <1>8, TextsAre
<1>10. PICK r : r = [s EXCEPT ![Len(s)] = Append(@, t[n + 1])]
  OBVIOUS
<1>11. r = Append(b, g)
  <2>1. s[Len(s)] = e
    BY <1>5, AppendProperties
  <2>2. r = [s EXCEPT ![Len(s)] = g]
    BY <1>2, <1>7, <1>10, <2>1
  <2>3. [Append(b, e) EXCEPT ![Len(Append(b, e))] = g] = Append(b, g)
    BY <1>6, <1>9, LastChanges
  <2>. QED BY <1>5, <2>2, <2>3
<1>12. r \in Seq(Texts(n + 1)) /\ r # <<>>
  BY <1>6, <1>9, <1>11, AppendProperties
<1>13. ShortWords(t) => Words(Joined(r)) = Words(SubSeq(t, 1, n + 1))
  <2>1. Words(Joined(s)) = Words(Joined(b)) \o Words(e)
    BY <1>5, <1>6, JoinedWords
  <2>2. Words(Joined(r)) = Words(Joined(b)) \o Words(g)
    BY <1>6, <1>8, <1>11, JoinedWords
  <2>3. Words(g) = Words(e)
    BY <1>3, <1>6, <1>7, WordsAppend DEF Heard
  <2>4. Words(SubSeq(t, 1, n + 1)) = Words(SubSeq(t, 1, n))
    BY <1>2, <1>3, NoLetter
  <2>5. ShortWords(t) => Words(Joined(s)) = Words(SubSeq(t, 1, n))
    BY <1>4 DEF CutSoFar
  <2>. QED BY <2>1, <2>2, <2>3, <2>4, <2>5
<1>14. SafeCut(t, n + 1)
  BY <1>2, <1>3 DEF SafeCut
<1>15. n + 1 \in 0 .. n + 1 /\ (n + 1) + 1 .. n + 1 = {}
  BY <1>1
<1>16. CutSoFar(t, n + 1, n + 1, r, c)
  BY <1>12, <1>13, <1>14, <1>15 DEF CutSoFar
<1>. QED BY <1>10, <1>16

\* A cut at q, after p, with or without a character dropped there.
LEMMA CutAgain ==
    ASSUME NEW t \in Text, NEW n \in 0 .. Len(t) - 1, NEW p, NEW s, NEW c,
           CutSoFar(t, n, p, s, c),
           NEW q \in p .. n + 1, NEW r \in {q, q + 1}, r <= n + 1,
           r = q + 1 => t[r] # "a",
           SafeCut(t, r),
           NEW z \in BOOLEAN, z => r = n + 1,
           \A i \in r + 1 .. n + 1 : ~Dot(t[i])
    PROVE  CutSoFar(t, n + 1, r, Append(s, SubSeq(t, p + 1, q)), z)
<1>1. Len(t) \in Nat /\ n \in Nat /\ p \in 0 .. n /\ s \in Seq(Texts(n))
  BY DEF CutSoFar, Text
<1>2. p \in Nat /\ q \in Nat /\ r \in Nat /\ q \in 0 .. Len(t) /\ p \in 0 .. q /\ q <= n + 1
  BY <1>1
<1>3. PICK e : e = SubSeq(t, p + 1, q)
  OBVIOUS
<1>4. e \in Text /\ Len(e) <= n + 1
  <2>1. p + 1 \in 1 .. Len(t) + 1 /\ q \in (p + 1) - 1 .. Len(t) /\ q - (p + 1) + 1 <= n + 1
    BY <1>1, <1>2
  <2>. QED BY <1>3, <2>1, Parts
<1>5. e \in Texts(n + 1)
  BY <1>1, <1>4, TextsAre
<1>6. s \in Seq(Texts(n + 1)) /\ s \in Seq(Text)
  BY <1>1, Longer
<1>7. Append(s, e) \in Seq(Texts(n + 1)) /\ Append(s, e) # <<>>
  BY <1>5, <1>6, AppendProperties
<1>8. ASSUME ShortWords(t) PROVE Words(Joined(Append(s, e))) = Words(SubSeq(t, 1, r))
  <2>1. SafeCut(t, p) /\ Words(Joined(s)) = Words(SubSeq(t, 1, p))
    BY <1>8 DEF CutSoFar
  <2>2. Words(Joined(Append(s, e))) = Words(SubSeq(t, 1, q))
    BY <1>2, <1>3, <1>6, <1>8, <2>1, SentenceEnds
  <2>3. CASE r = q
    BY <2>2, <2>3
  <2>4. CASE r = q + 1
    <3>1. q \in 0 .. Len(t) - 1 /\ t[q + 1] # "a"
      BY <1>1, <1>2, <2>4
    <3>. QED BY <2>2, <2>4, <3>1, NoLetter
  <2>. QED BY <2>3, <2>4
<1>9. r \in 0 .. n + 1
  BY <1>1, <1>2
<1>. QED BY <1>3, <1>7, <1>8, <1>9 DEF CutSoFar

\* Whatever one character does, what is cut has the words of the text up to a
\* place that is safe, and the buffer is the text from there on.
LEMMA TakeCuts ==
    ASSUME NEW t \in Text, NEW n \in 0 .. Len(t) - 1, NEW v \in Split, NEW p,
           CutSoFar(t, n, p, v.sentences, v.closing), v.buffer = SubSeq(t, p + 1, n)
    PROVE  LET w == Take(v, t[n + 1]) IN
           \E q : /\ CutSoFar(t, n + 1, q, w.sentences, w.closing)
                  /\ w.buffer = SubSeq(t, q + 1, n + 1)
<1>1. /\ Len(t) \in Nat /\ n \in Nat /\ n + 1 \in 1 .. Len(t) /\ p \in 0 .. n /\ p \in Nat
      /\ p + 1 \in 1 .. Len(t) + 1 /\ n \in (p + 1) - 1 .. Len(t) - 1
      /\ n + 1 \in (p + 1) - 1 .. Len(t)
  BY DEF CutSoFar, Text
<1>2. PICK ch \in Chars : ch = t[n + 1]
  BY <1>1, ElementOfSeq DEF Text
<1>3. PICK l : l = Append(v.buffer, ch)
  OBVIOUS
<1>4. l = SubSeq(t, p + 1, n + 1)
  BY <1>1, <1>2, <1>3, PartGrows
<1>5. /\ l \in Text /\ Len(l) = n + 1 - p
      /\ \A i \in 1 .. n + 1 - p : l[i] = t[p + i]
  <2>1. PICK m, k : m = p + 1 /\ k = n + 1
    OBVIOUS
  <2>2. m \in 1 .. Len(t) + 1 /\ k \in m - 1 .. Len(t)
    BY <1>1, <2>1
  <2>3. /\ SubSeq(t, m, k) \in Text /\ Len(SubSeq(t, m, k)) = k - m + 1
        /\ \A i \in 1 .. k - m + 1 : SubSeq(t, m, k)[i] = t[m + i - 1]
    BY <2>2, Parts
  <2>4. l \in Text /\ Len(l) = k - m + 1 /\ \A i \in 1 .. k - m + 1 : l[i] = t[m + i - 1]
    BY <1>4, <2>1, <2>3
  <2>5. k - m + 1 = n + 1 - p
    BY <1>1, <2>1
  <2>6. ASSUME NEW i \in 1 .. n + 1 - p PROVE l[i] = t[p + i]
    <3>1. m + i - 1 = p + i /\ i \in 1 .. k - m + 1
      BY <1>1, <2>1, <2>5
    <3>. QED BY <2>4, <3>1
  <2>. QED BY <2>4, <2>5, <2>6
<1>6. PICK w : w = Take(v, t[n + 1])
  OBVIOUS
<1>7. SubSeq(t, (n + 1) + 1, n + 1) = <<>>
  BY <1>1, SubSeqEmpty
<1>8. SUFFICES \E q : /\ CutSoFar(t, n + 1, q, w.sentences, w.closing)
                      /\ w.buffer = SubSeq(t, q + 1, n + 1)
  BY <1>6
<1>9. CASE Dot(ch) /\ v.closing
  <2>1. w = AddsStop(v, ch)
    BY <1>2, <1>6, <1>9, TakeIs
  <2>2. /\ w.sentences = [v.sentences EXCEPT ![Len(v.sentences)] = Append(@, t[n + 1])]
        /\ w.closing = v.closing /\ w.buffer = v.buffer
    BY <1>2, <2>1 DEF AddsStop
  <2>3. CutSoFar(t, n + 1, n + 1, w.sentences, w.closing)
    <3>1. PICK s, c : s = v.sentences /\ c = v.closing
      OBVIOUS
    <3>2. CutSoFar(t, n, p, s, c) /\ Dot(t[n + 1]) /\ c
      BY <1>2, <1>9, <3>1
    <3>3. CutSoFar(t, n + 1, n + 1, [s EXCEPT ![Len(s)] = Append(@, t[n + 1])], c)
      BY <3>2, AddsStopCuts, Zenon
    <3>. QED BY <2>2, <3>1, <3>3
  <2>4. p = n
    BY <1>9 DEF CutSoFar
  <2>5. v.buffer = <<>>
    BY <1>1, <2>4, SubSeqEmpty
  <2>. QED BY <1>7, <2>2, <2>3, <2>5
<1>10. CASE Dot(ch) /\ ~v.closing
  <2>1. w = Closes(v, ch)
    BY <1>2, <1>6, <1>10, TakeIs
  <2>2. w.sentences = Append(v.sentences, l) /\ w.closing = TRUE /\ w.buffer = <<>>
    BY <1>3, <2>1, Zenon DEF Closes
  <2>3. t[n + 1] # "a"
    BY <1>2, <1>10, Characters
  <2>4. PICK r : r = n + 1
    OBVIOUS
  <2>5. /\ SafeCut(t, r) /\ r \in p .. n + 1 /\ r \in {r, r + 1} /\ r <= n + 1
        /\ (r = r + 1 => t[r] # "a") /\ \A i \in r + 1 .. n + 1 : ~Dot(t[i])
    BY <1>1, <2>3, <2>4 DEF SafeCut
  <2>6. PICK z \in BOOLEAN : z = TRUE
    OBVIOUS
  <2>7. CutSoFar(t, n + 1, r, Append(v.sentences, SubSeq(t, p + 1, r)), z)
    BY <2>4, <2>5, CutAgain
  <2>8. CutSoFar(t, n + 1, n + 1, w.sentences, w.closing)
    BY <1>4, <2>2, <2>4, <2>6, <2>7
  <2>. QED BY <1>7, <2>2, <2>8
<1>11. CASE ~Dot(ch) /\ ~(Len(l) >= MaxSentenceChars)
  <2>1. w = Goes(v, l)
    BY <1>2, <1>3, <1>6, <1>11, TakeIs
  <2>2. w.sentences = v.sentences /\ w.closing = FALSE /\ w.buffer = l
    BY <2>1, Zenon DEF Goes
  <2>3. CutSoFar(t, n + 1, p, v.sentences, FALSE)
    <3>1. v.sentences \in Seq(Texts(n + 1)) /\ p \in 0 .. n + 1
      BY <1>1, Longer DEF CutSoFar
    <3>2. \A i \in p + 1 .. n + 1 : ~Dot(t[i])
      <4>1. \A i \in p + 1 .. n : ~Dot(t[i])
        BY DEF CutSoFar
      <4>. QED BY <1>1, <1>2, <1>11, <4>1
    <3>. QED BY <3>1, <3>2 DEF CutSoFar
  <2>4. CutSoFar(t, n + 1, p, w.sentences, w.closing)
    BY <2>2, <2>3
  <2>. QED BY <1>4, <2>2, <2>4
<1>12. CASE ~Dot(ch) /\ Len(l) >= MaxSentenceChars
  <2>1. PICK k : k = LastSpace(l)
    OBVIOUS
  <2>2. /\ k \in 0 .. n + 1 - p /\ (k # 0 => Blank(l[k]))
        /\ \A j \in k + 1 .. n + 1 - p : ~Blank(l[j])
    BY <1>5, <2>1, LastSpaceIs
  <2>3. \A i \in p + 1 .. n + 1 : ~Dot(t[i])
    <3>1. \A i \in p + 1 .. n : ~Dot(t[i])
      BY DEF CutSoFar
    <3>. QED BY <1>1, <1>2, <1>12, <3>1
  <2>4. PICK z \in BOOLEAN : z = FALSE
    OBVIOUS
  <2>5. CASE k > 1
    <3>1. w = CutAt(v, l, k)
      BY <1>2, <1>3, <1>6, <1>12, <2>1, <2>5, TakeIs
    <3>2. /\ w.sentences = Append(v.sentences, SubSeq(l, 1, k - 1))
          /\ w.buffer = SubSeq(l, k + 1, Len(l)) /\ w.closing = FALSE
      BY <3>1, Zenon DEF CutAt
    <3>3. PICK q, r : q = p + k - 1 /\ r = p + k
      OBVIOUS
    <3>4. /\ k \in Int /\ q \in p .. n + 1 /\ r \in {q, q + 1} /\ r <= n + 1 /\ r \in Int /\ r >= p + 1
      BY <1>1, <2>2, <2>5, <3>3
    <3>5. t[r] # "a"
      <4>1. k \in 1 .. n + 1 - p /\ Blank(l[k])
        BY <1>1, <2>2, <2>5
      <4>. QED BY <1>5, <3>3, <4>1, BlankIsNoLetter
    <3>6. \A i \in r + 1 .. n + 1 : ~Dot(t[i])
      BY <1>1, <2>3, <3>4
    <3>7. CutSoFar(t, n + 1, r, Append(v.sentences, SubSeq(t, p + 1, q)), z)
      <4>1. SafeCut(t, r)
        BY <3>5 DEF SafeCut
      <4>2. z => r = n + 1
        BY <2>4
      <4>. QED BY <3>4, <3>5, <3>6, <4>1, <4>2, CutAgain
    <3>8. SubSeq(l, 1, k - 1) = SubSeq(t, p + 1, q) /\ SubSeq(l, k + 1, Len(l)) = SubSeq(t, r + 1, n + 1)
      <4>1. PICK m, o : m = p + 1 /\ o = n + 1
        OBVIOUS
      <4>2. /\ m \in 1 .. Len(t) + 1 /\ o \in m - 1 .. Len(t)
            /\ 1 \in 1 .. o - m + 2 /\ k - 1 \in 1 - 1 .. o - m + 1
            /\ k + 1 \in 1 .. o - m + 2 /\ Len(l) \in (k + 1) - 1 .. o - m + 1
        BY <1>1, <1>5, <2>2, <2>5, <4>1
      <4>3. /\ SubSeq(SubSeq(t, m, o), 1, k - 1) = SubSeq(t, m + 1 - 1, m + (k - 1) - 1)
            /\ SubSeq(SubSeq(t, m, o), k + 1, Len(l)) = SubSeq(t, m + (k + 1) - 1, m + Len(l) - 1)
        BY <4>2, PartsOfParts
      <4>4. /\ m + 1 - 1 = p + 1 /\ m + (k - 1) - 1 = q
            /\ m + (k + 1) - 1 = r + 1 /\ m + Len(l) - 1 = n + 1
        BY <1>1, <1>5, <3>3, <3>4, <4>1
      <4>. QED BY <1>4, <4>1, <4>3, <4>4
    <3>9. CutSoFar(t, n + 1, r, w.sentences, w.closing)
      BY <2>4, <3>2, <3>7, <3>8
    <3>. QED BY <3>2, <3>8, <3>9
  <2>6. CASE ~(k > 1)
    <3>1. w = CutHere(v, l)
      BY <1>2, <1>3, <1>6, <1>12, <2>1, <2>6, TakeIs
    <3>2. w.sentences = Append(v.sentences, l) /\ w.buffer = <<>> /\ w.closing = FALSE
      BY <3>1, Zenon DEF CutHere
    <3>3. PICK r : r = n + 1
      OBVIOUS
    <3>4. SafeCut(t, r)
      <4>1. MaxSentenceChars \in Nat \ {0} /\ r >= MaxSentenceChars - 1
        BY <1>1, <1>5, <1>12, <3>3, SpeechAssumption
      <4>2. ASSUME NEW i \in r - MaxSentenceChars + 2 .. r PROVE t[i] = "a"
        <5>1. PICK j : j = i - p
          OBVIOUS
        <5>2. /\ i \in p + 1 .. n + 1 /\ i \in 1 .. Len(t) /\ j \in k + 1 .. n + 1 - p
              /\ j \in 1 .. n + 1 - p /\ p + j = i
          BY <1>1, <1>5, <1>12, <2>2, <2>6, <3>3, <4>1, <5>1
        <5>3. ~Blank(t[i]) /\ ~Dot(t[i])
          BY <1>5, <2>2, <2>3, <5>2
        <5>4. t[i] \in Chars
          BY <5>2, ElementOfSeq DEF Text
        <5>. QED BY <5>3, <5>4, Characters
      <4>. QED BY <4>1, <4>2 DEF SafeCut, Hard
    <3>5. /\ r \in p .. n + 1 /\ r \in {r, r + 1} /\ r <= n + 1
          /\ (r = r + 1 => t[r] # "a") /\ \A i \in r + 1 .. n + 1 : ~Dot(t[i])
      BY <1>1, <3>3
    <3>6. CutSoFar(t, n + 1, r, Append(v.sentences, SubSeq(t, p + 1, r)), z)
      <4>1. z => r = n + 1
        BY <3>3
      <4>. QED BY <3>4, <3>5, <4>1, CutAgain
    <3>7. CutSoFar(t, n + 1, n + 1, w.sentences, w.closing)
      BY <1>4, <2>4, <3>2, <3>3, <3>6
    <3>. QED BY <1>7, <3>2, <3>7
  <2>. QED BY <2>5, <2>6
<1>. QED BY <1>9, <1>10, <1>11, <1>12

\* One character leaves a split in progress.
LEMMA TakeType ==
    ASSUME NEW v \in Split, NEW ch \in Chars
    PROVE  Take(v, ch) \in Split
<1>1. v.sentences \in Seq(Text) /\ v.buffer \in Text /\ v.closing \in BOOLEAN
  BY DEF Split
<1>2. PICK s, l : s = v.sentences /\ l = Append(v.buffer, ch)
  OBVIOUS
<1>3. l \in Text /\ s \in Seq(Text) /\ Len(l) \in Nat
  BY <1>1, <1>2, AppendProperties, LenProperties DEF Text
<1>4. <<>> \in Text
  BY DEF Text
<1>5. AddsStop(v, ch) \in Split
  <2>1. CASE s = <<>>
    <3>1. [s EXCEPT ![Len(s)] = Append(@, ch)] = s
      BY <2>1
    <3>. QED BY <1>1, <1>2, <3>1 DEF AddsStop, Split
  <2>2. CASE s # <<>>
    <3>1. PICK n \in 1 .. Len(s) : n = Len(s)
      BY <1>3, <2>2, EmptySeq, LenProperties
    <3>2. s[n] \in Text
      BY <1>3, ElementOfSeq
    <3>3. PICK e \in Text : e = Append(s[n], ch)
      BY <3>2, AppendProperties DEF Text
    <3>4. [s EXCEPT ![n] = e] \in Seq(Text)
      BY <1>3, ExceptSeq
    <3>. QED BY <1>1, <1>2, <3>1, <3>3, <3>4 DEF AddsStop, Split
  <2>. QED BY <2>1, <2>2
<1>6. Closes(v, ch) \in Split
  <2>1. Append(s, l) \in Seq(Text)
    BY <1>3, AppendProperties
  <2>. QED BY <1>2, <1>4, <2>1 DEF Closes, Split
<1>7. CutHere(v, l) \in Split
  <2>1. Append(s, l) \in Seq(Text)
    BY <1>3, AppendProperties
  <2>. QED BY <1>2, <1>4, <2>1 DEF CutHere, Split
<1>8. Goes(v, l) \in Split
  BY <1>2, <1>3 DEF Goes, Split
<1>9. LastSpace(l) > 1 => CutAt(v, l, LastSpace(l)) \in Split
  <2>1. PICK k \in 0 .. Len(l) : k = LastSpace(l)
    BY <1>3, LastSpaceIs
  <2>2. SUFFICES ASSUME k > 1 PROVE CutAt(v, l, k) \in Split
    BY <2>1
  <2>3. /\ 1 \in 1 .. Len(l) + 1 /\ k - 1 \in 1 - 1 .. Len(l)
        /\ k + 1 \in 1 .. Len(l) + 1 /\ Len(l) \in (k + 1) - 1 .. Len(l)
    BY <1>3, <2>2
  <2>4. SubSeq(l, 1, k - 1) \in Text /\ SubSeq(l, k + 1, Len(l)) \in Text
    BY <1>3, <2>3, Parts
  <2>5. Append(s, SubSeq(l, 1, k - 1)) \in Seq(Text)
    BY <1>3, <2>4, AppendProperties
  <2>. QED BY <1>2, <2>4, <2>5 DEF CutAt, Split
<1>. QED BY <1>2, <1>5, <1>6, <1>7, <1>8, <1>9, TakeIs

SplitsTo(f, t) ==
    /\ f \in [0 .. Len(t) -> Split]
    /\ f[0] = [sentences |-> <<>>, buffer |-> <<>>, closing |-> FALSE]
    /\ \A n \in 1 .. Len(t) : f[n] = Take(f[n - 1], t[n])

\* SplitWithTerminator is the fold its definition says.
LEMMA SplitFold ==
    ASSUME NEW t \in Text
    PROVE  \E f : SplitsTo(f, t) /\ SplitWithTerminator(t) = f[Len(t)]
<1>1. PICK L \in Nat : L = Len(t)
  BY DEF Text
<1>2. PICK none : none = [sentences |-> <<>>, buffer |-> <<>>, closing |-> FALSE]
  OBVIOUS
<1>3. none \in Split
  BY <1>2 DEF Split, Text
<1>4. \A w \in Split : \A n \in 1 .. L : Take(w, t[n]) \in Split
  <2>1. \A n \in 1 .. L : t[n] \in Chars
    BY <1>1, ElementOfSeq DEF Text
  <2>. QED BY <2>1, TakeType
<1>. DEFINE Def(f) == [n \in 0 .. L |-> IF n = 0 THEN none ELSE Take(f[n - 1], t[n])]
<1>5. \E f : f = Def(f)
  <2>. DEFINE step == [n \in 1 .. L |-> [w \in Split |-> Take(w, t[n])]]
  <2>1. step \in [1 .. L -> [Split -> Split]]
    BY <1>4
  <2>2. \A n \in 1 .. L, w \in Split : step[n][w] = Take(w, t[n])
    OBVIOUS
  <2>. HIDE DEF step
  <2>3. PICK f : IsFold(f, Split, none, L, step)
    BY <1>3, <2>1, FoldIs, Zenon
  <2>4. f \in [0 .. L -> Split] /\ f[0] = none
    BY <2>3 DEF IsFold
  <2>5. ASSUME NEW n \in 1 .. L PROVE f[n] = Take(f[n - 1], t[n])
    <3>1. n - 1 \in 0 .. L
      OBVIOUS
    <3>2. f[n - 1] \in Split
      BY <2>4, <3>1
    <3>3. f[n] = step[n][f[n - 1]]
      BY <2>3 DEF IsFold
    <3>. QED BY <2>2, <3>2, <3>3
  <2>. QED BY <2>4, <2>5
<1>. DEFINE w == CHOOSE g : g = Def(g)
<1>6. w = Def(w)
  BY <1>5
<1>7. SplitWithTerminator(t) = w[L]
  BY <1>1, <1>2 DEF SplitWithTerminator
<1>. HIDE DEF w
<1>8. w[0] = none /\ \A n \in 1 .. L : w[n] = Take(w[n - 1], t[n])
  BY <1>6
<1>9. DOMAIN w = 0 .. L /\ w = [n \in 0 .. L |-> w[n]]
  BY <1>6
<1>. HIDE DEF Def
<1>10. w \in [0 .. L -> Split]
  <2>1. \A n \in 1 .. L : w[n - 1] \in Split => w[n] \in Split
    BY <1>4, <1>8
  <2>2. w[0] \in Split
    BY <1>3, <1>8
  <2>. QED BY <1>9, <2>1, <2>2, FoldTyped
<1>11. SplitsTo(w, t)
  BY <1>1, <1>2, <1>8, <1>10 DEF SplitsTo
<1>. QED BY <1>1, <1>7, <1>11

\* What the chunker makes of a text.
LEMMA SplitCuts ==
    ASSUME NEW t \in Text
    PROVE  LET v == SplitWithTerminator(t) IN
           /\ v \in Split
           /\ \E p : /\ CutSoFar(t, Len(t), p, v.sentences, v.closing)
                     /\ v.buffer = SubSeq(t, p + 1, Len(t))
<1>1. PICK L \in Nat : L = Len(t)
  BY DEF Text
<1>2. PICK f : SplitsTo(f, t) /\ SplitWithTerminator(t) = f[L]
  BY <1>1, SplitFold, Zenon
<1>3. \A n \in 0 .. L : f[n] \in Split
  BY <1>1, <1>2 DEF SplitsTo
<1>. DEFINE Good(n) == \E p : /\ CutSoFar(t, n, p, f[n].sentences, f[n].closing)
                              /\ f[n].buffer = SubSeq(t, p + 1, n)
            T == {n \in Nat : n <= L => Good(n)}
<1>4. 0 \in T /\ T \in SUBSET Nat
  <2>1. f[0].sentences = <<>> /\ f[0].buffer = <<>> /\ f[0].closing = FALSE
    BY <1>2 DEF SplitsTo
  <2>2. SubSeq(t, 0 + 1, 0) = <<>> /\ SubSeq(t, 1, 0) = <<>>
    BY SubSeqEmpty
  <2>3. Words(Joined(<<>>)) = Words(SubSeq(t, 1, 0))
    BY <2>2, JoinedEmpty
  <2>4. <<>> \in Seq(Texts(0)) /\ 0 \in 0 .. 0 /\ 0 + 1 .. 0 = {}
    OBVIOUS
  <2>5. CutSoFar(t, 0, 0, <<>>, FALSE)
    BY <2>3, <2>4 DEF CutSoFar, SafeCut
  <2>6. Good(0)
    BY <2>1, <2>2, <2>5
  <2>. QED BY <2>6
<1>5. ASSUME NEW n \in T PROVE n + 1 \in T
  <2>1. SUFFICES ASSUME n + 1 <= L PROVE Good(n + 1)
    OBVIOUS
  <2>2. n \in Nat /\ n \in 0 .. L /\ n + 1 \in 1 .. L /\ (n + 1) - 1 = n /\ n \in 0 .. Len(t) - 1 /\ Good(n)
    BY <1>1, <2>1
  <2>3. PICK p : CutSoFar(t, n, p, f[n].sentences, f[n].closing) /\ f[n].buffer = SubSeq(t, p + 1, n)
    BY <2>2
  <2>4. f[n + 1] = Take(f[n], t[n + 1])
    BY <1>1, <1>2, <2>2 DEF SplitsTo
  <2>5. PICK v \in Split : v = f[n]
    BY <1>3, <2>2
  <2>6. CutSoFar(t, n, p, v.sentences, v.closing) /\ v.buffer = SubSeq(t, p + 1, n)
    BY <2>3, <2>5
  <2>7. PICK q : /\ CutSoFar(t, n + 1, q, Take(v, t[n + 1]).sentences, Take(v, t[n + 1]).closing)
                 /\ Take(v, t[n + 1]).buffer = SubSeq(t, q + 1, n + 1)
    BY <2>2, <2>6, TakeCuts
  <2>. QED BY <2>4, <2>5, <2>7
<1>. HIDE DEF T
<1>6. L \in T
  BY <1>4, <1>5, NatSet
<1>7. Good(L)
  BY <1>6 DEF T
<1>8. PICK v : v = f[L]
  OBVIOUS
<1>9. v \in Split
  <2>1. L \in 0 .. L
    OBVIOUS
  <2>. QED BY <1>3, <1>8, <2>1
<1>10. PICK p : /\ CutSoFar(t, Len(t), p, v.sentences, v.closing)
                /\ v.buffer = SubSeq(t, p + 1, Len(t))
  BY <1>1, <1>7, <1>8
<1>11. SplitWithTerminator(t) = v
  BY <1>2, <1>8
<1>. QED BY <1>9, <1>10, <1>11

-----------------------------------------------------------------------------
(* Speech: fragments *)

\* What is true of a text and a place in it is true when more text follows.
LEMMA Extended ==
    ASSUME NEW t \in Text, NEW u \in Text, NEW p \in 0 .. Len(t)
    PROVE  /\ t \o u \in Text /\ Len(t \o u) = Len(t) + Len(u)
           /\ ShortWords(t \o u) => ShortWords(t)
           /\ SafeCut(t, p) => SafeCut(t \o u, p)
           /\ SubSeq(t \o u, 1, p) = SubSeq(t, 1, p)
           /\ SubSeq(t \o u, p + 1, Len(t) + Len(u)) = SubSeq(t, p + 1, Len(t)) \o u
<1>1. Len(t) \in Nat /\ Len(u) \in Nat /\ DOMAIN t = 1 .. Len(t)
  BY DEF Text
<1>2. PICK x : x = t \o u
  OBVIOUS
<1>3. /\ x \in Seq(Chars) /\ Len(x) = Len(t) + Len(u)
      /\ \A i \in 1 .. Len(t) + Len(u) : x[i] = IF i <= Len(t) THEN t[i] ELSE u[i - Len(t)]
  BY <1>2, ConcatProperties DEF Text
<1>4. x \in Text /\ DOMAIN x = 1 .. Len(t) + Len(u) /\ \A i \in 1 .. Len(t) : x[i] = t[i]
  <2>1. x \in Text /\ DOMAIN x = 1 .. Len(x)
    BY <1>3 DEF Text
  <2>2. \A i \in 1 .. Len(t) : i \in 1 .. Len(t) + Len(u) /\ i <= Len(t)
    BY <1>1
  <2>. QED BY <1>3, <2>1, <2>2
<1>5. ASSUME ShortWords(x) PROVE ShortWords(t)
  <2>1. SUFFICES ASSUME NEW i \in DOMAIN t
                 PROVE  \E j \in i .. i + MaxSentenceChars - 1 : j \in DOMAIN t => t[j] # "a"
    BY DEF ShortWords
  <2>2. i \in DOMAIN x
    BY <1>1, <1>4
  <2>3. PICK j \in i .. i + MaxSentenceChars - 1 : j \in DOMAIN x => x[j] # "a"
    BY <1>5, <2>2 DEF ShortWords
  <2>4. j \in DOMAIN t => j \in DOMAIN x /\ x[j] = t[j]
    BY <1>1, <1>4
  <2>. QED BY <2>3, <2>4
<1>6. ASSUME SafeCut(t, p) PROVE SafeCut(x, p)
  <2>1. CASE p = 0
    BY <2>1 DEF SafeCut
  <2>2. CASE p # 0
    <3>1. p \in 1 .. Len(t) /\ x[p] = t[p]
      BY <1>1, <1>4, <2>2
    <3>2. Hard(t, p) => Hard(x, p)
      <4>1. SUFFICES ASSUME Hard(t, p), NEW i \in p - MaxSentenceChars + 2 .. p PROVE x[i] = "a"
        BY DEF Hard
      <4>2. i \in 1 .. Len(t)
        BY <1>1, <3>1, <4>1, SpeechAssumption DEF Hard
      <4>. QED BY <1>4, <4>1, <4>2 DEF Hard
    <3>. QED BY <1>6, <3>1, <3>2 DEF SafeCut
  <2>. QED BY <2>1, <2>2
<1>7. SubSeq(x, 1, p) = SubSeq(t, 1, p)
  <2>1. p \in 0 .. Len(x) /\ p \in Nat
    BY <1>1, <1>3
  <2>2. PICK a, b : a = SubSeq(x, 1, p) /\ b = SubSeq(t, 1, p)
    OBVIOUS
  <2>3. a \in Seq(Chars) /\ Len(a) = p /\ \A i \in 1 .. p : a[i] = x[i]
    BY <1>3, <2>1, <2>2, FirstOf
  <2>4. b \in Seq(Chars) /\ Len(b) = p /\ \A i \in 1 .. p : b[i] = t[i]
    BY <2>2, FirstOf DEF Text
  <2>5. \A i \in 1 .. Len(a) : a[i] = b[i]
    BY <1>1, <1>4, <2>3, <2>4
  <2>6. a = b
    BY <2>3, <2>4, <2>5, SeqEqual
  <2>. QED BY <2>2, <2>6
<1>8. SubSeq(x, p + 1, Len(t) + Len(u)) = SubSeq(t, p + 1, Len(t)) \o u
  <2>1. PICK m, n : m = p + 1 /\ n = Len(t) + Len(u)
    OBVIOUS
  <2>2. /\ m \in 1 .. Len(x) + 1 /\ n \in m - 1 .. Len(x) /\ m \in 1 .. Len(t) + 1
        /\ Len(t) \in m - 1 .. Len(t) /\ n - m + 1 = (Len(t) - m + 1) + Len(u) /\ m \in Int
    BY <1>1, <1>3, <2>1
  <2>3. PICK a, b, c : a = SubSeq(x, m, n) /\ b = SubSeq(t, m, Len(t)) /\ c = b \o u
    OBVIOUS
  <2>4. a \in Text /\ Len(a) = n - m + 1 /\ \A i \in 1 .. n - m + 1 : a[i] = x[m + i - 1]
    BY <1>4, <2>2, <2>3, Parts
  <2>5. b \in Text /\ Len(b) = Len(t) - m + 1 /\ \A i \in 1 .. Len(t) - m + 1 : b[i] = t[m + i - 1]
    BY <2>2, <2>3, Parts
  <2>6. /\ c \in Seq(Chars) /\ Len(c) = Len(b) + Len(u)
        /\ \A i \in 1 .. Len(b) + Len(u) : c[i] = IF i <= Len(b) THEN b[i] ELSE u[i - Len(b)]
    BY <2>3, <2>5, ConcatProperties DEF Text
  <2>7. a \in Seq(Chars) /\ Len(a) = Len(c)
    BY <2>2, <2>4, <2>5, <2>6 DEF Text
  <2>8. ASSUME NEW i \in 1 .. Len(a) PROVE a[i] = c[i]
    <3>1. i \in Int /\ i \in 1 .. n - m + 1 /\ i \in 1 .. Len(b) + Len(u) /\ m + i - 1 \in 1 .. Len(t) + Len(u)
      BY <1>1, <2>1, <2>2, <2>4, <2>5, <2>6, <2>7
    <3>2. a[i] = x[m + i - 1]
      BY <2>4, <3>1
    <3>3. CASE i <= Len(b)
      <4>1. i \in 1 .. Len(t) - m + 1 /\ m + i - 1 <= Len(t)
        BY <1>1, <2>2, <2>5, <3>1, <3>3
      <4>. QED BY <1>3, <2>5, <2>6, <3>1, <3>2, <3>3, <4>1
    <3>4. CASE ~(i <= Len(b))
      <4>1. ~(m + i - 1 <= Len(t)) /\ (m + i - 1) - Len(t) = i - Len(b)
        BY <1>1, <2>2, <2>5, <3>1, <3>4
      <4>. QED BY <1>3, <2>6, <3>1, <3>2, <3>4, <4>1
    <3>. QED BY <3>3, <3>4
  <2>9. a = c
    BY <2>6, <2>7, <2>8, SeqEqual
  <2>. QED BY <2>1, <2>3, <2>9
<1>. QED BY <1>2, <1>3, <1>4, <1>5, <1>6, <1>7, <1>8

\* What is true of a text is true of the rest of it behind a place.
LEMMA Shortened ==
    ASSUME NEW t \in Text, NEW p \in 0 .. Len(t), NEW q \in 0 .. Len(t) - p
    PROVE  LET s == SubSeq(t, p + 1, Len(t)) IN
           /\ s \in Text /\ Len(s) = Len(t) - p
           /\ ShortWords(t) => ShortWords(s)
           /\ SafeCut(s, q) /\ q # 0 => SafeCut(t, p + q)
           /\ SubSeq(s, 1, q) = SubSeq(t, p + 1, p + q)
           /\ SubSeq(s, q + 1, Len(s)) = SubSeq(t, p + q + 1, Len(t))
<1>1. Len(t) \in Nat /\ p \in Nat /\ q \in Nat /\ MaxSentenceChars \in Nat \ {0} /\ DOMAIN t = 1 .. Len(t)
  BY SpeechAssumption DEF Text
<1>2. PICK m, n : m = p + 1 /\ n = Len(t)
  OBVIOUS
<1>3. m \in 1 .. Len(t) + 1 /\ n \in m - 1 .. Len(t) /\ m \in Int /\ n \in Int /\ n - m + 1 = Len(t) - p
  BY <1>1, <1>2
<1>4. PICK s : s = SubSeq(t, m, n)
  OBVIOUS
<1>5. s \in Text /\ Len(s) = n - m + 1 /\ \A i \in 1 .. n - m + 1 : s[i] = t[m + i - 1]
  BY <1>3, <1>4, Parts
<1>6. DOMAIN s = 1 .. Len(t) - p /\ \A i \in 1 .. Len(t) - p : s[i] = t[p + i]
  <2>1. DOMAIN s = 1 .. Len(t) - p
    BY <1>3, <1>5 DEF Text
  <2>2. ASSUME NEW i \in 1 .. Len(t) - p PROVE s[i] = t[p + i]
    <3>1. m + i - 1 = p + i /\ i \in 1 .. n - m + 1
      BY <1>1, <1>2, <1>3
    <3>. QED BY <1>5, <3>1
  <2>. QED BY <2>1, <2>2
<1>7. ASSUME ShortWords(t) PROVE ShortWords(s)
  <2>1. SUFFICES ASSUME NEW i \in DOMAIN s
                 PROVE  \E j \in i .. i + MaxSentenceChars - 1 : j \in DOMAIN s => s[j] # "a"
    BY DEF ShortWords
  <2>2. p + i \in DOMAIN t /\ i \in Int
    BY <1>1, <1>6
  <2>3. PICK k \in p + i .. p + i + MaxSentenceChars - 1 : k \in DOMAIN t => t[k] # "a"
    BY <1>7, <2>2 DEF ShortWords
  <2>4. PICK j : j = k - p
    OBVIOUS
  <2>5. j \in i .. i + MaxSentenceChars - 1 /\ p + j = k
    BY <1>1, <2>2, <2>4
  <2>6. j \in DOMAIN s => k \in DOMAIN t /\ s[j] = t[k]
    BY <1>1, <1>6, <2>5
  <2>. QED BY <2>3, <2>5, <2>6
<1>8. ASSUME SafeCut(s, q), q # 0 PROVE SafeCut(t, p + q)
  <2>1. q \in 1 .. Len(t) - p /\ s[q] = t[p + q]
    BY <1>1, <1>6, <1>8
  <2>2. ASSUME Hard(s, q) PROVE Hard(t, p + q)
    <3>1. p + q >= MaxSentenceChars - 1
      BY <1>1, <2>2 DEF Hard
    <3>2. ASSUME NEW i \in (p + q) - MaxSentenceChars + 2 .. p + q PROVE t[i] = "a"
      <4>1. PICK j : j = i - p
        OBVIOUS
      <4>2. /\ j \in q - MaxSentenceChars + 2 .. q /\ j \in 1 .. Len(t) - p /\ p + j = i
        BY <1>1, <2>1, <2>2, <4>1 DEF Hard
      <4>. QED BY <1>6, <2>2, <4>2 DEF Hard
    <3>. QED BY <3>1, <3>2 DEF Hard
  <2>. QED BY <1>8, <2>1, <2>2 DEF SafeCut
<1>9. SubSeq(s, 1, q) = SubSeq(t, p + 1, p + q) /\ SubSeq(s, q + 1, Len(s)) = SubSeq(t, p + q + 1, Len(t))
  <2>1. /\ 1 \in 1 .. n - m + 2 /\ q \in 1 - 1 .. n - m + 1
        /\ q + 1 \in 1 .. n - m + 2 /\ Len(s) \in (q + 1) - 1 .. n - m + 1
    BY <1>1, <1>2, <1>3, <1>5
  <2>2. /\ SubSeq(SubSeq(t, m, n), 1, q) = SubSeq(t, m + 1 - 1, m + q - 1)
        /\ SubSeq(SubSeq(t, m, n), q + 1, Len(s)) = SubSeq(t, m + (q + 1) - 1, m + Len(s) - 1)
    BY <1>3, <2>1, PartsOfParts
  <2>3. /\ m + 1 - 1 = p + 1 /\ m + q - 1 = p + q
        /\ m + (q + 1) - 1 = p + q + 1 /\ m + Len(s) - 1 = Len(t)
    BY <1>1, <1>2, <1>3, <1>5
  <2>. QED BY <1>4, <2>2, <2>3
<1>. QED BY <1>2, <1>3, <1>4, <1>5, <1>7, <1>8, <1>9

\* The text u has been cut up to some p into what was said, k, and the
\* sentences s; b is the rest of it, and more may follow if it is open.
WholeText(u, b, s, k, open) ==
    \E p \in 0 .. Len(u) :
        /\ b = SubSeq(u, p + 1, Len(u))
        /\ ShortWords(u) =>
             /\ Words(Joined(k \o s)) = Words(SubSeq(u, 1, p))
             /\ SafeCut(u, p) \/ (~open /\ p = Len(u))

\* One list of sentences after another.
LEMMA WordsOfBoth ==
    ASSUME NEW k \in Seq(Text), NEW s \in Seq(Text)
    PROVE  Words(Joined(k \o s)) = Words(Joined(k)) \o Words(Joined(s))
<1>1. Joined(k) \in Text /\ Joined(s) \in Text
  BY JoinedType
<1>2. Joined(k) = <<>> \/ Joined(k)[Len(Joined(k))] # "a"
  <2>1. " " # "a"
    OBVIOUS
  <2>. QED BY <2>1, JoinedEnds, Zenon
<1>3. Words(Joined(k) \o Joined(s)) = Words(Joined(k)) \o Words(Joined(s))
  BY <1>1, <1>2, WordsMeet
<1>. QED BY <1>3, JoinedMeet

\* A fragment may fall anywhere: the buffer and it, cut again, still leave the
\* words of the text whole.
LEMMA FragmentWhole ==
    ASSUME NEW u \in Text, NEW b \in Text, NEW k \in Seq(Text), NEW f \in Text,
           WholeText(u, b, <<>>, k, TRUE)
    PROVE  LET split == SplitBuffer(b \o f) IN
           /\ split.completed \in Seq(Texts(Len(u \o f))) /\ split.remainder \in Text
           /\ Len(split.remainder) <= Len(u \o f)
           /\ WholeText(u \o f, split.remainder, split.completed, k, TRUE)
<1>1. PICK p \in 0 .. Len(u) :
         /\ b = SubSeq(u, p + 1, Len(u))
         /\ ShortWords(u) => Words(Joined(k)) = Words(SubSeq(u, 1, p)) /\ SafeCut(u, p)
  <2>1. k \o <<>> = k
    BY ConcatEmptySeq
  <2>. QED BY <2>1 DEF WholeText
<1>2. PICK x, y : x = u \o f /\ y = b \o f
  OBVIOUS
<1>3. /\ Len(u) \in Nat /\ Len(f) \in Nat /\ p \in Nat /\ p <= Len(u)
  BY DEF Text
<1>4. /\ x \in Text /\ Len(x) = Len(u) + Len(f)
      /\ ShortWords(x) => ShortWords(u)
      /\ SafeCut(u, p) => SafeCut(x, p)
      /\ SubSeq(x, 1, p) = SubSeq(u, 1, p)
      /\ y = SubSeq(x, p + 1, Len(x))
  <2>1. /\ u \o f \in Text /\ Len(u \o f) = Len(u) + Len(f)
        /\ ShortWords(u \o f) => ShortWords(u)
        /\ SafeCut(u, p) => SafeCut(u \o f, p)
        /\ SubSeq(u \o f, 1, p) = SubSeq(u, 1, p)
        /\ SubSeq(u \o f, p + 1, Len(u) + Len(f)) = SubSeq(u, p + 1, Len(u)) \o f
    BY Extended
  <2>. QED BY <1>1, <1>2, <2>1
<1>5. p \in 0 .. Len(x) /\ Len(x) \in Nat
  BY <1>3, <1>4
<1>6. y \in Text /\ Len(y) = Len(x) - p /\ (ShortWords(x) => ShortWords(y))
  <2>1. 0 \in 0 .. Len(x) - p
    BY <1>5
  <2>. QED BY <1>4, <1>5, <2>1, Shortened
<1>7. PICK v : v = SplitWithTerminator(y)
  OBVIOUS
<1>8. v \in Split /\ \E q : CutSoFar(y, Len(y), q, v.sentences, v.closing) /\ v.buffer = SubSeq(y, q + 1, Len(y))
  BY <1>6, <1>7, SplitCuts
<1>9. PICK q : CutSoFar(y, Len(y), q, v.sentences, v.closing) /\ v.buffer = SubSeq(y, q + 1, Len(y))
  BY <1>8
<1>10. /\ q \in 0 .. Len(x) - p /\ q \in Nat /\ p + q \in 0 .. Len(x) /\ Len(y) \in Nat /\ Len(y) <= Len(x)
       /\ v.sentences \in Seq(Texts(Len(y)))
  BY <1>5, <1>6, <1>9 DEF CutSoFar
<1>11. /\ SafeCut(y, q) /\ q # 0 => SafeCut(x, p + q)
       /\ SubSeq(y, 1, q) = SubSeq(x, p + 1, p + q)
       /\ SubSeq(y, q + 1, Len(y)) = SubSeq(x, p + q + 1, Len(x))
  BY <1>4, <1>5, <1>10, Shortened
<1>12. PICK s : s = Cleaned(v.sentences)
  OBVIOUS
<1>13. s \in Seq(Texts(Len(y))) /\ Words(Joined(s)) = Words(Joined(v.sentences))
  BY <1>10, <1>12, CleanedWords
<1>14. s \in Seq(Texts(Len(x))) /\ s \in Seq(Text)
  <2>1. Texts(Len(y)) \in SUBSET Texts(Len(x)) /\ Texts(Len(x)) \in SUBSET Text
    <3>1. Texts(Len(y)) = {t \in Text : Len(t) <= Len(y)} /\ Texts(Len(x)) = {t \in Text : Len(t) <= Len(x)}
      BY <1>5, <1>10, TextsAre
    <3>2. \A t \in Text : Len(t) \in Nat
      BY DEF Text
    <3>. QED BY <1>5, <1>10, <3>1, <3>2
  <2>. QED BY <1>13, <2>1
<1>15. PICK r : r = v.buffer
  OBVIOUS
<1>16. r = SubSeq(x, p + q + 1, Len(x)) /\ r \in Text /\ Len(r) <= Len(x)
  <2>1. r = SubSeq(x, p + q + 1, Len(x))
    BY <1>9, <1>11, <1>15
  <2>2. PICK m : m = p + q + 1
    OBVIOUS
  <2>3. m \in 1 .. Len(x) + 1 /\ Len(x) \in m - 1 .. Len(x) /\ Len(x) - m + 1 <= Len(x)
    BY <1>3, <1>5, <1>10, <2>2
  <2>4. SubSeq(x, m, Len(x)) \in Text /\ Len(SubSeq(x, m, Len(x))) = Len(x) - m + 1
    BY <1>4, <2>3, Parts
  <2>. QED BY <2>1, <2>2, <2>3, <2>4
<1>17. ASSUME ShortWords(x)
       PROVE  Words(Joined(k \o s)) = Words(SubSeq(x, 1, p + q)) /\ SafeCut(x, p + q)
  <2>1. Words(Joined(k)) = Words(SubSeq(x, 1, p)) /\ SafeCut(x, p)
    BY <1>1, <1>4, <1>17
  <2>2. Words(Joined(s)) = Words(SubSeq(x, p + 1, p + q)) /\ SafeCut(y, q)
    BY <1>6, <1>9, <1>11, <1>13, <1>17 DEF CutSoFar
  <2>3. Words(Joined(k \o s)) = Words(SubSeq(x, 1, p)) \o Words(SubSeq(x, p + 1, p + q))
    BY <1>14, <2>1, <2>2, WordsOfBoth
  <2>4. CASE q = 0
    <3>1. p + q = p
      BY <1>3, <2>4
    <3>2. Words(SubSeq(x, p + 1, p)) = <<>>
      <4>1. p \in Int /\ p + 1 \in Int /\ p < p + 1
        BY <1>3
      <4>2. SubSeq(x, p + 1, p) = <<>>
        BY <4>1, SubSeqEmpty
      <4>. QED BY <4>2, WordsEmpty
    <3>3. Words(SubSeq(x, 1, p)) \in Seq(Nat)
      <4>1. 1 \in 1 .. Len(x) + 1 /\ p \in 1 - 1 .. Len(x)
        BY <1>5
      <4>. QED BY <1>4, <4>1, Parts, WordsType
    <3>4. Words(SubSeq(x, 1, p)) \o <<>> = Words(SubSeq(x, 1, p))
      BY <3>3, ConcatEmptySeq
    <3>. QED BY <2>1, <2>3, <3>1, <3>2, <3>4
  <2>5. CASE q # 0
    <3>1. PICK n : n = p + q
      OBVIOUS
    <3>2. p \in 0 .. Len(x) - 1 /\ 1 \in 1 .. Len(x) + 1 /\ p \in 1 - 1 .. Len(x) /\ n \in p .. Len(x)
      BY <1>3, <1>5, <1>10, <2>5, <3>1
    <3>3. p < 1 \/ x[p] # "a" \/ x[p + 1] # "a"
      BY <1>4, <1>17, <2>1, <3>2, CutIsSafe
    <3>4. Words(SubSeq(x, 1, n)) = Words(SubSeq(x, 1, p)) \o Words(SubSeq(x, p + 1, n))
      BY <1>4, <3>2, <3>3, PartsMeet
    <3>. QED BY <1>11, <2>2, <2>3, <2>5, <3>1, <3>4
  <2>. QED BY <2>4, <2>5
<1>18. WholeText(x, r, s, k, TRUE)
  BY <1>10, <1>16, <1>17 DEF WholeText
<1>19. SplitBuffer(y) = [completed |-> s, remainder |-> r]
  BY <1>7, <1>12, <1>15 DEF SplitBuffer
<1>20. SplitBuffer(y).completed = s /\ SplitBuffer(y).remainder = r
  BY <1>19
<1>. QED BY <1>2, <1>14, <1>16, <1>18, <1>20

\* So does what is left in the buffer when the text ends.
LEMMA FlushWhole ==
    ASSUME NEW u \in Text, NEW b \in Text, NEW k \in Seq(Text),
           WholeText(u, b, <<>>, k, TRUE)
    PROVE  WholeText(u, <<>>, <<Strip(b)>>, k, FALSE)
<1>1. PICK p \in 0 .. Len(u) :
         /\ b = SubSeq(u, p + 1, Len(u))
         /\ ShortWords(u) => Words(Joined(k)) = Words(SubSeq(u, 1, p)) /\ SafeCut(u, p)
  <2>1. k \o <<>> = k
    BY ConcatEmptySeq
  <2>. QED BY <2>1 DEF WholeText
<1>2. PICK r : r = Strip(b)
  OBVIOUS
<1>3. r \in Text /\ Words(r) = Words(b)
  BY <1>2, StripWords
<1>4. Len(u) \in Nat /\ Len(u) \in 0 .. Len(u) /\ p \in 0 .. Len(u)
  BY DEF Text
<1>5. SubSeq(u, Len(u) + 1, Len(u)) = <<>>
  BY <1>4, SubSeqEmpty
<1>6. ASSUME ShortWords(u) PROVE Words(Joined(k \o <<r>>)) = Words(SubSeq(u, 1, Len(u)))
  <2>1. Words(Joined(Append(k, SubSeq(u, p + 1, Len(u))))) = Words(SubSeq(u, 1, Len(u)))
    BY <1>1, <1>4, <1>6, SentenceEnds
  <2>2. Words(Joined(Append(k, b))) = Words(Joined(k)) \o Words(b)
    BY JoinedWords
  <2>3. Words(Joined(Append(k, r))) = Words(Joined(k)) \o Words(r)
    BY <1>3, JoinedWords
  <2>4. Append(k, r) = k \o <<r>>
    BY <1>3, AppendIsConcat
  <2>. QED BY <1>1, <1>3, <2>1, <2>2, <2>3, <2>4
<1>. QED BY <1>2, <1>4, <1>5, <1>6 DEF WholeText

\* Two groups of sentences and a text in a row.
LEMMA JoinThree ==
    ASSUME NEW k \in Seq(Text), NEW s \in Seq(Text), NEW z \in Seq(Chars)
    PROVE  (Joined(k) \o Joined(s)) \o z = Joined(k) \o (Joined(s) \o z)
<1>1. PICK x, y : x = Joined(k) /\ y = Joined(s)
  OBVIOUS
<1>2. x \in Seq(Chars) /\ y \in Seq(Chars)
  BY <1>1, JoinedType DEF Text
<1>3. (x \o y) \o z = x \o (y \o z)
  BY <1>2, CharsAssociative, Zenon
<1>. QED BY <1>1, <1>3

\* What is said, cut and buffered has the words of the text.
LEMMA WholeWords ==
    ASSUME NEW u \in Text, NEW b \in Text, NEW s \in Seq(Text), NEW k \in Seq(Text),
           WholeText(u, b, s, k, FALSE), ShortWords(u)
    PROVE  Words(Joined(k) \o (Joined(s) \o b)) = Words(u)
<1>1. PICK p \in 0 .. Len(u) :
         /\ b = SubSeq(u, p + 1, Len(u))
         /\ Words(Joined(k \o s)) = Words(SubSeq(u, 1, p))
         /\ SafeCut(u, p) \/ p = Len(u)
  BY DEF WholeText
<1>2. k \o s \in Seq(Text) /\ Joined(k) \in Seq(Chars) /\ Joined(s) \in Seq(Chars) /\ b \in Seq(Chars)
  BY ConcatProperties, JoinedType DEF Text
<1>3. Joined(k) \o (Joined(s) \o b) = Joined(k \o s) \o b
  <2>1. (Joined(k) \o Joined(s)) \o b = Joined(k) \o (Joined(s) \o b)
    BY <1>2, JoinThree
  <2>2. Joined(k \o s) = Joined(k) \o Joined(s)
    BY JoinedMeet
  <2>. QED BY <2>1, <2>2
<1>4. Words(Joined(k \o s) \o b) = Words(SubSeq(u, 1, p)) \o Words(SubSeq(u, p + 1, Len(u)))
  BY <1>1, <1>2, JoinedWords
<1>5. /\ Len(u) \in Nat /\ 1 \in 1 .. Len(u) + 1 /\ p \in 1 - 1 .. Len(u) /\ Len(u) \in p .. Len(u)
  BY DEF Text
<1>6. p < 1 \/ Len(u) = p \/ u[p] # "a" \/ u[p + 1] # "a"
  <2>1. CASE p = Len(u)
    BY <2>1
  <2>2. CASE p # Len(u)
    <3>1. p \in 0 .. Len(u) - 1 /\ SafeCut(u, p)
      BY <1>1, <1>5, <2>2
    <3>. QED BY <3>1, CutIsSafe
  <2>. QED BY <2>1, <2>2
<1>7. Words(SubSeq(u, 1, Len(u))) = Words(SubSeq(u, 1, p)) \o Words(SubSeq(u, p + 1, Len(u)))
  BY <1>5, <1>6, PartsMeet
<1>8. SubSeq(u, 1, Len(u)) = u
  BY SubSeqFull DEF Text
<1>. QED BY <1>3, <1>4, <1>7, <1>8

-----------------------------------------------------------------------------
(* Speech: the generator *)

Chunk == [seq : Nat, sentence : Texts(MaxText)]
Voices(c) == [i \in DOMAIN c |-> c[i].sentence]

\* The sentences of the chunks, one for each.
LEMMA VoicesType ==
    ASSUME NEW c \in Seq(Chunk)
    PROVE  /\ Voices(c) \in Seq(Text) /\ Len(Voices(c)) = Len(c)
           /\ \A i \in 1 .. Len(c) : Voices(c)[i] = c[i].sentence
<1>1. PICK n \in Nat : n = Len(c) /\ DOMAIN c = 1 .. n
  BY LenProperties
<1>2. \A i \in 1 .. n : c[i].sentence \in Text
  <2>1. Texts(MaxText) \in SUBSET Text
    BY SpeechAssumption, TextsAre
  <2>2. \A i \in 1 .. n : c[i] \in Chunk
    BY <1>1, ElementOfSeq
  <2>. QED BY <2>1, <2>2 DEF Chunk
<1>3. Voices(c) \in [1 .. n -> Text]
  BY <1>1, <1>2 DEF Voices
<1>4. Voices(c) \in Seq(Text) /\ Len(Voices(c)) = n
  BY <1>3, IsASeq, LenProperties
<1>. QED BY <1>1, <1>4 DEF Voices

\* One more chunk, one more sentence.
LEMMA VoicesAppend ==
    ASSUME NEW c \in Seq(Chunk), NEW n \in Nat, NEW s \in Texts(MaxText)
    PROVE  LET d == Append(c, [seq |-> n, sentence |-> s]) IN
           d \in Seq(Chunk) /\ Voices(d) = Append(Voices(c), s)
<1>1. PICK e \in Chunk : e = [seq |-> n, sentence |-> s] /\ e.sentence = s
  <2>1. PICK e : e = [seq |-> n, sentence |-> s]
    OBVIOUS
  <2>2. e \in Chunk
    BY <2>1 DEF Chunk
  <2>3. e.sentence = s
    BY <2>1
  <2>. QED BY <2>1, <2>2, <2>3
<1>2. PICK d : d = Append(c, e)
  OBVIOUS
<1>3. /\ d \in Seq(Chunk) /\ Len(d) = Len(c) + 1 /\ d[Len(c) + 1] = e
      /\ \A i \in 1 .. Len(c) : d[i] = c[i]
  BY <1>2, AppendProperties
<1>4. PICK v, w : v = Voices(c) /\ w = Voices(d)
  OBVIOUS
<1>5. v \in Seq(Text) /\ Len(v) = Len(c) /\ \A i \in 1 .. Len(c) : v[i] = c[i].sentence
  BY <1>4, VoicesType
<1>6. w \in Seq(Text) /\ Len(w) = Len(d) /\ \A i \in 1 .. Len(d) : w[i] = d[i].sentence
  BY <1>3, <1>4, VoicesType
<1>7. s \in Text
  BY SpeechAssumption, TextsAre
<1>8. PICK a : a = Append(v, s)
  OBVIOUS
<1>9. /\ a \in Seq(Text) /\ Len(a) = Len(v) + 1 /\ a[Len(v) + 1] = s
      /\ \A i \in 1 .. Len(v) : a[i] = v[i]
  BY <1>5, <1>7, <1>8, AppendProperties
<1>10. Len(c) \in Nat
  BY LenProperties
<1>11. \A i \in 1 .. Len(w) : w[i] = a[i]
  BY <1>1, <1>3, <1>5, <1>6, <1>9, <1>10
<1>12. w = a
  BY <1>3, <1>5, <1>6, <1>9, <1>10, <1>11, SeqEqual
<1>. QED BY <1>1, <1>2, <1>3, <1>4, <1>8, <1>12

\* A sentence moves from the front of those cut to the end of those said.
LEMMA HeadMoves ==
    ASSUME NEW k \in Seq(Text), NEW s \in Seq(Text), s # <<>>
    PROVE  Append(k, Head(s)) \o Tail(s) = k \o s
<1>1. PICK h, r : h = Head(s) /\ r = Tail(s)
  OBVIOUS
<1>2. h \in Text /\ r \in Seq(Text) /\ s = <<h>> \o r
  BY <1>1, HeadTailProperties
<1>3. <<h>> \in Seq(Text)
  BY <1>2
<1>4. PICK o : o = <<h>>
  OBVIOUS
<1>5. o \in Seq(Text) /\ Append(k, h) = k \o o
  BY <1>2, <1>3, <1>4, AppendIsConcat
<1>6. (k \o o) \o r = k \o (o \o r)
  BY <1>2, <1>5, ConcatAssociative
<1>. QED BY <1>1, <1>2, <1>4, <1>5, <1>6

Open == speech.stage = "reading" \/ (speech.stage = "asking" /\ speech.flush = FALSE)

\* The text is whole, and the stage tells what is left of it.
SpeechInv ==
    /\ upstream \in Texts(MaxText) /\ text_buffer \in Texts(MaxText)
    /\ sentences \in Seq(Texts(MaxText)) /\ chunks \in Seq(Chunk)
    /\ \A i \in DOMAIN chunks : chunks[i].seq = i - 1
    /\ speech \in Asking \cup [stage : {"reading", "done"} \cup Raised]
    /\ speech.stage = "reading" => sentences = <<>>
    /\ speech.stage = "asking" => sentences # <<>> /\ (speech.flush => text_buffer = <<>>)
    /\ speech.stage = "done" => sentences = <<>> /\ Words(text_buffer) = <<>>
    /\ WholeText(upstream, text_buffer, sentences, Voices(chunks), FALSE)
    /\ Open => WholeText(upstream, text_buffer, sentences, Voices(chunks), TRUE)

\* What is carried along has the types.
LEMMA SpeechInvType == SpeechInv => SpeechTypeOK
<1>1. SUFFICES ASSUME SpeechInv PROVE SpeechTypeOK
  OBVIOUS
<1>2. \A i \in DOMAIN chunks : chunks[i].sentence \in Texts(MaxText)
  <2>1. \A i \in DOMAIN chunks : chunks[i] \in Chunk
    BY <1>1, ElementOfSeq, LenProperties DEF SpeechInv
  <2>. QED BY <2>1 DEF Chunk
<1>. QED BY <1>1, <1>2 DEF SpeechInv, SpeechTypeOK

\* And no word lost.
LEMMA SpeechInvWhole == SpeechInv => WordsWhole
<1>1. SUFFICES ASSUME SpeechInv PROVE WordsWhole
  OBVIOUS
<1>2. Texts(MaxText) \in SUBSET Text
  BY SpeechAssumption, TextsAre
<1>3. PICK u \in Text, b \in Text, s \in Seq(Text), k \in Seq(Text) :
         u = upstream /\ b = text_buffer /\ s = sentences /\ k = Voices(chunks)
  <2>1. upstream \in Text /\ text_buffer \in Text
    BY <1>1, <1>2 DEF SpeechInv
  <2>2. sentences \in Seq(Text)
    BY <1>1, <1>2 DEF SpeechInv
  <2>3. Voices(chunks) \in Seq(Text)
    BY <1>1, VoicesType DEF SpeechInv
  <2>. QED BY <2>1, <2>2, <2>3
<1>4. WholeText(u, b, s, k, FALSE)
  BY <1>1, <1>3, Zenon DEF SpeechInv
<1>5. ShortWords(u) => Words(Joined(k) \o (Joined(s) \o b)) = Words(u)
  BY <1>4, WholeWords
<1>6. Said = Joined(k) /\ Unsaid = Joined(s) \o b
  BY <1>3, Zenon DEF Said, Unsaid, Voices
<1>7. ASSUME speech.stage = "done" PROVE Words(Unsaid) = <<>>
  <2>1. s = <<>> /\ Words(b) = <<>>
    BY <1>1, <1>3, <1>7 DEF SpeechInv
  <2>2. <<>> \o b = b
    BY ConcatEmptySeq DEF Text
  <2>. QED BY <1>6, <2>1, <2>2, JoinedEmpty
<1>. QED BY <1>3, <1>5, <1>6, <1>7 DEF WordsWhole

\* It holds before any text has come.
LEMMA SpeechStarts == SpeechInit => SpeechInv
<1>1. SUFFICES ASSUME SpeechInit PROVE SpeechInv
  OBVIOUS
<1>2. /\ upstream = <<>> /\ text_buffer = <<>> /\ sentences = <<>> /\ chunks = <<>>
      /\ speech = [stage |-> "reading"]
  BY <1>1 DEF SpeechInit
<1>3. <<>> \in Texts(MaxText) /\ <<>> \in Seq(Texts(MaxText)) /\ <<>> \in Seq(Chunk) /\ Len(<<>>) = 0
  <2>1. <<>> \in Text /\ Len(<<>>) = 0
    BY DEF Text
  <2>2. <<>> \in Texts(MaxText)
    BY <2>1, SpeechAssumption, TextsAre
  <2>. QED BY <2>1, <2>2
<1>4. Voices(<<>>) = <<>>
  BY DEF Voices
<1>5. \A o \in BOOLEAN : WholeText(<<>>, <<>>, <<>>, <<>>, o)
  <2>1. SubSeq(<<>>, 0 + 1, 0) = <<>> /\ SubSeq(<<>>, 1, 0) = <<>>
    BY SubSeqEmpty
  <2>2. <<>> \o <<>> = <<>>
    OBVIOUS
  <2>3. Words(Joined(<<>> \o <<>>)) = Words(SubSeq(<<>>, 1, 0))
    BY <2>1, <2>2, JoinedEmpty
  <2>4. 0 \in 0 .. Len(<<>>) /\ SafeCut(<<>>, 0)
    BY <1>3 DEF SafeCut
  <2>. QED BY <1>3, <2>1, <2>3, <2>4 DEF WholeText
<1>6. \A i \in DOMAIN chunks : chunks[i].seq = i - 1
  BY <1>2
<1>7. speech \in [stage : {"reading", "done"} \cup Raised] /\ speech.stage = "reading"
  BY <1>2
<1>. QED BY <1>2, <1>3, <1>4, <1>5, <1>6, <1>7 DEF SpeechInv

\* It is kept when a fragment comes,
LEMMA Fragments ==
    ASSUME SpeechInv, NEW fragment \in Texts(MaxFragment), Fragment(fragment)
    PROVE  SpeechInv'
<1>1. Texts(MaxText) = {t \in Text : Len(t) <= MaxText} /\ MaxText \in Nat /\ Texts(MaxFragment) \in SUBSET Text
  BY SpeechAssumption, TextsAre
<1>2. /\ speech.stage = "reading" /\ Len(upstream \o fragment) <= MaxText
      /\ upstream' = upstream \o fragment
      /\ text_buffer' = SplitBuffer(text_buffer \o fragment).remainder
      /\ sentences' = SplitBuffer(text_buffer \o fragment).completed
      /\ speech' = IF SplitBuffer(text_buffer \o fragment).completed = <<>> THEN speech ELSE Begin(FALSE)
      /\ chunks' = chunks
  BY DEF Fragment
<1>3. PICK u \in Text, b \in Text, k \in Seq(Text), f \in Text :
         u = upstream /\ b = text_buffer /\ k = Voices(chunks) /\ f = fragment
  <2>1. upstream \in Text /\ text_buffer \in Text /\ fragment \in Text
    BY <1>1 DEF SpeechInv
  <2>2. Voices(chunks) \in Seq(Text)
    BY VoicesType DEF SpeechInv
  <2>. QED BY <2>1, <2>2
<1>4. sentences = <<>> /\ Open
  BY <1>2 DEF SpeechInv, Open
<1>5. WholeText(u, b, <<>>, k, TRUE)
  BY <1>3, <1>4, Zenon DEF SpeechInv
<1>6. PICK s, r : s = SplitBuffer(b \o f).completed /\ r = SplitBuffer(b \o f).remainder
  OBVIOUS
<1>7. /\ s \in Seq(Texts(Len(u \o f))) /\ r \in Text /\ Len(r) <= Len(u \o f)
      /\ WholeText(u \o f, r, s, k, TRUE)
  BY <1>5, <1>6, FragmentWhole
<1>8. PICK x : x = u \o f
  OBVIOUS
<1>9. x \in Text /\ Len(x) <= MaxText /\ Len(x) \in Nat
  BY <1>2, <1>3, <1>8, ConcatProperties, LenProperties DEF Text
<1>10. x \in Texts(MaxText) /\ r \in Texts(MaxText) /\ s \in Seq(Texts(MaxText))
  <2>1. Len(r) \in Nat
    BY <1>7, LenProperties DEF Text
  <2>2. r \in Texts(MaxText)
    BY <1>1, <1>7, <1>8, <1>9, <2>1
  <2>3. Texts(Len(x)) \in SUBSET Texts(MaxText)
    <3>1. Texts(Len(x)) = {t \in Text : Len(t) <= Len(x)}
      BY <1>9, TextsAre
    <3>2. \A t \in Text : Len(t) \in Nat
      BY LenProperties DEF Text
    <3>. QED BY <1>1, <1>9, <3>1, <3>2
  <2>. QED BY <1>1, <1>7, <1>8, <1>9, <2>2, <2>3
<1>11. upstream' = x /\ text_buffer' = r /\ sentences' = s /\ Voices(chunks)' = k
  <2>1. Voices(chunks)' = k
    BY <1>2, <1>3 DEF Voices
  <2>. QED BY <1>2, <1>3, <1>6, <1>8, <2>1
<1>12. WholeText(x, r, s, k, TRUE) /\ WholeText(x, r, s, k, FALSE)
  BY <1>7, <1>8 DEF WholeText
<1>13. chunks' \in Seq(Chunk) /\ (\A i \in DOMAIN chunks : chunks[i].seq = i - 1)'
  BY <1>2 DEF SpeechInv
<1>14. CASE s = <<>>
  <2>1. speech' = speech /\ speech'.stage = "reading" /\ speech \in Asking \cup [stage : {"reading", "done"} \cup Raised]
    BY <1>2, <1>3, <1>6, <1>14 DEF SpeechInv
  <2>. QED BY <1>10, <1>11, <1>12, <1>13, <1>14, <2>1 DEF SpeechInv
<1>15. CASE s # <<>>
  <2>1. speech' = Begin(FALSE)
    BY <1>2, <1>3, <1>6, <1>15
  <2>2. Begin(FALSE) \in Asking /\ Begin(FALSE).stage = "asking" /\ ~Begin(FALSE).flush
    BY SpeechAssumption DEF Begin, Asking, Never
  <2>3. speech' \in Asking \cup [stage : {"reading", "done"} \cup Raised] /\ speech'.stage = "asking" /\ ~speech'.flush
    BY <2>1, <2>2
  <2>. QED BY <1>10, <1>11, <1>12, <1>13, <1>15, <2>3 DEF SpeechInv
<1>. QED BY <1>14, <1>15

\* when the text ends,
LEMMA Flushes == SpeechInv /\ Flush => SpeechInv'
<1>1. SUFFICES ASSUME SpeechInv, Flush PROVE SpeechInv'
  OBVIOUS
<1>2. Texts(MaxText) = {t \in Text : Len(t) <= MaxText} /\ MaxText \in Nat
  BY SpeechAssumption, TextsAre
<1>3. speech.stage = "reading" /\ upstream' = upstream /\ chunks' = chunks
  BY <1>1 DEF Flush
<1>4. PICK u \in Text, b \in Text, k \in Seq(Text) :
         u = upstream /\ b = text_buffer /\ k = Voices(chunks)
  <2>1. upstream \in Text /\ text_buffer \in Text
    BY <1>1, <1>2 DEF SpeechInv
  <2>2. Voices(chunks) \in Seq(Text)
    BY <1>1, VoicesType DEF SpeechInv
  <2>. QED BY <2>1, <2>2
<1>5. sentences = <<>> /\ Open
  BY <1>1, <1>3 DEF SpeechInv, Open
<1>6. WholeText(u, b, <<>>, k, TRUE) /\ WholeText(u, b, <<>>, k, FALSE)
  BY <1>1, <1>4, <1>5, Zenon DEF SpeechInv
<1>7. Voices(chunks)' = k /\ upstream' = u /\ u \in Texts(MaxText)
  BY <1>1, <1>3, <1>4 DEF Voices, SpeechInv
<1>8. chunks' \in Seq(Chunk) /\ (\A i \in DOMAIN chunks : chunks[i].seq = i - 1)'
  BY <1>1, <1>3 DEF SpeechInv
<1>9. PICK r : r = Strip(b)
  OBVIOUS
<1>10. r \in Text /\ Len(r) <= Len(b) /\ Words(r) = Words(b)
  BY <1>9, StripWords
<1>11. CASE r = <<>>
  <2>1. speech' = [stage |-> "done"] /\ sentences' = sentences /\ text_buffer' = text_buffer
    BY <1>1, <1>4, <1>9, <1>11 DEF Flush
  <2>2. speech' \in [stage : {"reading", "done"} \cup Raised] /\ speech'.stage = "done"
    BY <2>1
  <2>3. sentences' = <<>> /\ text_buffer' = b /\ Words(text_buffer') = <<>> /\ b \in Texts(MaxText)
    BY <1>1, <1>4, <1>5, <1>10, <1>11, <2>1, WordsEmpty DEF SpeechInv
  <2>4. <<>> \in Seq(Texts(MaxText))
    OBVIOUS
  <2>. QED BY <1>6, <1>7, <1>8, <2>2, <2>3, <2>4 DEF SpeechInv, Open
<1>12. CASE r # <<>>
  <2>1. speech' = Begin(TRUE) /\ sentences' = <<r>> /\ text_buffer' = <<>>
    BY <1>1, <1>4, <1>9, <1>12 DEF Flush
  <2>2. Begin(TRUE) \in Asking /\ Begin(TRUE).stage = "asking" /\ Begin(TRUE).flush
    BY SpeechAssumption DEF Begin, Asking, Never
  <2>3. /\ speech' \in Asking \cup [stage : {"reading", "done"} \cup Raised]
        /\ speech'.stage = "asking" /\ speech'.flush
    BY <2>1, <2>2
  <2>4. WholeText(u, <<>>, <<r>>, k, FALSE)
    BY <1>6, <1>9, FlushWhole
  <2>5. r \in Texts(MaxText) /\ <<>> \in Texts(MaxText)
    <3>1. Len(b) <= MaxText /\ Len(b) \in Nat /\ Len(r) \in Nat /\ <<>> \in Text /\ Len(<<>>) = 0
      BY <1>1, <1>2, <1>4, <1>10, LenProperties DEF SpeechInv, Text
    <3>. QED BY <1>2, <1>10, <3>1
  <2>6. <<r>> \in Seq(Texts(MaxText)) /\ <<r>> # <<>>
    BY <2>5
  <2>7. Open' => FALSE
    BY <2>3, Zenon DEF Open
  <2>. QED BY <1>7, <1>8, <2>1, <2>3, <2>4, <2>5, <2>6, <2>7 DEF SpeechInv
<1>. QED BY <1>11, <1>12

\* when a sentence has been spoken,
LEMMA Speaks == SpeechInv /\ Spoken => SpeechInv'
<1>1. SUFFICES ASSUME SpeechInv, Spoken PROVE SpeechInv'
  OBVIOUS
<1>2. /\ speech.stage = "asking" /\ upstream' = upstream /\ text_buffer' = text_buffer
      /\ chunks' = Append(chunks, [seq |-> Len(chunks), sentence |-> Head(sentences)])
      /\ sentences' = Tail(sentences)
      /\ speech' = IF Tail(sentences) # <<>> THEN Begin(speech.flush)
                   ELSE [stage |-> IF speech.flush THEN "done" ELSE "reading"]
  BY <1>1 DEF Spoken
<1>3. /\ sentences \in Seq(Texts(MaxText)) /\ sentences # <<>> /\ sentences \in Seq(Text)
      /\ chunks \in Seq(Chunk) /\ (speech.flush => text_buffer = <<>>)
  <2>1. Texts(MaxText) \in SUBSET Text
    BY SpeechAssumption, TextsAre
  <2>2. sentences \in Seq(Texts(MaxText)) /\ chunks \in Seq(Chunk)
    BY <1>1 DEF SpeechInv
  <2>3. sentences # <<>> /\ (speech.flush => text_buffer = <<>>)
    BY <1>1, <1>2 DEF SpeechInv
  <2>. QED BY <2>1, <2>2, <2>3
<1>4. PICK h, r : h = Head(sentences) /\ r = Tail(sentences)
  OBVIOUS
<1>5. h \in Texts(MaxText) /\ r \in Seq(Texts(MaxText))
  BY <1>3, <1>4, HeadTailProperties
<1>6. PICK n, d : /\ n \in Nat /\ n = Len(chunks)
                  /\ d = Append(chunks, [seq |-> n, sentence |-> h])
  BY <1>3, LenProperties
<1>7. d \in Seq(Chunk) /\ Voices(d) = Append(Voices(chunks), h)
  BY <1>3, <1>5, <1>6, VoicesAppend
<1>8. chunks' = d /\ Voices(chunks)' = Voices(d) /\ sentences' = r
  BY <1>2, <1>4, <1>6
<1>9. Append(Voices(chunks), h) \o r = Voices(chunks) \o sentences
  BY <1>3, <1>4, VoicesType, HeadMoves
<1>10. \A o : WholeText(upstream, text_buffer, sentences, Voices(chunks), o)
         => WholeText(upstream, text_buffer, r, Voices(d), o)
  BY <1>7, <1>9, Zenon DEF WholeText
<1>11. WholeText(upstream, text_buffer, sentences, Voices(chunks), FALSE)
  BY <1>1 DEF SpeechInv
<1>12. WholeText(upstream', text_buffer', sentences', Voices(chunks)', FALSE)
  BY <1>2, <1>8, <1>10, <1>11, Zenon
<1>13. speech \in Asking /\ speech.flush \in BOOLEAN
  <2>1. speech \in Asking
    BY <1>1, <1>2 DEF SpeechInv, Raised
  <2>. QED BY <2>1 DEF Asking
<1>14. Open' => Open
  <2>1. CASE r # <<>>
    <3>1. speech' = Begin(speech.flush)
      BY <1>2, <1>4, <2>1
    <3>2. speech'.flush = speech.flush /\ speech'.stage = "asking"
      BY <3>1 DEF Begin
    <3>. QED BY <1>2, <3>2 DEF Open
  <2>2. CASE r = <<>>
    <3>1. speech' = [stage |-> IF speech.flush THEN "done" ELSE "reading"]
      BY <1>2, <1>4, <2>2
    <3>2. speech'.stage = IF speech.flush THEN "done" ELSE "reading"
      BY <3>1
    <3>3. speech'.stage # "asking"
      BY <3>2
    <3>4. Open' => ~speech.flush
      BY <3>2, <3>3 DEF Open
    <3>. QED BY <1>2, <1>13, <3>4 DEF Open
  <2>. QED BY <2>1, <2>2
<1>15. Open' => WholeText(upstream', text_buffer', sentences', Voices(chunks)', TRUE)
  <2>1. SUFFICES ASSUME Open PROVE WholeText(upstream', text_buffer', sentences', Voices(chunks)', TRUE)
    BY <1>14
  <2>2. WholeText(upstream, text_buffer, sentences, Voices(chunks), TRUE)
    BY <1>1, <2>1 DEF SpeechInv
  <2>. QED BY <1>2, <1>8, <1>10, <2>2, Zenon
<1>16. ASSUME NEW i \in DOMAIN d PROVE d[i].seq = i - 1
  <2>1. PICK e : e = [seq |-> n, sentence |-> h]
    OBVIOUS
  <2>2. n \in Nat /\ n = Len(chunks)
    BY <1>6
  <2>3. e \in Chunk /\ e.seq = n
    BY <1>5, <2>1, <2>2 DEF Chunk
  <2>4. /\ Len(d) = n + 1 /\ d[n + 1] = e /\ (\A j \in 1 .. n : d[j] = chunks[j])
        /\ DOMAIN d = 1 .. n + 1 /\ DOMAIN chunks = 1 .. n
    <3>1. d = Append(chunks, e)
      BY <1>6, <2>1
    <3>. QED BY <1>3, <2>2, <2>3, <3>1, AppendProperties, LenProperties
  <2>5. CASE i = n + 1
    <3>1. d[i] = e /\ e.seq = n /\ i - 1 = n
      BY <2>2, <2>3, <2>4, <2>5
    <3>. QED BY <3>1
  <2>6. CASE i # n + 1
    <3>1. i \in 1 .. n /\ d[i] = chunks[i]
      BY <2>2, <2>4, <2>6
    <3>. QED BY <1>1, <2>4, <3>1 DEF SpeechInv
  <2>. QED BY <2>5, <2>6
<1>17. CASE r # <<>>
  <2>1. speech' = Begin(speech.flush)
    BY <1>2, <1>4, <1>17
  <2>2. speech' \in Asking /\ speech'.flush = speech.flush /\ speech'.stage = "asking"
    BY <1>13, <2>1, SpeechAssumption DEF Begin, Asking, Never
  <2>3. speech'.flush => text_buffer' = <<>>
    BY <1>2, <1>3, <2>2, Zenon
  <2>4. upstream' \in Texts(MaxText) /\ text_buffer' \in Texts(MaxText)
    BY <1>1, <1>2 DEF SpeechInv
  <2>5. (\A i \in DOMAIN chunks : chunks[i].seq = i - 1)'
    BY <1>8, <1>16
  <2>6. sentences' \in Seq(Texts(MaxText)) /\ chunks' \in Seq(Chunk) /\ sentences' # <<>>
    BY <1>5, <1>7, <1>8, <1>17
  <2>7. speech' \in Asking \cup [stage : {"reading", "done"} \cup Raised]
    BY <2>2
  <2>8. speech'.stage # "reading" /\ speech'.stage # "done"
    BY <2>2
  <2>. QED BY <1>12, <1>15, <2>3, <2>4, <2>5, <2>6, <2>7, <2>8, Zenon DEF SpeechInv
<1>18. CASE r = <<>>
  <2>1. speech' = [stage |-> IF speech.flush THEN "done" ELSE "reading"]
    BY <1>2, <1>4, <1>18
  <2>2. speech' \in [stage : {"reading", "done"} \cup Raised] /\ speech'.stage = IF speech.flush THEN "done" ELSE "reading"
    BY <2>1
  <2>3. speech'.stage = "done" => Words(text_buffer') = <<>>
    <3>1. speech'.stage = "done" => speech.flush
      BY <2>2
    <3>. QED BY <1>2, <1>3, <3>1, WordsEmpty, Zenon
  <2>4. upstream' \in Texts(MaxText) /\ text_buffer' \in Texts(MaxText)
    BY <1>1, <1>2 DEF SpeechInv
  <2>5. (\A i \in DOMAIN chunks : chunks[i].seq = i - 1)'
    BY <1>8, <1>16
  <2>6. sentences' \in Seq(Texts(MaxText)) /\ chunks' \in Seq(Chunk) /\ sentences' = <<>>
    BY <1>5, <1>7, <1>8, <1>18
  <2>7. speech' \in Asking \cup [stage : {"reading", "done"} \cup Raised]
    BY <2>2
  <2>8. speech'.stage # "asking"
    BY <2>2
  <2>. QED BY <1>12, <1>15, <2>3, <2>4, <2>5, <2>6, <2>7, <2>8, Zenon DEF SpeechInv
<1>. QED BY <1>17, <1>18

\* A step that leaves the text alone, where the request waits or fails.
LEMMA OnlyTheRequest ==
    ASSUME SpeechInv, speech.stage = "asking",
           upstream' = upstream, text_buffer' = text_buffer,
           sentences' = sentences, chunks' = chunks,
           \/ speech' \in Asking /\ speech'.flush = speech.flush
           \/ speech' \in [stage : Raised]
    PROVE  SpeechInv'
<1>1. /\ sentences # <<>> /\ (speech.flush => text_buffer = <<>>)
      /\ WholeText(upstream, text_buffer, sentences, Voices(chunks), FALSE)
      /\ (Open => WholeText(upstream, text_buffer, sentences, Voices(chunks), TRUE))
  BY DEF SpeechInv
<1>2. /\ WholeText(upstream, text_buffer, sentences, Voices(chunks), FALSE)'
      /\ (Open => WholeText(upstream', text_buffer', sentences', Voices(chunks)', TRUE))
      /\ (\A i \in DOMAIN chunks : chunks[i].seq = i - 1)'
      /\ upstream' \in Texts(MaxText) /\ text_buffer' \in Texts(MaxText)
      /\ sentences' \in Seq(Texts(MaxText)) /\ chunks' \in Seq(Chunk) /\ sentences' # <<>>
  BY <1>1 DEF SpeechInv
<1>3. CASE speech' \in Asking /\ speech'.flush = speech.flush
  <2>1. speech'.stage = "asking"
    BY <1>3 DEF Asking
  <2>2. Open' => Open
    BY <1>3, <2>1 DEF Open
  <2>3. speech'.flush => text_buffer' = <<>>
    BY <1>1, <1>3, Zenon
  <2>4. speech'.stage # "reading" /\ speech'.stage # "done"
    BY <2>1
  <2>5. speech' \in Asking \cup [stage : {"reading", "done"} \cup Raised]
    BY <1>3
  <2>. QED BY <1>2, <2>2, <2>3, <2>4, <2>5, Zenon DEF SpeechInv
<1>4. CASE speech' \in [stage : Raised]
  <2>1. speech'.stage \in Raised
    BY <1>4
  <2>2. speech'.stage # "reading" /\ speech'.stage # "done" /\ speech'.stage # "asking"
    BY <2>1 DEF Raised
  <2>3. ~Open'
    BY <2>2 DEF Open
  <2>4. speech' \in Asking \cup [stage : {"reading", "done"} \cup Raised]
    BY <1>4
  <2>. QED BY <1>2, <2>2, <2>3, <2>4, Zenon DEF SpeechInv
<1>. QED BY <1>3, <1>4

\* and by every step of the stream.
LEMMA SpeechStep == SpeechInv /\ [SpeechNext]_speaking => SpeechInv'
<1>1. SUFFICES ASSUME SpeechInv, [SpeechNext]_speaking PROVE SpeechInv'
  OBVIOUS
<1>2. CASE UNCHANGED speaking
  BY <1>1, <1>2 DEF speaking, SpeechInv, Open, Voices, WholeText
<1>3. ASSUME NEW fragment \in Texts(MaxFragment) \ {<<>>}, Fragment(fragment) PROVE SpeechInv'
  BY <1>1, <1>3, Fragments
<1>4. CASE Flush
  BY <1>1, <1>4, Flushes
<1>5. CASE Spoken
  BY <1>1, <1>5, Speaks
<1>6. CASE RunsOut
  <2>1. speech' \in [stage : Raised]
    BY <1>6 DEF RunsOut, Raised
  <2>. QED BY <1>1, <1>6, <2>1, OnlyTheRequest DEF RunsOut
<1>7. CASE RequestFails
  <2>1. speech' \in [stage : Raised]
    BY <1>7 DEF RequestFails, Raised
  <2>. QED BY <1>1, <1>7, <2>1, OnlyTheRequest DEF RequestFails
<1>8. ASSUME NEW seconds \in 0 .. FirstChunkTimeout, NEW backoff \in 0 .. FirstChunkTimeout,
             TooManyRequests(seconds, backoff)
      PROVE  SpeechInv'
  <2>1. speech.stage = "asking"
    BY <1>8 DEF TooManyRequests
  <2>2. speech \in Asking
    BY <1>1, <2>1 DEF SpeechInv, Raised
  <2>3. PICK now, began : /\ now = speech.waited + seconds
                          /\ began = IF speech.started_at = Never THEN now ELSE speech.started_at
    OBVIOUS
  <2>4. now \in Nat /\ began \in Nat /\ now + backoff \in Nat
    BY <2>2, <2>3, SpeechAssumption DEF Asking
  <2>5. speech' = IF now - began > BackoffBreach THEN [stage |-> "fallthrough"]
                  ELSE [speech EXCEPT !.waited = now + backoff, !.started_at = began]
    BY <1>8, <2>3 DEF TooManyRequests
  <2>6. \/ speech' \in Asking /\ speech'.flush = speech.flush
        \/ speech' \in [stage : Raised]
    <3>1. [stage |-> "fallthrough"] \in [stage : Raised]
      BY DEF Raised
    <3>2. PICK w : w = [speech EXCEPT !.waited = now + backoff, !.started_at = began]
      OBVIOUS
    <3>3. w \in Asking /\ w.flush = speech.flush
      BY <2>2, <2>4, <3>2 DEF Asking
    <3>. QED BY <2>5, <3>1, <3>2, <3>3
  <2>. QED BY <1>1, <1>8, <2>1, <2>6, OnlyTheRequest DEF TooManyRequests
<1>. QED BY <1>1, <1>2, <1>3, <1>4, <1>5, <1>6, <1>7, <1>8 DEF SpeechNext

\* What the generator holds is of its type, at every step: the chunks are
\* numbered as they are yielded, and no sentence is longer than the text.
THEOREM SpeechTypeCorrect == SpeechSpec => []SpeechTypeOK
<1>1. SpeechSpec => []SpeechInv
  BY SpeechStarts, SpeechStep, PTL DEF SpeechSpec
<1>. QED BY <1>1, SpeechInvType, PTL

\* Whatever the text, wherever it is cut into fragments and wherever the
\* chunker cuts it: no word is lost, split, glued to another or said out of
\* order, as long as each is shorter than the limit, and when the stream ends
\* in good order every word has been said.
THEOREM NoWordLost == SpeechSpec => []WordsWhole
<1>1. SpeechSpec => []SpeechInv
  BY SpeechStarts, SpeechStep, PTL DEF SpeechSpec
<1>. QED BY <1>1, SpeechInvWhole, PTL

-----------------------------------------------------------------------------
(* The saju engine: the calendar and the cycle of sixty *)

\* The days of the calendar that is walked: no thirtieth of February.
Walked == born \in Dates /\ born.day <= Length(born.year, born.month)

\* The first day is a day of the calendar,
LEMMA Walks == BornInit => Walked
  BY CalendarAssumption DEF BornInit, Walked, Dates, Length

\* and so is the day after any.
LEMMA WalksOn == Walked /\ [BornNext]_born => Walked'
<1>1. ASSUME Walked, NextDay PROVE Walked'
  <2>1. /\ born = [year |-> born.year, month |-> born.month, day |-> born.day]
        /\ born.year \in Nat /\ born.month \in 1 .. 12 /\ born.day \in 1 .. 31
        /\ born.day <= Length(born.year, born.month)
    BY <1>1 DEF Walked, Dates
  <2>2. \A y, m : Length(y, m) \in 28 .. 31
    BY DEF Length
  <2>3. /\ born' = [year |-> born'.year, month |-> born'.month, day |-> born'.day]
        /\ born'.year \in Nat /\ born'.month \in 1 .. 12
        /\ \/ born'.day = 1
           \/ /\ born'.year = born.year /\ born'.month = born.month
              /\ born'.day = born.day + 1 /\ born.day < Length(born.year, born.month)
    <3>1. CASE born.day < Length(born.year, born.month)
      <4>1. born' = [year |-> born.year, month |-> born.month, day |-> born.day + 1]
        BY <1>1, <2>1, <3>1 DEF NextDay, Tomorrow
      <4>. QED BY <2>1, <3>1, <4>1
    <3>2. CASE ~(born.day < Length(born.year, born.month)) /\ born.month < 12
      <4>1. born' = [year |-> born.year, month |-> born.month + 1, day |-> 1]
        BY <1>1, <2>1, <3>2 DEF NextDay, Tomorrow
      <4>. QED BY <2>1, <3>2, <4>1
    <3>3. CASE ~(born.day < Length(born.year, born.month)) /\ ~(born.month < 12)
      <4>1. born' = [year |-> born.year + 1, month |-> 1, day |-> 1]
        BY <1>1, <3>3 DEF NextDay, Tomorrow
      <4>. QED BY <2>1, <4>1
    <3>. QED BY <3>1, <3>2, <3>3
  <2>4. born'.day \in 1 .. 31 /\ born'.day <= Length(born'.year, born'.month)
    BY <2>1, <2>2, <2>3
  <2>5. born' \in Dates
    BY <2>3, <2>4 DEF Dates
  <2>. QED BY <2>4, <2>5 DEF Walked
<1>2. CASE UNCHANGED born
  BY <1>2 DEF Walked
<1>. QED BY <1>1, <1>2 DEF BornNext

\* A day's number in the proleptic calendar is an integer.
LEMMA DeltaDaysType ==
    ASSUME NEW d, d.year \in Nat, d.month \in 1 .. 12, d.day \in 1 .. 31
    PROVE  DeltaDays(d) \in Int
<1>1. PICK y : y = d.year - 1
  OBVIOUS
<1>2. PICK a, b, c : a = y \div 4 /\ b = y \div 100 /\ c = y \div 400
  OBVIOUS
<1>3. y \in Int /\ a \in Int /\ b \in Int /\ c \in Int
  BY <1>1, <1>2
<1>4. PICK m : m = DaysBefore[d.month]
  OBVIOUS
<1>5. m \in Nat
  BY <1>4 DEF DaysBefore
<1>6. PICK l : l = IF d.month > 2 /\ Leap(d.year) THEN 1 ELSE 0
  OBVIOUS
<1>7. l \in Nat
  BY <1>6
<1>8. PICK n : n = d.day /\ n \in Nat
  OBVIOUS
<1>9. DeltaDays(d) = 365 * y + a - b + c + m + l + n - 1 - 693595
  BY <1>1, <1>2, <1>4, <1>6, <1>8 DEF DeltaDays
<1>. QED BY <1>3, <1>5, <1>7, <1>8, <1>9, SMT

\* The days are numbered without a gap or a repetition, across the ends of the
\* months and of common and leap years.
LEMMA NextDayNumber == Walked => DeltaDays(Tomorrow(born)) = DeltaDays(born) + 1
<1>. DEFINE y == born.year  m == born.month  n == born.day
<1>1. SUFFICES ASSUME Walked PROVE DeltaDays(Tomorrow(born)) = DeltaDays(born) + 1
  OBVIOUS
<1>2. /\ born = [year |-> y, month |-> m, day |-> n]
      /\ y \in Nat /\ m \in 1 .. 12 /\ n \in 1 .. 31 /\ n <= Length(y, m)
  BY <1>1 DEF Walked, Dates
<1>3. Length(y, m) \in 28 .. 31
  BY DEF Length
<1>4. \A k \in 1 .. 12 : DaysBefore[k] \in Nat
  BY DEF DaysBefore
<1>5. CASE n < Length(y, m)
  <2>1. Tomorrow(born) = [year |-> y, month |-> m, day |-> n + 1]
    BY <1>2, <1>5 DEF Tomorrow
  <2>. QED BY <1>2, <1>4, <2>1, SMT DEF DeltaDays
<1>6. CASE ~(n < Length(y, m)) /\ m < 12
  <2>1. Tomorrow(born) = [year |-> y, month |-> m + 1, day |-> 1]
    BY <1>2, <1>6 DEF Tomorrow
  <2>2. n = Length(y, m)
    BY <1>2, <1>3, <1>6
  <2>3. DaysBefore[m + 1] + (IF m + 1 > 2 /\ Leap(y) THEN 1 ELSE 0)
        = DaysBefore[m] + (IF m > 2 /\ Leap(y) THEN 1 ELSE 0) + Length(y, m)
    BY <1>2, <1>6 DEF DaysBefore, Length
  <2>. QED BY <1>2, <1>3, <1>4, <1>6, <2>1, <2>2, <2>3, SMT DEF DeltaDays
<1>7. CASE ~(n < Length(y, m)) /\ ~(m < 12)
  <2>1. Tomorrow(born) = [year |-> y + 1, month |-> 1, day |-> 1]
    BY <1>7 DEF Tomorrow
  <2>2. m = 12 /\ n = 31
    BY <1>2, <1>3, <1>7 DEF Length
  <2>3. y \div 4 - y \div 100 + y \div 400
        = (y - 1) \div 4 - (y - 1) \div 100 + (y - 1) \div 400 + (IF Leap(y) THEN 1 ELSE 0)
    BY <1>2 DEF Leap
  <2>4. DaysBefore[1] = 0 /\ DaysBefore[12] = 334
    BY DEF DaysBefore
  <2>5. DeltaDays(Tomorrow(born))
        = 365 * y + (y \div 4 - y \div 100 + y \div 400) + DaysBefore[1] - 693595
    BY <1>2, <2>1, <2>4, SMT DEF DeltaDays
  <2>6. DeltaDays(born)
        = 365 * (y - 1) + ((y - 1) \div 4 - (y - 1) \div 100 + (y - 1) \div 400)
          + DaysBefore[12] + (IF Leap(y) THEN 1 ELSE 0) + 30 - 693595
    BY <1>2, <2>2, <2>4, SMT DEF DeltaDays
  <2>. QED BY <1>2, <2>3, <2>4, <2>5, <2>6, SMT
<1>. QED BY <1>5, <1>6, <1>7

\* A place of the cycle of sixty is a pair of a stem and a branch that exists.
LEMMA PlaceOfSixty == ASSUME NEW i \in 0 .. 59 PROVE OfSixty(PillarAt(i))
<1>1. i % 10 \in Stems /\ i % 12 \in Branches /\ (i % 10) % 2 = (i % 12) % 2
  BY DEF Stems, Branches
<1>2. STEM_ELEMENT[i % 10] \in Elements
  BY <1>1 DEF STEM_ELEMENT, Stems, Elements
<1>. QED BY <1>1, <1>2 DEF OfSixty, PillarAt, Pillar

\* And the next place is the next pillar.
LEMMA NextPlace ==
    ASSUME NEW i \in Int, NEW j \in Int, j = i + 1
    PROVE  Follows(PillarAt(j % 60), PillarAt(i % 60))
<1>1. (j % 60) % 10 = (((i % 60) % 10) + 1) % 10 /\ (j % 60) % 12 = (((i % 60) % 12) + 1) % 12
  OBVIOUS
<1>. QED BY <1>1 DEF Follows, PillarAt

\* The year pillar is on the cycle,
LEMMA YearOfSixty == ASSUME NEW y \in Int PROVE OfSixty(YearPillar(y))
<1>1. (y - 1984) % 60 \in 0 .. 59
  OBVIOUS
<1>. QED BY <1>1, PlaceOfSixty DEF YearPillar

\* and goes on by one from year to year.
LEMMA YearFollows ==
    ASSUME NEW y \in Int PROVE Follows(YearPillar(y + 1), YearPillar(y))
<1>1. y + 1 - 1984 = (y - 1984) + 1 /\ y - 1984 \in Int
  OBVIOUS
<1>. QED BY <1>1, NextPlace DEF YearPillar

\* The rule of the months (every second stem at the start of the year) puts an
\* even stem on the month of a tiger.
LEMMA MonthOfSixty ==
    ASSUME NEW y \in Int, NEW m \in 1 .. 12 PROVE OfSixty(MonthPillar(y, m))
<1>1. YearPillar(y).stem \in Stems
  BY YearOfSixty DEF OfSixty, Pillar
<1>2. \A s \in Stems : InStart[s] \in Stems /\ InStart[s] % 2 = 0
  BY DEF InStart, Stems
<1>. DEFINE p == InStart[YearPillar(y).stem]  q == (p + ((m + 11) % 12)) % 10
<1>3. q \in Stems /\ (m + 1) % 12 \in Branches /\ q % 2 = ((m + 1) % 12) % 2
  <2>1. p \in 0 .. 9 /\ p % 2 = 0
    BY <1>1, <1>2 DEF Stems
  <2>. HIDE DEF p
  <2>. QED BY <2>1 DEF Stems, Branches
<1>4. STEM_ELEMENT[q] \in Elements
  BY <1>3 DEF STEM_ELEMENT, Stems, Elements
<1>. QED BY <1>3, <1>4 DEF OfSixty, MonthPillar, Pillar

\* From month to month, and from December to January.
LEMMA MonthFollows ==
    ASSUME NEW y \in Int, NEW m \in 1 .. 12
    PROVE  /\ m < 12 => Follows(MonthPillar(y, m + 1), MonthPillar(y, m))
           /\ Follows(MonthPillar(y + 1, 1), MonthPillar(y, 12))
<1>. DEFINE s == YearPillar(y).stem  t == YearPillar(y + 1).stem
<1>1. s \in Stems /\ t = (s + 1) % 10
  BY YearOfSixty, YearFollows DEF OfSixty, Pillar, Follows
<1>2. InStart[s] \in Stems /\ InStart[(s + 1) % 10] = (InStart[s] + 2) % 10
  BY <1>1 DEF InStart, Stems
<1>3. m < 12 => Follows(MonthPillar(y, m + 1), MonthPillar(y, m))
  BY <1>2 DEF Follows, MonthPillar, Stems
<1>4. Follows(MonthPillar(y + 1, 1), MonthPillar(y, 12))
  BY <1>1, <1>2 DEF Follows, MonthPillar, Stems
<1>. QED BY <1>3, <1>4

\* The day pillar is on the cycle.
LEMMA DayOfSixty ==
    ASSUME NEW d, d.year \in Nat, d.month \in 1 .. 12, d.day \in 1 .. 31
    PROVE  OfSixty(DayPillar(d))
<1>1. (DeltaDays(d) + 10) % 60 \in 0 .. 59
  BY DeltaDaysType
<1>. QED BY <1>1, PlaceOfSixty DEF DayPillar

\* The hour pillar is on it when the stem of its day is one.
LEMMA HourOfSixty ==
    ASSUME NEW d, DayPillar(d).stem \in Stems, NEW h \in 0 .. 23
    PROVE  OfSixty(HourPillar(d, h))
<1>. DEFINE b == ((h + 1) \div 2) % 12  p == JaStart[DayPillar(d).stem]  q == (p + b) % 10
<1>1. p \in Stems /\ p % 2 = 0
  BY DEF JaStart, Stems
<1>2. b \in Branches /\ q \in Stems /\ q % 2 = b % 2
  <2>1. p \in 0 .. 9 /\ p % 2 = 0
    BY <1>1 DEF Stems
  <2>2. b \in 0 .. 11
    OBVIOUS
  <2>. HIDE DEF p, b
  <2>. QED BY <2>1, <2>2 DEF Stems, Branches
<1>3. BRANCH_ELEMENT[b] \in Elements
  BY <1>2 DEF BRANCH_ELEMENT, Branches, Elements
<1>. QED BY <1>2, <1>3 DEF OfSixty, HourPillar, Pillar

\* The hour of 자 that opens a day comes after the hour of 해 that closes the
\* day before.
LEMMA HourFollows ==
    ASSUME NEW c, NEW d, DayPillar(c).stem \in Stems, Follows(DayPillar(d), DayPillar(c))
    PROVE  Follows(HourPillar(d, 0), HourPillar(c, 22))
<1>. DEFINE s == DayPillar(c).stem
<1>1. DayPillar(d).stem = (s + 1) % 10
  BY DEF Follows
<1>2. JaStart[s] \in Stems /\ JaStart[(s + 1) % 10] = (JaStart[s] + 2) % 10
  BY DEF JaStart, Stems
<1>3. ((22 + 1) \div 2) % 12 = 11 /\ ((0 + 1) \div 2) % 12 = 0
  OBVIOUS
<1>. QED BY <1>1, <1>2, <1>3 DEF Follows, HourPillar, Stems

\* What the library or the table makes of a lunar day is a day.
LEMMA SolarDayType ==
    ASSUME NEW d \in Dates, NEW lunar \in BOOLEAN, NEW s \in SolarDay(d, lunar)
    PROVE  s.year \in Nat /\ s.month \in 1 .. 12 /\ s.day \in 1 .. 31
<1>1. d.year \in Nat /\ d.month \in 1 .. 12 /\ d.day \in 1 .. 31
  BY DEF Dates
<1>2. CASE s = d
  BY <1>1, <1>2
<1>3. CASE s \in UNION LunarLibrary(d)
  <2>1. PICK k \in {1, 15, 28} :
           s = [year  |-> IF d.month = 12 THEN d.year + 1 ELSE d.year,
                month |-> (d.month % 12) + 1, day |-> k]
    BY <1>3 DEF LunarLibrary
  <2>. QED BY <1>1, <2>1
<1>4. CASE s \in {p[2] : p \in {q \in LunarTable : q[1] = d}}
  BY <1>4 DEF LunarTable
<1>. QED BY <1>2, <1>3, <1>4 DEF SolarDay, LunarToSolar

\* Every chart of a day of the calendar shows pairs of the cycle.
LEMMA WalkedType == Walked => BornTypeOK
<1>. SUFFICES ASSUME Walked PROVE BornTypeOK
  OBVIOUS
<1>1. born \in Dates
  BY DEF Walked
<1>2. ASSUME NEW h \in 0 .. 23, NEW lunar \in BOOLEAN, NEW unknown \in BOOLEAN,
             NEW c \in ComputeChart(born, h, lunar, unknown),
             NEW p \in {c.year, c.month, c.day} \cup c.hour
      PROVE  OfSixty(p)
  <2>1. PICK s \in SolarDay(born, lunar) :
           c = [year  |-> YearPillar(s.year), month |-> MonthPillar(s.year, s.month),
                day   |-> DayPillar(s), hour  |-> IF unknown THEN {} ELSE {HourPillar(s, h)}]
    BY <1>2 DEF ComputeChart
  <2>2. s.year \in Nat /\ s.month \in 1 .. 12 /\ s.day \in 1 .. 31
    BY <1>1, SolarDayType
  <2>3. OfSixty(YearPillar(s.year)) /\ OfSixty(MonthPillar(s.year, s.month))
    BY <2>2, YearOfSixty, MonthOfSixty
  <2>4. OfSixty(DayPillar(s))
    BY <2>2, DayOfSixty
  <2>5. OfSixty(HourPillar(s, h))
    BY <2>4, HourOfSixty DEF OfSixty, Pillar
  <2>. QED BY <1>2, <2>1, <2>3, <2>4, <2>5
<1>. QED BY <1>1, <1>2 DEF BornTypeOK

\* Whatever the years walked, a chart shows only pairs of the cycle of sixty.
THEOREM ChartsOfSixty == BornSpec => []BornTypeOK
  BY Walks, WalksOn, WalkedType, PTL DEF BornSpec

\* From one day to the next, whatever the years walked, each pillar stays or
\* moves one place on the cycle.
THEOREM PillarsTurnByOne == BornSpec => PillarsTurn
<1>1. ASSUME Walked, NextDay
      PROVE  /\ Follows(DayPillar(born'), DayPillar(born))
             /\ IF born.month = born'.month
                THEN MonthPillar(born'.year, born'.month) = MonthPillar(born.year, born.month)
                ELSE Follows(MonthPillar(born'.year, born'.month),
                             MonthPillar(born.year, born.month))
             /\ IF born.year = born'.year THEN YearPillar(born'.year) = YearPillar(born.year)
                ELSE Follows(YearPillar(born'.year), YearPillar(born.year))
             /\ Follows(HourPillar(born', 0), HourPillar(born, 22))
  <2>1. /\ born.year \in Nat /\ born.month \in 1 .. 12 /\ born.day \in 1 .. 31
        /\ born = [year |-> born.year, month |-> born.month, day |-> born.day]
    BY <1>1 DEF Walked, Dates
  <2>2. born' = Tomorrow(born)
    BY <1>1 DEF NextDay
  <2>3. Follows(DayPillar(born'), DayPillar(born))
    <3>1. DeltaDays(born) \in Int /\ DeltaDays(born') = DeltaDays(born) + 1
      BY <1>1, <2>1, <2>2, DeltaDaysType, NextDayNumber
    <3>. QED BY <3>1, NextPlace DEF DayPillar
  <2>4. Follows(HourPillar(born', 0), HourPillar(born, 22))
    <3>1. DayPillar(born).stem \in Stems
      BY <2>1, DayOfSixty DEF OfSixty, Pillar
    <3>. QED BY <2>3, <3>1, HourFollows
  <2>5. \/ born'.month = born.month /\ born'.year = born.year
        \/ born.month < 12 /\ born'.month = born.month + 1 /\ born'.year = born.year
        \/ born.month = 12 /\ born'.month = 1 /\ born'.year = born.year + 1
    BY <2>1, <2>2 DEF Tomorrow
  <2>6. /\ Follows(YearPillar(born.year + 1), YearPillar(born.year))
        /\ born.month < 12 => Follows(MonthPillar(born.year, born.month + 1),
                                      MonthPillar(born.year, born.month))
        /\ Follows(MonthPillar(born.year + 1, 1), MonthPillar(born.year, 12))
    BY <2>1, YearFollows, MonthFollows
  <2>. QED BY <2>1, <2>3, <2>4, <2>5, <2>6
<1>2. Walked /\ [BornNext]_born => [NextDay]_born
  BY DEF BornNext
<1>. QED BY <1>1, <1>2, Walks, WalksOn, PTL DEF BornSpec, PillarsTurn

-----------------------------------------------------------------------------
(* RateLimit: arithmetic *)

\* A product of naturals is one,
LEMMA Product == \A a, b \in Nat : a * b \in Nat
OBVIOUS

\* one more of a factor adds the other,
LEMMA OneMore == \A a, b \in Nat : (a + 1) * b = a * b + b
OBVIOUS

\* and products grow with their factors.
LEMMA Grows ==
    ASSUME NEW a \in Nat, NEW b \in Nat, NEW c \in Nat, a <= b
    PROVE  a * c <= b * c
<1> DEFINE d == b - a
<1>1. d \in Nat /\ b = a + d
  OBVIOUS
<1>2. d * c \in Nat
  BY <1>1, Product
<1>3. (a + d) * c = a * c + d * c
  BY <1>1
<1> QED
  BY <1>1, <1>2, <1>3, Product

\* A token, a full bucket and what a tick refills are whole numbers.
LEMMA Whole ==
    /\ Token \in Nat \ {0} /\ Full \in Nat /\ Token <= Full
    /\ LIMIT * TICKS \in Nat \ {0}
    /\ WINDOW * (TICKS * LIMIT) = Full
<1>1. Token \in Nat \ {0}
  BY RateAssumption DEF Token
<1>2. Full \in Nat
  BY <1>1, RateAssumption, Product DEF Full
<1>3. 1 * Token <= LIMIT * Token
  BY <1>1, RateAssumption, Grows
<1>4. LIMIT * TICKS \in Nat \ {0}
  BY RateAssumption
<1>5. WINDOW * (TICKS * LIMIT) = Full
  BY RateAssumption DEF Full, Token
<1> QED
  BY <1>1, <1>2, <1>3, <1>4, <1>5 DEF Full

\* Rounding up.
LEMMA CeilBounds ==
    ASSUME NEW a \in Nat, NEW b \in Nat \ {0}
    PROVE  Ceil(a, b) \in Nat /\ a <= Ceil(a, b) * b
BY DEF Ceil

\* Least and Most are what their names say.
LEMMA LeastMost ==
    ASSUME NEW a \in Nat, NEW b \in Nat
    PROVE  /\ Least(a, b) \in {a, b} /\ Least(a, b) <= a /\ Least(a, b) <= b
           /\ Most(a, b) \in {a, b} /\ a <= Most(a, b) /\ b <= Most(a, b)
BY DEF Least, Most

\* The wait a refused caller is told is worth a token.
LEMMA WaitIsEnough ==
    ASSUME NEW r \in Nat, r < Token
    PROVE  RetryAfter(r) \in Nat \ {0} /\ Token <= r + (RetryAfter(r) * TICKS) * LIMIT
<1> DEFINE b == LIMIT * TICKS
           q == Ceil(Token - r, b)
           m == Most(1, q)
           w == RetryAfter(r)
<1>1. b \in Nat \ {0} /\ Token \in Nat /\ Token - r \in Nat
  BY Whole
<1>2. q \in Nat /\ Token - r <= q * b
  BY <1>1, CeilBounds
<1>3. m \in Nat \ {0} /\ q <= m
  BY <1>2, LeastMost
<1>4. q * b <= m * b
  BY <1>1, <1>2, <1>3, Grows
<1>5. w = Least(m, WINDOW) /\ w \in {m, WINDOW} /\ w \in Nat \ {0}
  BY <1>3, RateAssumption, LeastMost DEF RetryAfter
<1>6. (w * TICKS) * LIMIT = w * b
  BY <1>5, RateAssumption
<1>7. Token - r <= w * b
  <2>1. CASE w = m
    BY <1>1, <1>2, <1>3, <1>4, <2>1, Product
  <2>2. CASE w = WINDOW
    <3>1. WINDOW * b = Full
      BY Whole, RateAssumption
    <3> QED
      BY <1>1, <2>2, <3>1, Whole
  <2> QED
    BY <1>5, <2>1, <2>2
<1> QED
  BY <1>1, <1>5, <1>6, <1>7, Product

-----------------------------------------------------------------------------
(* RateLimit: the invariant *)

\* A bucket was filled in the past, and never above the limit.
Bucketed ==
    \A k \in Buckets : buckets[k] # NoBucket =>
        buckets[k].tokens <= Full /\ buckets[k].last_refill <= tick

\* Nobody got through in the future, nor without a bucket.
CountedPast ==
    \A k \in Buckets, t \in Ticks :
        tick < t \/ buckets[k] = NoBucket => since[k][t] = 0

\* What got through since some moment, with what the bucket holds now, is what
\* a full bucket and the time since then make.
Conserved ==
    \A k \in Buckets, t \in Ticks : t <= tick =>
        Refilled(k) + since[k][t] * Token <= Full + (tick - t) * LIMIT

\* At the promised time the bucket will hold a token.
PromiseCovered ==
    \A k \in Buckets : promised[k] # NoPromise =>
        /\ buckets[k] # NoBucket /\ buckets[k].last_refill <= promised[k]
        /\ Token <= buckets[k].tokens + (promised[k] - buckets[k].last_refill) * LIMIT

RateInv == RateTypeOK /\ Bucketed /\ CountedPast /\ Conserved /\ PromiseCovered

\* A bucket that is filled up is never above the limit.
RefillsInBounds == \A k \in Buckets : Refilled(k) \in Nat /\ Refilled(k) <= Full

\* A refill stays within the bucket.
LEMMA RefilledBounds == RateTypeOK /\ Bucketed => RefillsInBounds
<1> SUFFICES ASSUME RateTypeOK, Bucketed, NEW k \in Buckets
             PROVE  Refilled(k) \in Nat /\ Refilled(k) <= Full
  BY DEF RefillsInBounds
<1>1. CASE buckets[k] = NoBucket
  BY <1>1, Whole DEF Refilled
<1>2. CASE buckets[k] # NoBucket
  <2> DEFINE e == (tick - buckets[k].last_refill) * LIMIT
  <2>1. buckets[k].tokens \in Nat /\ tick - buckets[k].last_refill \in Nat
    BY <1>2 DEF RateTypeOK, Bucketed, Bucket, Ticks
  <2>2. e \in Nat
    BY <2>1, RateAssumption, Product
  <2>3. Refilled(k) = Least(Full, buckets[k].tokens + e)
    BY <1>2 DEF Refilled
  <2> HIDE DEF e
  <2> QED
    BY <2>1, <2>2, <2>3, Whole, LeastMost
<1> QED
  BY <1>1, <1>2

-----------------------------------------------------------------------------
(* RateLimit: the steps *)

\* A bucket that a request leaves with n tokens.
LEMMA NewBucket ==
    ASSUME RateTypeOK, Bucketed, NEW k \in Buckets, NEW n \in Nat, n <= Full,
           Refill(k, n), UNCHANGED tick
    PROVE  /\ buckets' \in [Buckets -> Bucket \cup {NoBucket}] /\ Bucketed'
           /\ buckets'[k] # NoBucket
           /\ buckets'[k].tokens = n /\ buckets'[k].last_refill = tick
           /\ Refilled(k)' = n
           /\ \A j \in Buckets \ {k} : buckets'[j] = buckets[j] /\ Refilled(j)' = Refilled(j)
<1> DEFINE b == [tokens |-> n, last_refill |-> tick]
<1>1. b \in Bucket /\ b # NoBucket /\ b.tokens = n /\ b.last_refill = tick
  <2>1. tick \in Ticks /\ tick # LastTick + 1
    BY RateAssumption DEF RateTypeOK, Ticks
  <2> QED
    BY <2>1 DEF Bucket, NoBucket
<1>2. buckets' = [buckets EXCEPT ![k] = b]
  BY DEF Refill
<1> HIDE DEF b
<1>3. /\ buckets' \in [Buckets -> Bucket \cup {NoBucket}] /\ buckets'[k] = b
      /\ \A j \in Buckets \ {k} : buckets'[j] = buckets[j]
  BY <1>1, <1>2 DEF RateTypeOK
<1>4. Bucketed'
  <2>1. tick' = tick /\ tick <= tick
    BY RateAssumption DEF RateTypeOK, Ticks
  <2> QED
    BY <1>1, <1>3, <2>1 DEF Bucketed
<1>5. Refilled(k)' = n
  <2>1. Refilled(k)' = Least(Full, n + (tick - tick) * LIMIT)
    BY <1>1, <1>3 DEF Refilled
  <2>2. n + (tick - tick) * LIMIT = n
    BY RateAssumption DEF RateTypeOK, Ticks
  <2> QED
    BY <2>1, <2>2, Whole DEF Least
<1>6. \A j \in Buckets \ {k} : Refilled(j)' = Refilled(j)
  BY <1>3 DEF Refilled
<1> QED
  BY <1>1, <1>3, <1>4, <1>5, <1>6

\* A token is taken: what is left and what got through are still covered.
LEMMA AdmitKeeps ==
    ASSUME RateInv, NEW k \in Buckets, Admit(k)
    PROVE  RateInv'
<1> DEFINE n == Refilled(k) - Token
           s == [t \in Ticks |-> IF t <= tick THEN since[k][t] + 1 ELSE since[k][t]]
<1>1. Token \in Nat \ {0} /\ Refilled(k) \in Nat /\ n \in Nat /\ n <= Full
  BY Whole, RefilledBounds DEF RateInv, Admit, RefillsInBounds
<1>2. /\ Refill(k, n) /\ UNCHANGED tick /\ since' = [since EXCEPT ![k] = s]
      /\ promised' = [promised EXCEPT ![k] = NoPromise]
  BY DEF Admit
<1>3. s \in [Ticks -> Nat]
  BY DEF RateInv, RateTypeOK
<1> HIDE DEF n
<1>4. /\ buckets' \in [Buckets -> Bucket \cup {NoBucket}] /\ Bucketed'
      /\ buckets'[k] # NoBucket /\ Refilled(k)' = n
      /\ \A j \in Buckets \ {k} : buckets'[j] = buckets[j] /\ Refilled(j)' = Refilled(j)
  BY <1>1, <1>2, NewBucket DEF RateInv
<1>5. since'[k] = s /\ \A j \in Buckets \ {k} : since'[j] = since[j] /\ promised'[j] = promised[j]
  BY <1>2 DEF RateInv, RateTypeOK
<1>6. RateTypeOK'
  BY <1>2, <1>3, <1>4 DEF RateInv, RateTypeOK, NoPromise
<1>7. CountedPast'
  BY <1>2, <1>4, <1>5, RateAssumption DEF RateInv, RateTypeOK, CountedPast, Ticks
<1>8. Conserved'
  <2> SUFFICES ASSUME NEW j \in Buckets, NEW t \in Ticks, t <= tick
               PROVE  Refilled(j)' + since'[j][t] * Token <= Full + (tick - t) * LIMIT
    BY <1>2 DEF Conserved
  <2>1. CASE j # k
    BY <1>4, <1>5, <2>1 DEF RateInv, Conserved
  <2>2. CASE j = k
    <3>1. since[k][t] \in Nat /\ since'[k][t] = since[k][t] + 1
      BY <1>5 DEF RateInv, RateTypeOK
    <3>2. since'[k][t] * Token = since[k][t] * Token + Token
      BY <1>1, <3>1, OneMore
    <3>3. since[k][t] * Token \in Nat
      BY <1>1, <3>1, Product
    <3>4. Refilled(k) + since[k][t] * Token <= Full + (tick - t) * LIMIT
      BY DEF RateInv, Conserved
    <3>5. Refilled(k)' + Token = Refilled(k)
      BY <1>1, <1>4 DEF n
    <3>6. (tick - t) * LIMIT \in Nat
      BY RateAssumption, Product DEF RateInv, RateTypeOK, Ticks
    <3> QED
      BY <1>1, <1>4, <2>2, <3>2, <3>3, <3>4, <3>5, <3>6, Whole
  <2> QED
    BY <2>1, <2>2
<1>9. PromiseCovered'
  BY <1>2, <1>4, <1>5 DEF RateInv, RateTypeOK, PromiseCovered, NoPromise
<1> QED
  BY <1>4, <1>6, <1>7, <1>8, <1>9 DEF RateInv

\* A refusal promises a time by which there is a token.
LEMMA RefuseKeeps ==
    ASSUME RateInv, NEW k \in Buckets, Refuse(k)
    PROVE  RateInv'
<1> DEFINE n == Refilled(k)
           p == tick + RetryAfter(n) * TICKS
<1>1. n \in Nat /\ n <= Full /\ n < Token
  BY RefilledBounds DEF RateInv, Refuse, RefillsInBounds
<1>2. /\ Refill(k, n) /\ UNCHANGED <<tick, since>>
      /\ promised' = [promised EXCEPT ![k] = p]
  BY DEF Refuse
<1>3. /\ tick \in Nat /\ p \in Nat /\ tick <= p
      /\ p - tick = RetryAfter(n) * TICKS
      /\ Token <= n + (p - tick) * LIMIT
  <2>1. tick \in Nat
    BY RateAssumption DEF RateInv, RateTypeOK, Ticks
  <2>2. RetryAfter(n) \in Nat /\ Token <= n + (RetryAfter(n) * TICKS) * LIMIT
    BY <1>1, WaitIsEnough
  <2>3. RetryAfter(n) * TICKS \in Nat
    BY <2>2, RateAssumption, Product
  <2> QED
    BY <2>1, <2>2, <2>3
<1> HIDE DEF n, p
<1>4. /\ buckets' \in [Buckets -> Bucket \cup {NoBucket}] /\ Bucketed'
      /\ buckets'[k] # NoBucket /\ Refilled(k)' = n
      /\ buckets'[k].tokens = n /\ buckets'[k].last_refill = tick
      /\ \A j \in Buckets \ {k} : buckets'[j] = buckets[j] /\ Refilled(j)' = Refilled(j)
  BY <1>1, <1>2, NewBucket DEF RateInv
<1>5. RateTypeOK'
  BY <1>2, <1>3, <1>4 DEF RateInv, RateTypeOK
<1>6. CountedPast'
  BY <1>2, <1>4 DEF RateInv, CountedPast
<1>7. Conserved'
  BY <1>2, <1>4 DEF RateInv, Conserved, n
<1>8. PromiseCovered'
  BY <1>2, <1>3, <1>4 DEF RateInv, RateTypeOK, PromiseCovered
<1> QED
  BY <1>4, <1>5, <1>6, <1>7, <1>8 DEF RateInv

\* Time passes: buckets refill, new stretches begin.
LEMMA TickKeeps ==
    ASSUME RateInv, Tick
    PROVE  RateInv'
<1>1. tick \in Nat /\ tick < LastTick /\ tick' = tick + 1 /\ UNCHANGED <<buckets, since, promised>>
  BY RateAssumption DEF Tick, RateInv, RateTypeOK, Ticks
<1>2. RateTypeOK' /\ Bucketed'
  BY <1>1, RateAssumption DEF RateInv, RateTypeOK, Bucketed, Bucket, Ticks
<1>3. CountedPast' /\ PromiseCovered'
  BY <1>1, RateAssumption DEF RateInv, CountedPast, PromiseCovered, Ticks
<1>4. (RateTypeOK /\ Bucketed => RefillsInBounds)'
  BY RefilledBounds, PTL
<1>5. \A k \in Buckets : Refilled(k) \in Nat /\ Refilled(k)' \in Nat /\ Refilled(k)' <= Full
  BY <1>2, <1>4, RefilledBounds DEF RateInv, RefillsInBounds
<1>6. ASSUME NEW k \in Buckets PROVE Refilled(k)' <= Refilled(k) + LIMIT
  <2>1. CASE buckets[k] = NoBucket
    BY <1>1, <1>5, <2>1, Whole, RateAssumption DEF Refilled
  <2>2. CASE buckets[k] # NoBucket
    <3> DEFINE d == tick - buckets[k].last_refill
               v == buckets[k].tokens
    <3>1. d \in Nat /\ v \in Nat /\ tick' - buckets[k].last_refill = d + 1
      BY <1>1, <2>2 DEF RateInv, RateTypeOK, Bucketed, Bucket, Ticks
    <3>2. d * LIMIT \in Nat /\ (d + 1) * LIMIT = d * LIMIT + LIMIT
      BY <3>1, RateAssumption, Product, OneMore
    <3>3. Refilled(k) = Least(Full, v + d * LIMIT)
      BY <2>2 DEF Refilled
    <3>4. Refilled(k)' = Least(Full, v + (d + 1) * LIMIT)
      BY <1>1, <2>2, <3>1 DEF Refilled
    <3> HIDE DEF d, v
    <3> QED
      BY <3>1, <3>2, <3>3, <3>4, Whole, RateAssumption DEF Least
  <2> QED
    BY <2>1, <2>2
<1>7. Conserved'
  <2> SUFFICES ASSUME NEW k \in Buckets, NEW t \in Ticks, t <= tick + 1
               PROVE  Refilled(k)' + since[k][t] * Token <= Full + ((tick + 1) - t) * LIMIT
    BY <1>1 DEF Conserved
  <2>1. t \in Nat /\ since[k][t] \in Nat /\ since[k][t] * Token \in Nat
    BY RateAssumption, Whole, Product DEF RateInv, RateTypeOK, Ticks
  <2>2. CASE t = tick + 1
    <3>1. since[k][t] = 0
      BY <1>1, <2>2 DEF RateInv, CountedPast
    <3>2. since[k][t] * Token = 0 /\ ((tick + 1) - t) * LIMIT = 0
      BY <1>1, <2>2, <3>1, Whole, RateAssumption
    <3> QED
      BY <1>5, <3>2, Whole
  <2>3. CASE t <= tick
    <3>1. Refilled(k) + since[k][t] * Token <= Full + (tick - t) * LIMIT
      BY <2>3 DEF RateInv, Conserved
    <3>2. tick - t \in Nat /\ (tick + 1) - t = (tick - t) + 1
      BY <1>1, <2>1, <2>3
    <3>3. /\ (tick - t) * LIMIT \in Nat
          /\ ((tick - t) + 1) * LIMIT = (tick - t) * LIMIT + LIMIT
      BY <3>2, RateAssumption, Product, OneMore
    <3> QED
      BY <1>5, <1>6, <2>1, <3>1, <3>2, <3>3, Whole, RateAssumption
  <2> QED
    BY <1>1, <2>1, <2>2, <2>3
<1> QED
  BY <1>2, <1>3, <1>7 DEF RateInv

-----------------------------------------------------------------------------
(* RateLimit: what follows *)

\* Nothing has been asked for.
LEMMA RateStarts == RateInit => RateInv
<1> SUFFICES ASSUME RateInit PROVE RateInv
  OBVIOUS
<1>1. RateTypeOK
  BY RateAssumption DEF RateInit, RateTypeOK, Ticks, NoPromise
<1>2. Bucketed /\ CountedPast /\ PromiseCovered
  BY DEF RateInit, Bucketed, CountedPast, PromiseCovered
<1>3. Conserved
  <2> SUFFICES ASSUME NEW k \in Buckets, NEW t \in Ticks, t <= tick
               PROVE  Refilled(k) + since[k][t] * Token <= Full + (tick - t) * LIMIT
    BY DEF Conserved
  <2>1. Refilled(k) = Full /\ since[k][t] = 0 /\ tick = 0 /\ t = 0
    BY RateAssumption DEF RateInit, Refilled, Ticks
  <2>2. 0 * Token = 0 /\ (0 - 0) * LIMIT = 0
    BY Whole, RateAssumption
  <2> QED
    BY <2>1, <2>2, Whole
<1> QED
  BY <1>1, <1>2, <1>3 DEF RateInv

\* Every step of the limiter keeps it.
LEMMA RateSteps == RateInv /\ [RateNext]_rates => RateInv'
<1> SUFFICES ASSUME RateInv, [RateNext]_rates PROVE RateInv'
  OBVIOUS
<1>1. CASE Tick
  BY <1>1, TickKeeps
<1>2. ASSUME NEW k \in Buckets, Admit(k) \/ Refuse(k) PROVE RateInv'
  BY <1>2, AdmitKeeps, RefuseKeeps
<1>3. CASE UNCHANGED rates
  BY <1>3 DEF rates, RateInv, RateTypeOK, Bucketed, CountedPast, Conserved, PromiseCovered, Refilled
<1> QED
  BY <1>1, <1>2, <1>3 DEF RateNext

\* The clock, the buckets and the counts keep their types; a bucket never goes
\* below nothing.
THEOREM RateTypeCorrect == RateSpec => []RateTypeOK
<1>1. RateInv => RateTypeOK
  BY DEF RateInv
<1> QED
  BY <1>1, RateStarts, RateSteps, PTL DEF RateSpec

\* For every limit and window, no caller gets more through in any stretch of
\* time than a full bucket and the refill of that time.
THEOREM BurstsBounded == RateSpec => []BurstBounded
<1>1. RateInv => BurstBounded
  <2> SUFFICES ASSUME RateInv, NEW k \in Buckets, NEW t \in Ticks, t <= tick
               PROVE  since[k][t] * Token <= Full + (tick - t) * LIMIT
    BY DEF BurstBounded
  <2>1. Refilled(k) \in Nat /\ since[k][t] * Token \in Nat /\ (tick - t) * LIMIT \in Nat
    BY RefilledBounds, Whole, RateAssumption, Product DEF RateInv, RateTypeOK, Ticks, RefillsInBounds
  <2>2. Refilled(k) + since[k][t] * Token <= Full + (tick - t) * LIMIT
    BY DEF RateInv, Conserved
  <2> QED
    BY <2>1, <2>2, Whole
<1> QED
  BY <1>1, RateStarts, RateSteps, PTL DEF RateSpec

\* A caller that comes back when it was told to finds a token, whatever other
\* callers did.
THEOREM RetryAfterIsHonest == RateSpec => []RetryAfterHonest
<1>1. RateInv => RetryAfterHonest
  <2> SUFFICES ASSUME RateInv, NEW k \in Buckets, promised[k] # NoPromise, tick >= promised[k]
               PROVE  Refilled(k) >= Token
    BY DEF RetryAfterHonest
  <2> DEFINE p == promised[k] - buckets[k].last_refill
             d == tick - buckets[k].last_refill
             v == buckets[k].tokens
  <2>1. /\ buckets[k] # NoBucket /\ buckets[k] \in Bucket /\ buckets[k].last_refill <= promised[k]
        /\ Token <= v + p * LIMIT
    BY DEF RateInv, RateTypeOK, PromiseCovered
  <2>2. p \in Nat /\ d \in Nat /\ v \in Nat /\ p <= d
    BY <2>1 DEF RateInv, RateTypeOK, Bucketed, Bucket, Ticks
  <2>3. p * LIMIT <= d * LIMIT /\ p * LIMIT \in Nat /\ d * LIMIT \in Nat
    BY <2>2, RateAssumption, Grows, Product
  <2>4. Refilled(k) = Least(Full, v + d * LIMIT)
    BY <2>1 DEF Refilled
  <2> HIDE DEF p, d, v
  <2> QED
    BY <2>1, <2>2, <2>3, <2>4, Whole DEF Least
<1> QED
  BY <1>1, RateStarts, RateSteps, PTL DEF RateSpec

-----------------------------------------------------------------------------
(* All of them *)

\* What every module keeps, whichever of them moves.
ProductInv ==
    /\ ReadingsInv /\ TarotInv /\ SharesInv /\ Walked /\ SpeechInv
    /\ LlmInv /\ GuardrailTypeOK /\ RateInv /\ HistoryInv

\* All of it holds at first,
LEMMA ProductStarts == Init => ProductInv
<1>1. Init => /\ ReadingsInit /\ TarotInit /\ SharesInit /\ BornInit /\ SpeechInit
              /\ LlmInit /\ GuardrailInit /\ RateInit /\ HistoryInit
  BY DEF Init
<1>2. GuardrailInit => GuardrailTypeOK
  BY GuardrailAssumption DEF GuardrailInit, GuardrailTypeOK
<1>. QED BY <1>1, <1>2, ReadingsStart, TarotStarts, SharesStarts, Walks, SpeechStarts,
            LlmStarts, RateStarts, HistoryStarts DEF ProductInv

\* A step of the product is a step of each module, or leaves it alone.
LEMMA ProductMoves ==
    [Next]_vars =>
        /\ [ReadingsNext]_readings /\ [TarotNext]_tarot /\ [SharesNext]_shares
        /\ [BornNext]_born /\ [SpeechNext]_speaking /\ [LlmNext]_llmState
        /\ [NextSentence]_sentence /\ [RateNext]_rates /\ [HistoryNext]_listings
  BY DEF Next, vars

\* and is kept.
LEMMA ProductSteps == ProductInv /\ [Next]_vars => ProductInv'
  BY ProductMoves, ReadingsStep, TarotSteps, SharesSteps, WalksOn, SpeechStep,
     LlmSteps, SentenceSteps, RateSteps, HistorySteps DEF ProductInv

\* Every row, request, buffer and counter of the product keeps its type, and
\* every pillar of a chart is one of the sixty: in the run, for its instances,
\* and here, for any.
THEOREM ProductTypeCorrect == Spec => []TypeOK
<1>1. Spec => []ProductInv
  BY ProductStarts, ProductSteps, PTL DEF Spec
<1>2. ProductInv => TypeOK
  <2>1. ReadingsInv => ReadingsTypeOK
    BY DEF ReadingsInv
  <2>2. TarotInv => TarotTypeOK
    BY DEF TarotInv
  <2>3. SharesInv => SharesTypeOK
    BY DEF SharesInv
  <2>4. Walked => BornTypeOK
    BY WalkedType
  <2>5. LlmInv => LlmTypeOK
    BY DEF LlmInv
  <2>6. RateInv => RateTypeOK
    BY DEF RateInv
  <2>7. HistoryInv => HistoryTypeOK
    BY DEF HistoryInv, RowsTimed
  <2>. QED BY <2>1, <2>2, <2>3, <2>4, <2>5, <2>6, <2>7, SpeechInvType DEF ProductInv, TypeOK
<1>. QED BY <1>1, <1>2, PTL
=============================================================================
