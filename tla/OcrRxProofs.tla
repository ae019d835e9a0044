----------------------------- MODULE OcrRxProofs -----------------------------
(***************************************************************************)
(* Proofs about OcrRx, for every width of a word, every length of a text   *)
(* and every number of plates.                                             *)
(*                                                                         *)
(* A strip is given to OCR_RX_UNIT as a sequence of characters, Strip; at  *)
(* every clock cycle it is in four places one after the other: the words   *)
(* in Result_FILO, the last c characters of sipo_reg, Output_reg, and what *)
(* is still to come.  The argument follows c, which the counter does not   *)
(* tell: it is 0 both with no and with one character.                      *)
(*                                                                         *)
(* What the software reads, with every word turned round, is then split at *)
(* the nulls.  Layout says where in it the texts are; Split finds a text   *)
(* where one is, and nowhere else.                                         *)
(***************************************************************************)
EXTENDS OcrRx, DataLemmas

\* What is written of a strip, Given beyond its end: nulls.
Strip == Stream(All)
Given(S, i) == IF i \in 1 .. Len(S) THEN S[i] ELSE NULL_CHAR

\* Of s, the n characters after the first a are those of S after the first b.
Holds(s, a, S, b, n) == \A i \in 1 .. n : s[a + i] = Given(S, b + i)

Pushed   == W * Len(stored)
LastText == IF texts = <<>> THEN 0 ELSE Len(texts[All])

TextsGiven ==
  \A k \in 1 .. All : \E n \in 1 .. MAX_OUT_L : texts[k] = [i \in 1 .. n |-> <<k, i>>]

\* The counter is one behind the c characters that wait, unless a word was pushed
\* and nothing came after it.
Counted(c) == c = sipo_reg_count + 1 \/ (c = 0 /\ sipo_reg_count = 0)

\* Nothing but the last text is still to be shifted; a word starts with the
\* null of a text or with one of its characters, and then with the next one.
LastInOutput(c) ==
  /\ Len(Strip) <= Pushed + c + LastText + 1
  /\ c = 0 => Len(Strip) = Pushed \/ (Len(Strip) = Pushed + LastText + 1 /\ texts # <<>>)
  /\ c = 1 => Len(Strip) <= Pushed + 1 + LastText

NotAhead(c) ==
  /\ phase = "images" => Pushed + c <= Len(Strip)
  /\ phase = "final" => texts # <<>> /\ (Pushed < Len(Strip) \/ (c = 0 /\ Pushed = Len(Strip)))
  /\ texts = <<>> => Pushed + c = 0

InRegisters(c) ==
  /\ LC_reg = Len(stored) /\ Len(FlattenSeq(stored)) = Pushed
  /\ Holds(FlattenSeq(stored), 0, Strip, 0, Pushed)
  /\ Holds(sipo_reg, W - c, Strip, Pushed, c)
  /\ Holds(Output_reg, 0, Strip, Pushed + c, MAX_OUT_L + 1)

Aligned(c) == Counted(c) /\ LastInOutput(c) /\ NotAhead(c) /\ InRegisters(c)

WordsInStep ==
  phase \in {"images", "final"} /\ ~Spills /\ Fits => \E c \in 0 .. W : Aligned(c)
-----------------------------------------------------------------------------
(* The characters of a strip. *)

\* Stream, of any sequence of texts.
StreamOf(t, k) == FlattenSeq([i \in 1 .. k |-> <<NULL_CHAR>> \o Reverse(t[i])])

LEMMA StreamIs == Stream(All) = StreamOf(texts, Len(texts))
BY Zenon DEF Stream, All, StreamOf

LEMMA CharFacts == NULL_CHAR \in Char /\ <<NULL_CHAR>> \in Text /\ Len(<<NULL_CHAR>>) = 1
BY DEF Char, Text

LEMMA ReverseFacts ==
  ASSUME NEW s \in Text
  PROVE  /\ Reverse(s) \in Text /\ Len(Reverse(s)) = Len(s)
         /\ \A i \in 1 .. Len(s) : Reverse(s)[i] = s[(Len(s) - i) + 1]
BY DEF Reverse, Text

LEMMA PieceFacts ==
  ASSUME NEW s \in Text
  PROVE  /\ (<<NULL_CHAR>> \o Reverse(s)) \in Text
         /\ Len(<<NULL_CHAR>> \o Reverse(s)) = 1 + Len(s)
         /\ (<<NULL_CHAR>> \o Reverse(s))[1] = NULL_CHAR
         /\ \A i \in 1 .. Len(s) : (<<NULL_CHAR>> \o Reverse(s))[1 + i] = s[(Len(s) - i) + 1]
<1> DEFINE r == Reverse(s)
<1>1. /\ r \in Text /\ Len(r) = Len(s)
      /\ \A i \in 1 .. Len(s) : r[i] = s[(Len(s) - i) + 1]
  BY Zenon, ReverseFacts
<1> HIDE DEF r
<1>2. r \in Seq(Char) /\ NULL_CHAR \in Char
  BY <1>1, CharFacts DEF Text
<1>3. /\ (<<NULL_CHAR>> \o r) \in Seq(Char)
      /\ Len(<<NULL_CHAR>> \o r) = 1 + Len(r)
      /\ (<<NULL_CHAR>> \o r)[1] = NULL_CHAR
      /\ \A i \in 1 .. Len(r) : (<<NULL_CHAR>> \o r)[1 + i] = r[i]
  BY <1>2
<1>4. QED
  BY <1>1, <1>3 DEF r, Text

\* What a text adds to the strip.
Pieces(t, k) == [i \in 1 .. k |-> <<NULL_CHAR>> \o Reverse(t[i])]

LEMMA PiecesType ==
  ASSUME NEW t \in Seq(Text), NEW k \in 0 .. Len(t)
  PROVE  /\ Pieces(t, k) \in Seq(Text) /\ Len(Pieces(t, k)) = k
         /\ \A i \in 1 .. k : Pieces(t, k)[i] = <<NULL_CHAR>> \o Reverse(t[i])
<1>1. \A i \in 1 .. k : Pieces(t, k)[i] = <<NULL_CHAR>> \o Reverse(t[i])
  BY Zenon DEF Pieces
<1>2. ASSUME NEW i \in 1 .. k
      PROVE  (<<NULL_CHAR>> \o Reverse(t[i])) \in Text
  <2>1. t[i] \in Text
    OBVIOUS
  <2>2. QED
    BY Zenon, <2>1, PieceFacts
<1>3. Pieces(t, k) \in [1 .. k -> Text]
  BY Zenon, <1>2 DEF Pieces
<1>4. k \in Nat
  OBVIOUS
<1>5. Pieces(t, k) \in Seq(Text)
  BY <1>3, <1>4, SeqDef
<1>6. Len(Pieces(t, k)) \in Nat /\ DOMAIN Pieces(t, k) = 1 .. Len(Pieces(t, k))
  BY <1>5, LenProperties
<1>7. Len(Pieces(t, k)) = k
  BY <1>3, <1>4, <1>6
<1>8. QED
  BY <1>1, <1>5, <1>7

LEMMA StreamType ==
  ASSUME NEW t \in Seq(Text), NEW k \in 0 .. Len(t)
  PROVE  StreamOf(t, k) \in Text /\ Len(StreamOf(t, k)) \in Nat
<1>1. Pieces(t, k) \in Seq(Seq(Char))
  BY PiecesType DEF Text
<1>2. FlattenSeq(Pieces(t, k)) \in Seq(Char)
  BY Zenon, <1>1, FlattenType
<1>3. StreamOf(t, k) \in Seq(Char)
  BY Zenon, <1>2 DEF StreamOf, Pieces
<1>4. QED
  BY <1>3 DEF Text

LEMMA StreamEmpty ==
  ASSUME NEW t \in Seq(Text)
  PROVE  StreamOf(t, 0) = <<>>
<1>1. Pieces(t, 0) \in Seq(Text) /\ Len(Pieces(t, 0)) = 0
  BY PiecesType
<1>2. Pieces(t, 0) = <<>>
  BY <1>1
<1>3. QED
  BY Zenon, <1>2, FlattenEmpty DEF StreamOf, Pieces

LEMMA StreamNext ==
  ASSUME NEW t \in Seq(Text), NEW k \in Nat, k < Len(t)
  PROVE  StreamOf(t, k + 1) = StreamOf(t, k) \o (<<NULL_CHAR>> \o Reverse(t[k + 1]))
<1> DEFINE p == Pieces(t, k)
           q == Pieces(t, k + 1)
           x == <<NULL_CHAR>> \o Reverse(t[k + 1])
<1>1. k \in 0 .. Len(t) /\ k + 1 \in 0 .. Len(t) /\ k + 1 \in 1 .. k + 1
  OBVIOUS
<1>2. /\ p \in Seq(Text) /\ Len(p) = k
      /\ \A i \in 1 .. k : p[i] = <<NULL_CHAR>> \o Reverse(t[i])
  BY Zenon, <1>1, PiecesType
<1>3. /\ q \in Seq(Text) /\ Len(q) = k + 1
      /\ \A i \in 1 .. k + 1 : q[i] = <<NULL_CHAR>> \o Reverse(t[i])
  BY Zenon, <1>1, PiecesType
<1>4. q[k + 1] = x
  BY Zenon, <1>1, <1>3
<1>5. \A i \in 1 .. k : q[i] = p[i]
  <2>1. \A i \in 1 .. k : i \in 1 .. k + 1
    OBVIOUS
  <2>2. QED
    BY Zenon, <2>1, <1>2, <1>3
<1>6. x \in Text
  <2>1. t[k + 1] \in Text
    OBVIOUS
  <2>2. QED
    BY Zenon, <2>1, PieceFacts
<1> HIDE DEF p, q, x
<1>7. q = Append(p, x)
  BY <1>2, <1>3, <1>4, <1>5, <1>6
<1>8. p \in Seq(Seq(Char)) /\ x \in Seq(Char)
  BY Zenon, <1>2, <1>6 DEF Text
<1>9. FlattenSeq(Append(p, x)) = FlattenSeq(p) \o x
  BY Zenon, <1>8, FlattenAppend
<1>10. QED
  BY Zenon, <1>7, <1>9 DEF StreamOf, Pieces, p, q, x

\* A further text leaves what was there before.
LEMMA StreamKept ==
  ASSUME NEW t \in Seq(Text), NEW x \in Text, NEW k \in 0 .. Len(t)
  PROVE  StreamOf(Append(t, x), k) = StreamOf(t, k)
<1> DEFINE p == Pieces(t, k)
           q == Pieces(Append(t, x), k)
<1>1. Append(t, x) \in Seq(Text) /\ k \in 0 .. Len(Append(t, x))
  OBVIOUS
<1>2. /\ p \in Seq(Text) /\ Len(p) = k
      /\ \A i \in 1 .. k : p[i] = <<NULL_CHAR>> \o Reverse(t[i])
  BY Zenon, PiecesType
<1>3. /\ q \in Seq(Text) /\ Len(q) = k
      /\ \A i \in 1 .. k : q[i] = <<NULL_CHAR>> \o Reverse(Append(t, x)[i])
  BY Zenon, <1>1, PiecesType
<1>4. \A i \in 1 .. k : Append(t, x)[i] = t[i]
  OBVIOUS
<1>5. \A i \in 1 .. k : q[i] = p[i]
  BY Zenon, <1>2, <1>3, <1>4
<1> HIDE DEF p, q
<1>6. q = p
  BY <1>2, <1>3, <1>5
<1>7. QED
  BY Zenon, <1>6 DEF StreamOf, Pieces, p, q

\* The text of plate k, of n characters.
PlateText(k, n) == [i \in 1 .. n |-> <<k, i>>]

LEMMA PlateTextFacts ==
  ASSUME NEW k \in 1 .. MaxPlates, NEW n \in 1 .. MAX_OUT_L
  PROVE  /\ PlateText(k, n) \in Text /\ Len(PlateText(k, n)) = n
         /\ \A i \in 1 .. n : PlateText(k, n)[i] = <<k, i>> /\ <<k, i>> # NULL_CHAR
<1>1. n \in Nat /\ n > 0 /\ k \in Nat /\ k > 0
  BY WidthsAssumption
<1>2. \A i \in 1 .. n : <<k, i>> \in Char
  BY <1>1, WidthsAssumption DEF Char
<1>3. PlateText(k, n) \in [1 .. n -> Char]
  BY Zenon, <1>2 DEF PlateText
<1>4. PlateText(k, n) \in Seq(Char)
  BY <1>1, <1>3, SeqDef
<1>5. Len(PlateText(k, n)) \in Nat /\ DOMAIN PlateText(k, n) = 1 .. Len(PlateText(k, n))
  BY <1>4, LenProperties
<1>6. Len(PlateText(k, n)) = n
  BY <1>1, <1>3, <1>5
<1>7. \A i \in 1 .. n : PlateText(k, n)[i] = <<k, i>>
  BY Zenon DEF PlateText
<1>8. \A i : <<k, i>> # NULL_CHAR
  BY <1>1 DEF NULL_CHAR
<1>9. QED
  BY Zenon, <1>4, <1>6, <1>7, <1>8 DEF Text

\* The last of k + 1 texts ends the strip: a null, then its n characters.
LEMMA StreamEnd ==
  ASSUME NEW t \in Seq(Text), NEW k \in Nat, k < Len(t), NEW n \in Nat,
         Len(t[k + 1]) = n, \A i \in 1 .. n : t[k + 1][i] # NULL_CHAR
  PROVE  /\ Len(StreamOf(t, k + 1)) = Len(StreamOf(t, k)) + 1 + n
         /\ Len(StreamOf(t, k)) \in Nat
         /\ \A i \in 1 .. Len(StreamOf(t, k)) : StreamOf(t, k + 1)[i] = StreamOf(t, k)[i]
         /\ StreamOf(t, k + 1)[Len(StreamOf(t, k)) + 1] = NULL_CHAR
         /\ \A i \in 1 .. n :
              /\ StreamOf(t, k + 1)[Len(StreamOf(t, k)) + 1 + i] = t[k + 1][(n - i) + 1]
              /\ StreamOf(t, k + 1)[Len(StreamOf(t, k)) + 1 + i] # NULL_CHAR
<1> DEFINE S == StreamOf(t, k + 1)
           P == StreamOf(t, k)
           x == <<NULL_CHAR>> \o Reverse(t[k + 1])
<1>1. P \in Seq(Char)
  <2>1. k \in 0 .. Len(t)
    OBVIOUS
  <2>2. QED
    BY Zenon, <2>1, StreamType DEF Text
<1>2. /\ x \in Seq(Char) /\ Len(x) = 1 + n /\ x[1] = NULL_CHAR
      /\ \A i \in 1 .. n : x[1 + i] = t[k + 1][(n - i) + 1]
  <2>1. t[k + 1] \in Text
    OBVIOUS
  <2>2. QED
    BY Zenon, <2>1, PieceFacts DEF Text
<1>3. S = P \o x
  BY Zenon, StreamNext
<1> HIDE DEF S, P, x
<1>4. /\ Len(S) = Len(P) + 1 + n /\ Len(P) \in Nat
      /\ \A i \in 1 .. Len(P) : S[i] = P[i]
      /\ S[Len(P) + 1] = x[1]
      /\ \A i \in 1 .. n : S[Len(P) + 1 + i] = x[1 + i]
  <2>1. /\ Len(P \o x) = Len(P) + Len(x) /\ Len(P) \in Nat /\ Len(x) \in Nat
        /\ \A i \in 1 .. Len(P) + Len(x) :
             (P \o x)[i] = IF i <= Len(P) THEN P[i] ELSE x[i - Len(P)]
    <3>0. P \in Seq(Char) /\ x \in Seq(Char)
      BY Zenon, <1>1, <1>2
    <3>1. Len(P) \in Nat /\ Len(x) \in Nat
      BY <3>0
    <3>2. Len(P \o x) = Len(P) + Len(x)
      BY Zenon, <3>0, ConcatProperties
    <3>3. \A i \in 1 .. Len(P) + Len(x) :
            (P \o x)[i] = IF i <= Len(P) THEN P[i] ELSE x[i - Len(P)]
      BY Zenon, <3>0, ConcatProperties
    <3>4. QED
      BY <3>1, <3>2, <3>3
  <2>2. \A i \in 1 .. Len(P) : (P \o x)[i] = P[i]
    BY <2>1
  <2>3. ASSUME NEW j \in 1 .. Len(x)
        PROVE  (P \o x)[Len(P) + j] = x[j]
    <3>1. Len(P) + j \in 1 .. Len(P) + Len(x) /\ ~(Len(P) + j <= Len(P)) /\ (Len(P) + j) - Len(P) = j
      BY <2>1
    <3>2. QED
      BY <2>1, <3>1
  <2>4. \A i \in 1 .. n : 1 + i \in 1 .. Len(x) /\ Len(P) + (1 + i) = Len(P) + 1 + i
    BY <1>2, <2>1
  <2>5. 1 \in 1 .. Len(x)
    BY <1>2
  <2>6. Len(P) + Len(x) = Len(P) + 1 + n
    BY <1>2, <2>1
  <2>7. QED
    BY Zenon, <1>3, <2>1, <2>2, <2>3, <2>4, <2>5, <2>6
<1>5. \A i \in 1 .. n : (n - i) + 1 \in 1 .. n
  OBVIOUS
<1>6. /\ Len(S) = Len(P) + 1 + n /\ Len(P) \in Nat
      /\ \A i \in 1 .. Len(P) : S[i] = P[i]
      /\ S[Len(P) + 1] = NULL_CHAR
      /\ \A i \in 1 .. n :
           /\ S[Len(P) + 1 + i] = t[k + 1][(n - i) + 1]
           /\ S[Len(P) + 1 + i] # NULL_CHAR
  <2>1. ASSUME NEW i \in 1 .. n
        PROVE  /\ S[Len(P) + 1 + i] = t[k + 1][(n - i) + 1]
               /\ S[Len(P) + 1 + i] # NULL_CHAR
    <3>1. S[Len(P) + 1 + i] = t[k + 1][(n - i) + 1]
      BY Zenon, <1>2, <1>4
    <3>2. (n - i) + 1 \in 1 .. n
      BY <1>5
    <3>3. QED
      BY Zenon, <3>1, <3>2
  <2>2. QED
    BY Zenon, <1>2, <1>4, <2>1
<1>7. QED
  BY Zenon, <1>6 DEF S, P

LEMMA StripFacts ==
  ASSUME TypeOK, TextsGiven
  PROVE  /\ Strip \in Text /\ Len(Strip) \in Nat /\ LastText \in 0 .. MAX_OUT_L
         /\ texts = <<>> => Len(Strip) = 0 /\ LastText = 0
         /\ texts # <<>> =>
              /\ LastText > 0 /\ Len(Strip) >= LastText + 1
              /\ Strip[Len(Strip) - LastText] = NULL_CHAR
              /\ \A i \in 1 .. LastText : Strip[(Len(Strip) - LastText) + i] # NULL_CHAR
<1>1. texts \in Seq(Text) /\ Len(texts) \in Nat
  BY DEF TypeOK
<1>2. Strip = StreamOf(texts, Len(texts))
  BY Zenon, StreamIs DEF Strip
<1>3. Strip \in Text /\ Len(Strip) \in Nat
  <2>1. Len(texts) \in 0 .. Len(texts)
    BY <1>1
  <2>2. QED
    BY Zenon, <1>1, <1>2, <2>1, StreamType
<1>4. CASE texts = <<>>
  <2>1. Len(texts) = 0
    BY <1>4
  <2>2. Strip = <<>>
    BY Zenon, <1>1, <1>2, <2>1, StreamEmpty
  <2>3. Len(Strip) = 0
    BY <2>2
  <2>4. LastText = 0
    BY Zenon, <1>4 DEF LastText
  <2>5. QED
    BY <1>3, <1>4, <2>3, <2>4, WidthsAssumption
<1>5. CASE texts # <<>>
  <2> DEFINE k == Len(texts) - 1
  <2>1. k \in Nat /\ k < Len(texts) /\ k + 1 = Len(texts) /\ Len(texts) \in 1 .. Len(texts)
    BY <1>1, <1>5
  <2>2. PICK n \in 1 .. MAX_OUT_L : texts[Len(texts)] = [i \in 1 .. n |-> <<Len(texts), i>>]
    BY Zenon, <2>1 DEF TextsGiven, All
  <2>3. n \in Nat /\ n > 0
    BY <2>2, WidthsAssumption
  <2>4. Len(texts[Len(texts)]) = n
    <3>1. texts[Len(texts)] \in Seq(Char)
      BY <1>1, <2>1 DEF Text
    <3>2. DOMAIN texts[Len(texts)] = 1 .. n
      BY Zenon, <2>2
    <3>3. QED
      BY <2>3, <3>1, <3>2, LenProperties
  <2>5. \A i \in 1 .. n : texts[Len(texts)][i] # NULL_CHAR
    <3>1. \A i : <<Len(texts), i>> # NULL_CHAR
      BY <2>1 DEF NULL_CHAR
    <3>2. QED
      BY Zenon, <2>2, <3>1
  <2>6. LastText = n
    BY Zenon, <1>5, <2>4 DEF LastText, All
  <2> DEFINE P == StreamOf(texts, k)
  <2> HIDE DEF k, P
  <2>7. /\ Len(Strip) = Len(P) + 1 + n /\ Len(P) \in Nat
        /\ Strip[Len(P) + 1] = NULL_CHAR
        /\ \A i \in 1 .. n : Strip[Len(P) + 1 + i] # NULL_CHAR
    <3>1. Len(texts[k + 1]) = n /\ \A i \in 1 .. n : texts[k + 1][i] # NULL_CHAR
      BY <2>1, <2>4, <2>5
    <3>2. /\ Len(StreamOf(texts, k + 1)) = Len(P) + 1 + n /\ Len(P) \in Nat
          /\ StreamOf(texts, k + 1)[Len(P) + 1] = NULL_CHAR
          /\ \A i \in 1 .. n : StreamOf(texts, k + 1)[Len(P) + 1 + i] # NULL_CHAR
      <4>1. k \in Nat /\ k < Len(texts) /\ n \in Nat /\ texts \in Seq(Text)
        BY <1>1, <2>1, <2>3
      <4>2. /\ Len(StreamOf(texts, k + 1)) = Len(StreamOf(texts, k)) + 1 + n
            /\ Len(StreamOf(texts, k)) \in Nat
            /\ \A i \in 1 .. Len(StreamOf(texts, k)) :
                 StreamOf(texts, k + 1)[i] = StreamOf(texts, k)[i]
            /\ StreamOf(texts, k + 1)[Len(StreamOf(texts, k)) + 1] = NULL_CHAR
            /\ \A i \in 1 .. n :
                 /\ StreamOf(texts, k + 1)[Len(StreamOf(texts, k)) + 1 + i] = texts[k + 1][(n - i) + 1]
                 /\ StreamOf(texts, k + 1)[Len(StreamOf(texts, k)) + 1 + i] # NULL_CHAR
        <5> HIDE DEF k
        <5>1. QED
          BY Zenon, <4>1, <3>1, StreamEnd
      <4>3. QED
        BY Zenon, <4>2 DEF P
    <3>3. StreamOf(texts, k + 1) = Strip
      BY Zenon, <1>2, <2>1
    <3>4. QED
      BY Zenon, <3>2, <3>3
  <2>8. /\ Len(Strip) - n = Len(P) + 1 /\ Len(Strip) >= n + 1 /\ n \in 0 .. MAX_OUT_L
    BY <2>2, <2>3, <2>7
  <2>9. QED
    BY Zenon, <1>3, <1>5, <2>3, <2>6, <2>7, <2>8
<1>6. QED
  BY <1>4, <1>5

LEMMA GivenType ==
  ASSUME NEW S \in Text, NEW i \in Int
  PROVE  Given(S, i) \in Char /\ (i > Len(S) => Given(S, i) = NULL_CHAR)
BY CharFacts DEF Given, Text

-----------------------------------------------------------------------------
(* What is left to shift, seen at the front of Output_reg. *)

LEMMA Ahead ==
  ASSUME TypeOK, TextsGiven, NEW c \in 0 .. W, Pushed \in Nat, LastInOutput(c),
         Holds(Output_reg, 0, Strip, Pushed + c, MAX_OUT_L + 1)
  PROVE  /\ Len(Strip) > Pushed + c => ~comper_last_2
         /\ Len(Strip) > Pushed + c /\ Len(Strip) <= Pushed + c + LastText => ~comper_last_1
         /\ Len(Strip) = Pushed + c + LastText + 1 /\ texts # <<>> => comper_last_1
         /\ Len(Strip) <= Pushed + c =>
              comper_last_2 /\ \A i \in 1 .. MAX_OUT_L + 1 : Output_reg[i] = NULL_CHAR
<1> DEFINE N == Len(Strip)
           p == Pushed + c
           M == MAX_OUT_L
<1>1. /\ N \in Nat /\ LastText \in 0 .. M /\ p \in Nat /\ M \in Nat /\ M > 0
      /\ Strip \in Text
  BY StripFacts, WidthsAssumption
<1>2. N <= p + LastText + 1
  BY DEF LastInOutput
<1>3. \A i \in 1 .. M + 1 : Output_reg[i] = Given(Strip, p + i)
  <2>1. \A i \in 1 .. M + 1 : Output_reg[0 + i] = Given(Strip, p + i)
    BY Zenon DEF Holds
  <2>2. QED
    BY <1>1, <2>1
<1>4. Output_reg[1] = Given(Strip, p + 1) /\ Output_reg[2] = Given(Strip, p + 2)
  BY <1>1, <1>3
<1>5. texts = <<>> => N = 0
  BY Zenon, StripFacts
<1>6. texts # <<>> =>
        /\ LastText > 0 /\ N >= LastText + 1
        /\ Strip[N - LastText] = NULL_CHAR
        /\ \A i \in 1 .. LastText : Strip[(N - LastText) + i] # NULL_CHAR
  BY Zenon, StripFacts
<1> HIDE DEF N, p, M
<1>7. ASSUME N > p, N <= p + LastText
      PROVE  Output_reg[1] # NULL_CHAR
  <2>1. texts # <<>>
    BY <1>1, <1>5, <1>7
  <2>2. (p + 1) - (N - LastText) \in 1 .. LastText /\ p + 1 \in 1 .. N
    BY <1>1, <1>6, <1>7, <2>1
  <2>3. (N - LastText) + ((p + 1) - (N - LastText)) = p + 1
    BY <1>1
  <2>4. Strip[p + 1] # NULL_CHAR
    BY <1>6, <2>1, <2>2, <2>3
  <2>5. Given(Strip, p + 1) = Strip[p + 1]
    BY Zenon, <2>2 DEF Given, N
  <2>6. QED
    BY Zenon, <1>4, <2>4, <2>5
<1>8. ASSUME N = p + LastText + 1, texts # <<>>
      PROVE  Output_reg[1] = NULL_CHAR /\ Output_reg[2] # NULL_CHAR
  <2>1. /\ N - LastText = p + 1 /\ (N - LastText) + 1 = p + 2 /\ 1 \in 1 .. LastText
        /\ p + 1 \in 1 .. N /\ p + 2 \in 1 .. N
    BY <1>1, <1>6, <1>8
  <2>2. Strip[p + 1] = NULL_CHAR /\ Strip[p + 2] # NULL_CHAR
    BY <1>6, <1>8, <2>1
  <2>3. Given(Strip, p + 1) = Strip[p + 1] /\ Given(Strip, p + 2) = Strip[p + 2]
    BY Zenon, <2>1 DEF Given, N
  <2>4. QED
    BY Zenon, <1>4, <2>2, <2>3
<1>9. ASSUME N <= p
      PROVE  \A i \in 1 .. M + 1 : Output_reg[i] = NULL_CHAR
  <2>1. ASSUME NEW i \in 1 .. M + 1
        PROVE  Output_reg[i] = NULL_CHAR
    <3>1. p + i \in Int /\ p + i > N
      BY <1>1, <1>9
    <3>2. Given(Strip, p + i) = NULL_CHAR
      BY <1>1, <3>1, GivenType DEF N
    <3>3. QED
      BY <1>3, <3>2
  <2>2. QED
    BY <2>1
<1>10. N > p => (N <= p + LastText \/ (N = p + LastText + 1 /\ texts # <<>>))
  BY <1>1, <1>2, <1>5
<1>11. 1 \in 1 .. M + 1 /\ 2 \in 1 .. M + 1
  BY <1>1
<1>12. QED
  BY Zenon, <1>7, <1>8, <1>9, <1>10, <1>11 DEF comper_last_1, comper_last_2, N, p, M
LEMMA Times ==
  ASSUME NEW n \in Nat
  PROVE  W * n \in Nat /\ W * (n + 1) = W * n + W
BY WidthsAssumption
LEMMA TimesMore ==
  ASSUME NEW n \in Nat, NEW m \in Nat, n < m
  PROVE  W * n + W <= W * m
<1>1. (m - n) - 1 \in Nat /\ W \in Nat
  BY WidthsAssumption
<1>2. W * ((m - n) - 1) \in Nat
  BY <1>1
<1>3. W * m = W * n + W + W * ((m - n) - 1)
  BY <1>1
<1>4. W * n \in Nat /\ W * m \in Nat
  BY <1>1
<1>5. QED
  BY <1>1, <1>2, <1>3, <1>4

LEMMA InWord ==
  ASSUME NEW q \in Nat, NEW r \in 0 .. W - 1
  PROVE  (W * q + r) \div W = q /\ (W * q + r) % W = r
<1> DEFINE N == W * q + r
           d == N \div W
<1>1. W \in Nat /\ W > 0 /\ N \in Nat /\ W * q \in Nat
  BY Times, WidthsAssumption
<1>2. N = W * d + (N % W) /\ d \in Int /\ N % W \in 0 .. W - 1
  BY <1>1
<1>3. N = W * q + r /\ r \in 0 .. W - 1
  OBVIOUS
<1> DEFINE m == N % W
<1> HIDE DEF d, N, m
<1>8. d \in Nat
  <2>1. SUFFICES ASSUME d < 0 PROVE FALSE
    BY <1>2
  <2>2. (0 - d) - 1 \in Nat /\ d \in Int
    BY <1>2, <2>1
  <2>3. W * ((0 - d) - 1) \in Nat
    BY <1>1, <2>2
  <2>4. W * d = (0 - W) - W * ((0 - d) - 1)
    BY <1>1, <2>2
  <2>5. N = W * d + m /\ m \in 0 .. W - 1
    BY Zenon, <1>2 DEF m
  <2>6. QED
    BY <1>1, <2>3, <2>4, <2>5
<1>9. N = W * d + m /\ m \in 0 .. W - 1
  BY Zenon, <1>2 DEF m
<1>4. ~(d < q)
  <2>1. SUFFICES ASSUME d < q PROVE FALSE
    OBVIOUS
  <2>2. W * d + W <= W * q
    BY <1>8, <2>1, TimesMore
  <2>3. W * d \in Nat
    BY <1>8, Times
  <2>4. QED
    BY <1>1, <1>3, <1>9, <2>2, <2>3
<1>5. ~(q < d)
  <2>1. SUFFICES ASSUME q < d PROVE FALSE
    OBVIOUS
  <2>2. W * q + W <= W * d
    BY <1>8, <2>1, TimesMore
  <2>3. W * d \in Nat
    BY <1>8, Times
  <2>4. QED
    BY <1>1, <1>3, <1>9, <2>2, <2>3
<1>6. d = q
  BY <1>8, <1>4, <1>5
<1>7. QED
  BY <1>1, <1>3, <1>6, <1>9 DEF d, m, N
LEMMA Words ==
  ASSUME NEW n \in Nat, NEW N \in Nat, W * n < N, N <= W * n + W
  PROVE  (N + W - 1) \div W = n + 1
<1>1. (N - W * n) - 1 \in 0 .. W - 1 /\ W * (n + 1) = W * n + W /\ W * n \in Nat
  BY Times, WidthsAssumption
<1>2. N + W - 1 = W * (n + 1) + ((N - W * n) - 1)
  BY <1>1, WidthsAssumption
<1>3. QED
  BY <1>1, <1>2, InWord
LEMMA Fewer ==
  ASSUME NEW n \in Nat, NEW m \in Nat, W * n < W * m
  PROVE  n < m
<1>1. SUFFICES ASSUME ~(n < m) PROVE FALSE
  OBVIOUS
<1>2. n = m \/ m < n
  BY <1>1
<1>3. CASE m < n
  <2>1. W * m + W <= W * n /\ W * m \in Nat /\ W * n \in Nat
    BY <1>3, TimesMore, Times
  <2>2. QED
    BY <2>1, WidthsAssumption
<1>4. CASE n = m
  <2>1. W * n \in Nat
    BY Times
  <2>2. QED
    BY <1>4, <2>1
<1>5. QED
  BY <1>2, <1>3, <1>4

-----------------------------------------------------------------------------
(* The two shift registers, and the word pushed. *)

LEMMA ShiftOut ==
  ASSUME NEW o \in Text, Len(o) = MAX_OUT_L + 1, NEW S \in Text, NEW b \in Nat,
         Holds(o, 0, S, b, MAX_OUT_L + 1), Len(S) <= b + MAX_OUT_L + 1
  PROVE  Holds(Append(Tail(o), NULL_CHAR), 0, S, b + 1, MAX_OUT_L + 1)
<1> DEFINE s == Append(Tail(o), NULL_CHAR)
           M == MAX_OUT_L
<1>1. M \in Nat /\ M > 0 /\ Len(S) \in Nat
  BY WidthsAssumption DEF Text
<1>2. \A i \in 1 .. M + 1 : o[0 + i] = Given(S, b + i)
  BY Zenon DEF Holds
<1>3. \A i \in 1 .. M : s[i] = o[i + 1]
  BY <1>1 DEF Text
<1>4. s[M + 1] = NULL_CHAR
  BY <1>1 DEF Text
<1> HIDE DEF s
<1>5. ASSUME NEW i \in 1 .. M + 1
      PROVE  s[0 + i] = Given(S, (b + 1) + i)
  <2>1. CASE i <= M
    <3>1. i + 1 \in 1 .. M + 1 /\ 0 + (i + 1) = i + 1 /\ b + (i + 1) = (b + 1) + i /\ 0 + i = i
      BY <1>1, <2>1
    <3>2. i \in 1 .. M
      BY <1>1, <2>1
    <3>3. QED
      BY <1>2, <1>3, <3>1, <3>2
  <2>2. CASE i = M + 1
    <3>1. (b + 1) + i \in Int /\ (b + 1) + i > Len(S) /\ 0 + i = M + 1
      BY <1>1, <2>2
    <3>2. Given(S, (b + 1) + i) = NULL_CHAR
      BY <3>1, GivenType
    <3>3. QED
      BY <1>4, <3>1, <3>2
  <2>3. QED
    BY <1>1, <2>1, <2>2
<1>6. QED
  BY Zenon, <1>5 DEF Holds, s, M

LEMMA ShiftIn ==
  ASSUME NEW s \in Text, Len(s) = W, NEW S, NEW b \in Nat, NEW d \in 0 .. W - 1,
         Holds(s, W - d, S, b, d), NEW x \in Char, x = Given(S, b + d + 1)
  PROVE  Holds(Append(Tail(s), x), W - (d + 1), S, b, d + 1)
<1> DEFINE t == Append(Tail(s), x)
<1>1. W \in Nat /\ W > 1
  BY WidthsAssumption
<1>2. \A i \in 1 .. W - 1 : t[i] = s[i + 1]
  BY <1>1 DEF Text
<1>3. t[W] = x
  BY <1>1 DEF Text
<1>4. \A i \in 1 .. d : s[(W - d) + i] = Given(S, b + i)
  BY Zenon DEF Holds
<1> HIDE DEF t
<1>5. ASSUME NEW i \in 1 .. d + 1
      PROVE  t[(W - (d + 1)) + i] = Given(S, b + i)
  <2>1. CASE i <= d
    <3>1. /\ (W - (d + 1)) + i \in 1 .. W - 1 /\ i \in 1 .. d
          /\ ((W - (d + 1)) + i) + 1 = (W - d) + i
      BY <1>1, <2>1
    <3>2. QED
      BY <1>2, <1>4, <3>1
  <2>2. CASE i = d + 1
    <3>1. (W - (d + 1)) + i = W /\ b + i = b + d + 1
      BY <1>1, <2>2
    <3>2. QED
      BY <1>3, <3>1
  <2>3. QED
    BY <2>1, <2>2
<1>6. QED
  BY Zenon, <1>5 DEF Holds, t

LEMMA InByte ==
  ASSUME NEW k \in 0 .. 255
  PROVE  k % 256 = k
OBVIOUS

LEMMA RoomInByte ==
  ASSUME NEW n \in Nat, n < RESULT_RAM_DEPTH - 1
  PROVE  n + 1 \in 0 .. 255
BY WidthsAssumption

\* A word is pushed where a full one of the strip is: Result_FILO has room for it.
LEMMA WordPushed ==
  ASSUME TypeOK, TextsGiven, Fits, InRegisters(W), comper_SIPO, Pushed < Len(Strip),
         Push, LC_reg' = ((LC_reg + 1) % 256)
  PROVE  /\ Len(stored') = Len(stored) + 1 /\ LC_reg' = Len(stored')
         /\ Pushed \in Nat /\ Pushed' = Pushed + W
         /\ Len(FlattenSeq(stored')) = Pushed'
         /\ Holds(FlattenSeq(stored'), 0, Strip, 0, Pushed')
<1> DEFINE n == Len(stored)
           f == FlattenSeq(stored)
           p == Pushed
<1>1. /\ stored \in Seq(Seq(Char)) /\ n \in Nat /\ n < RESULT_RAM_DEPTH
      /\ sipo_reg \in Seq(Char) /\ Len(sipo_reg) = W /\ LC_reg = n
      /\ W \in Nat /\ W > 1 /\ RESULT_RAM_DEPTH \in 2 .. 256
  BY WidthsAssumption DEF TypeOK, Text, InRegisters
<1>2. Strip \in Text /\ Len(Strip) \in Nat
  BY StripFacts
<1>3. n < RESULT_RAM_DEPTH - 1
  <2>1. RESULT_RAM_DEPTH - 1 \in Nat
    BY <1>1
  <2>2. Len(Strip) <= W * (RESULT_RAM_DEPTH - 1)
    BY Zenon DEF Fits, Length, Strip
  <2>3. W * n < W * (RESULT_RAM_DEPTH - 1)
    <3>1. W * n \in Nat /\ W * (RESULT_RAM_DEPTH - 1) \in Nat
      BY Zenon, <1>1, <2>1, Times
    <3>2. W * n < Len(Strip)
      BY Zenon DEF Pushed
    <3>3. QED
      BY <1>2, <2>2, <3>1, <3>2
  <2>4. QED
    BY Zenon, <1>1, <2>1, <2>3, Fewer
<1>4. stored' = Append(stored, sipo_reg)
  BY <1>3 DEF Push
<1>5. Len(stored') = n + 1
  BY <1>1, <1>4
<1>6. LC_reg' = Len(stored')
  <2>1. LC_reg' = (n + 1) % 256
    BY Zenon, <1>1
  <2>4. n + 1 \in 0 .. 255
    BY Zenon, <1>1, <1>3, RoomInByte
  <2>2. (n + 1) % 256 = n + 1
    BY Zenon, <2>4, InByte
  <2>3. QED
    BY <1>5, <2>1, <2>2
<1>7. Pushed' = p + W /\ p \in Nat
  BY <1>1, <1>5, Times DEF Pushed
<1>8. FlattenSeq(stored') = f \o sipo_reg
  BY Zenon, <1>1, <1>4, FlattenAppend
<1>9. f \in Seq(Char) /\ Len(f) = p
  <2>1. f \in Seq(Char)
    BY Zenon, <1>1, FlattenType
  <2>2. QED
    BY <2>1 DEF InRegisters
<1>10. \A i \in 1 .. p : f[0 + i] = Given(Strip, 0 + i)
  BY Zenon DEF InRegisters, Holds
<1>11. \A i \in 1 .. W : sipo_reg[(W - W) + i] = Given(Strip, p + i)
  BY Zenon DEF InRegisters, Holds
<1> HIDE DEF n, f, p
<1>12. Len(f \o sipo_reg) = Len(f) + Len(sipo_reg)
  BY Zenon, <1>1, <1>9, ConcatProperties
<1>13. \A i \in 1 .. Len(f) + Len(sipo_reg) :
         (f \o sipo_reg)[i] = IF i <= Len(f) THEN f[i] ELSE sipo_reg[i - Len(f)]
  BY Zenon, <1>1, <1>9, ConcatProperties
<1>14. ASSUME NEW i \in 1 .. p + W
       PROVE  (f \o sipo_reg)[0 + i] = Given(Strip, 0 + i)
  <2>1. 0 + i = i /\ i \in 1 .. Len(f) + Len(sipo_reg) /\ i \in Int
    BY <1>1, <1>7, <1>9
  <2>2. CASE i <= p
    <3>1. i \in 1 .. p
      BY <2>2
    <3>2. (f \o sipo_reg)[i] = f[i]
      BY <1>9, <1>13, <2>1, <2>2
    <3>3. QED
      BY <1>10, <2>1, <3>1, <3>2
  <2>3. CASE ~(i <= p)
    <3>1. i - p \in 1 .. W /\ (W - W) + (i - p) = i - p /\ p + (i - p) = i
      BY <1>1, <1>7, <2>3
    <3>2. (f \o sipo_reg)[i] = sipo_reg[i - p]
      BY <1>9, <1>13, <2>1, <2>3
    <3>3. sipo_reg[i - p] = Given(Strip, i)
      BY <1>11, <3>1
    <3>4. QED
      BY <2>1, <3>2, <3>3
  <2>4. QED
    BY <2>2, <2>3
<1>15. Len(f \o sipo_reg) = p + W
  BY <1>1, <1>9, <1>12
<1>16. Holds(f \o sipo_reg, 0, Strip, 0, p + W)
  BY Zenon, <1>14 DEF Holds
<1>17. QED
  BY Zenon, <1>5, <1>6, <1>7, <1>8, <1>15, <1>16 DEF n, f, p

-----------------------------------------------------------------------------
(* A clock edge in which no text comes. *)

\* The registers after the edge, the strip and the phase before it.
AlignedNext(d) ==
  /\ d = sipo_reg_count' + 1 \/ (d = 0 /\ sipo_reg_count' = 0)
  /\ Len(Strip) <= Pushed' + d + LastText + 1
  /\ d = 0 => Len(Strip) = Pushed' \/ (Len(Strip) = Pushed' + LastText + 1 /\ texts # <<>>)
  /\ d = 1 => Len(Strip) <= Pushed' + 1 + LastText
  /\ phase = "images" => Pushed' + d <= Len(Strip)
  /\ phase = "final" => Pushed' < Len(Strip) \/ (d = 0 /\ Pushed' = Len(Strip))
  /\ texts = <<>> => Pushed' + d = 0
  /\ LC_reg' = Len(stored') /\ Len(FlattenSeq(stored')) = Pushed'
  /\ Holds(FlattenSeq(stored'), 0, Strip, 0, Pushed')
  /\ Holds(sipo_reg', W - d, Strip, Pushed', d)
  /\ Holds(Output_reg', 0, Strip, Pushed' + d, MAX_OUT_L + 1)

LEMMA Numbers ==
  ASSUME TypeOK, TextsGiven
  PROVE  /\ W \in Nat /\ W > 1 /\ MAX_OUT_L \in Nat /\ MAX_OUT_L > 0
         /\ Len(Strip) \in Nat /\ Pushed \in Nat /\ LastText \in 0 .. MAX_OUT_L
         /\ sipo_reg_count \in 0 .. W - 1 /\ (texts = <<>> => Len(Strip) = 0)
<1>1. Len(stored) \in Nat
  BY DEF TypeOK
<1>2. Pushed \in Nat
  BY <1>1, Times DEF Pushed
<1>3. Len(Strip) \in Nat /\ LastText \in 0 .. MAX_OUT_L /\ (texts = <<>> => Len(Strip) = 0)
  BY Zenon, StripFacts
<1>4. QED
  BY <1>2, <1>3, WidthsAssumption DEF TypeOK

\* A register that shifts.
LEMMA Shifts ==
  ASSUME TypeOK, TextsGiven, NEW c \in 0 .. W, Aligned(c), sipo_en,
         Output_reg' = Shifted,
         sipo_reg' = IF sipo_en THEN Append(Tail(sipo_reg), Head(Output_reg)) ELSE sipo_reg
  PROVE  /\ Holds(Output_reg', 0, Strip, (Pushed + c) + 1, MAX_OUT_L + 1)
         /\ c < W => Holds(sipo_reg', W - (c + 1), Strip, Pushed, c + 1)
         /\ c = W => Holds(sipo_reg', W - 1, Strip, Pushed + W, 1)
<1>1. /\ Output_reg \in Text /\ Len(Output_reg) = MAX_OUT_L + 1
      /\ sipo_reg \in Text /\ Len(sipo_reg) = W
  BY DEF TypeOK
<1>2. /\ Holds(sipo_reg, W - c, Strip, Pushed, c)
      /\ Holds(Output_reg, 0, Strip, Pushed + c, MAX_OUT_L + 1)
      /\ Len(Strip) <= Pushed + c + LastText + 1
  BY Zenon DEF Aligned, InRegisters, LastInOutput
<1>3. /\ Output_reg' = Append(Tail(Output_reg), NULL_CHAR)
      /\ sipo_reg' = Append(Tail(sipo_reg), Output_reg[1])
  <2>1. Head(Output_reg) = Output_reg[1]
    OBVIOUS
  <2>2. QED
    BY Zenon, <2>1 DEF Shifted
<1>4. Strip \in Text /\ Pushed + c \in Nat /\ Len(Strip) <= (Pushed + c) + MAX_OUT_L + 1
  BY <1>2, Numbers, StripFacts
<1>5. Holds(Output_reg', 0, Strip, (Pushed + c) + 1, MAX_OUT_L + 1)
  BY Zenon, <1>1, <1>2, <1>3, <1>4, ShiftOut
<1>6. Output_reg[1] = Given(Strip, (Pushed + c) + 1) /\ Output_reg[1] \in Char
  <2>1. 1 \in 1 .. MAX_OUT_L + 1 /\ 0 + 1 = 1 /\ (Pushed + c) + 1 \in Int
    BY <1>4, Numbers
  <2>2. Output_reg[0 + 1] = Given(Strip, (Pushed + c) + 1)
    BY Zenon, <1>2, <2>1 DEF Holds
  <2>3. Given(Strip, (Pushed + c) + 1) \in Char
    BY Zenon, <1>4, <2>1, GivenType
  <2>4. QED
    BY <2>1, <2>2, <2>3
<1>7. ASSUME c < W
      PROVE  Holds(sipo_reg', W - (c + 1), Strip, Pushed, c + 1)
  <2>1. c \in 0 .. W - 1 /\ Pushed \in Nat /\ (Pushed + c) + 1 = Pushed + c + 1
    BY <1>7, Numbers
  <2>2. QED
    BY Zenon, <1>1, <1>2, <1>3, <1>6, <2>1, ShiftIn
<1>8. ASSUME c = W
      PROVE  Holds(sipo_reg', W - 1, Strip, Pushed + W, 1)
  <2>1. /\ 0 \in 0 .. W - 1 /\ Pushed + W \in Nat /\ (Pushed + c) + 1 = (Pushed + W) + 0 + 1
        /\ 0 + 1 = 1
    BY <1>8, Numbers
  <2>2. Holds(sipo_reg, W - 0, Strip, Pushed + W, 0)
    BY DEF Holds
  <2>3. Holds(Append(Tail(sipo_reg), Output_reg[1]), W - (0 + 1), Strip, Pushed + W, 0 + 1)
    BY Zenon, <1>1, <1>6, <2>1, <2>2, ShiftIn
  <2>4. QED
    BY Zenon, <1>3, <2>1, <2>3
<1>9. QED
  BY <1>5, <1>7, <1>8

\* No word pushed.
LEMMA WordsStay ==
  ASSUME NEW c, Aligned(c), ~comper_SIPO, Push,
         LC_reg' = IF comper_SIPO THEN (LC_reg + 1) % 256 ELSE LC_reg
  PROVE  /\ LC_reg' = Len(stored') /\ Len(FlattenSeq(stored')) = Pushed'
         /\ Holds(FlattenSeq(stored'), 0, Strip, 0, Pushed') /\ Pushed' = Pushed
<1>1. stored' = stored /\ LC_reg' = LC_reg
  BY Zenon DEF Push
<1>2. Pushed' = Pushed
  BY <1>1 DEF Pushed
<1>3. QED
  BY Zenon, <1>1, <1>2 DEF Aligned, InRegisters

LEMMA EdgeFacts ==
  ASSUME NEW STATE next, Edge(next)
  PROVE  /\ Output_reg' = next
         /\ sipo_reg' = IF sipo_en THEN Append(Tail(sipo_reg), Head(Output_reg)) ELSE sipo_reg
         /\ ~sipo_count_en => sipo_reg_count' = sipo_reg_count
         /\ sipo_count_en /\ comper_SIPO => sipo_reg_count' = 0
         /\ sipo_count_en /\ ~comper_SIPO /\ comper_last_1 /\ sipo_reg_count = 0 =>
              sipo_reg_count' = 0
         /\ sipo_count_en /\ ~comper_SIPO /\ ~(comper_last_1 /\ sipo_reg_count = 0) =>
              sipo_reg_count' = sipo_reg_count + 1
         /\ Push /\ LC_reg' = IF comper_SIPO THEN (LC_reg + 1) % 256 ELSE LC_reg
BY Zenon DEF Edge, sipo_reg_in

\* A text is shifted in: the strip goes on.
LEMMA ShiftsText ==
  ASSUME TypeOK, TextsGiven, Fits, NEW c \in 0 .. W, Aligned(c), Edge(Shifted),
         Len(Strip) > Pushed + c
  PROVE  \E d \in 0 .. W : AlignedNext(d)
<1>1. /\ W \in Nat /\ W > 1 /\ MAX_OUT_L \in Nat /\ MAX_OUT_L > 0
      /\ Len(Strip) \in Nat /\ Pushed \in Nat /\ LastText \in 0 .. MAX_OUT_L
      /\ sipo_reg_count \in 0 .. W - 1 /\ (texts = <<>> => Len(Strip) = 0)
  BY Zenon, Numbers
<1>2. /\ c = sipo_reg_count + 1 \/ (c = 0 /\ sipo_reg_count = 0)
      /\ Len(Strip) <= Pushed + c + LastText + 1
      /\ c = 0 => Len(Strip) = Pushed \/ (Len(Strip) = Pushed + LastText + 1 /\ texts # <<>>)
      /\ c = 1 => Len(Strip) <= Pushed + 1 + LastText
      /\ texts = <<>> => Pushed + c = 0
  BY Zenon DEF Aligned, Counted, LastInOutput, NotAhead
<1>3. ~comper_last_2 /\ sipo_en /\ sipo_count_en
  <2>1. LastInOutput(c) /\ Holds(Output_reg, 0, Strip, Pushed + c, MAX_OUT_L + 1)
    BY Zenon DEF Aligned, InRegisters
  <2>2. ~comper_last_2
    BY Zenon, <1>1, <2>1, Ahead
  <2>3. QED
    BY Zenon, <2>2 DEF sipo_en, sipo_count_en
<1>4. /\ Len(Strip) <= Pushed + c + LastText => ~comper_last_1
      /\ Len(Strip) = Pushed + c + LastText + 1 /\ texts # <<>> => comper_last_1
  <2>1. LastInOutput(c) /\ Holds(Output_reg, 0, Strip, Pushed + c, MAX_OUT_L + 1)
    BY Zenon DEF Aligned, InRegisters
  <2>2. QED
    BY Zenon, <1>1, <2>1, Ahead
<1>5. /\ Output_reg' = Shifted
      /\ sipo_reg' = IF sipo_en THEN Append(Tail(sipo_reg), Head(Output_reg)) ELSE sipo_reg
      /\ comper_SIPO => sipo_reg_count' = 0
      /\ ~comper_SIPO /\ comper_last_1 /\ sipo_reg_count = 0 => sipo_reg_count' = 0
      /\ ~comper_SIPO /\ ~(comper_last_1 /\ sipo_reg_count = 0) =>
           sipo_reg_count' = sipo_reg_count + 1
      /\ Push /\ LC_reg' = IF comper_SIPO THEN (LC_reg + 1) % 256 ELSE LC_reg
  BY Zenon, <1>3, EdgeFacts
<1>6. /\ Holds(Output_reg', 0, Strip, (Pushed + c) + 1, MAX_OUT_L + 1)
      /\ c < W => Holds(sipo_reg', W - (c + 1), Strip, Pushed, c + 1)
      /\ c = W => Holds(sipo_reg', W - 1, Strip, Pushed + W, 1)
  BY Zenon, <1>3, <1>5, Shifts
<1>7. CASE comper_SIPO
  <2>1. c = W /\ sipo_reg_count' = 0
    BY <1>1, <1>2, <1>5, <1>7 DEF comper_SIPO
  <2>2. InRegisters(W) /\ LC_reg' = (LC_reg + 1) % 256 /\ Pushed < Len(Strip)
    <3>1. InRegisters(W)
      BY Zenon, <2>1 DEF Aligned
    <3>2. LC_reg' = (LC_reg + 1) % 256
      BY Zenon, <1>5, <1>7
    <3>3. Pushed < Len(Strip)
      BY <1>1
    <3>4. QED
      BY Zenon, <3>1, <3>2, <3>3
  <2>3. /\ LC_reg' = Len(stored') /\ Len(FlattenSeq(stored')) = Pushed'
        /\ Holds(FlattenSeq(stored'), 0, Strip, 0, Pushed') /\ Pushed' = Pushed + W
    BY Zenon, <1>5, <1>7, <2>2, WordPushed
  <2>4. /\ 1 = sipo_reg_count' + 1 /\ 1 # 0
        /\ Len(Strip) <= Pushed' + 1 + LastText + 1
        /\ Len(Strip) <= Pushed' + 1 + LastText
        /\ Pushed' + 1 <= Len(Strip) /\ Pushed' < Len(Strip) /\ texts # <<>> /\ 1 \in 0 .. W
    BY <1>1, <1>2, <2>1, <2>3
  <2>5. Holds(sipo_reg', W - 1, Strip, Pushed', 1)
    BY Zenon, <1>6, <2>1, <2>3
  <2>6. (Pushed + c) + 1 = Pushed' + 1
    BY <1>1, <2>1, <2>3
  <2>7. Holds(Output_reg', 0, Strip, Pushed' + 1, MAX_OUT_L + 1)
    BY Zenon, <1>6, <2>6
  <2>8. AlignedNext(1)
    BY Zenon, <2>3, <2>4, <2>5, <2>7 DEF AlignedNext
  <2>9. QED
    BY Zenon, <2>4, <2>8
<1>8. CASE ~comper_SIPO
  <2>1. c < W /\ c + 1 \in 0 .. W
    BY <1>1, <1>2, <1>8 DEF comper_SIPO
  <2>2. /\ LC_reg' = Len(stored') /\ Len(FlattenSeq(stored')) = Pushed'
        /\ Holds(FlattenSeq(stored'), 0, Strip, 0, Pushed') /\ Pushed' = Pushed
    BY Zenon, <1>5, <1>8, WordsStay
  <2>3. (c + 1) = sipo_reg_count' + 1
    <3>1. CASE c = 0
      <4>1. Len(Strip) = Pushed + c + LastText + 1 /\ texts # <<>> /\ sipo_reg_count = 0
        BY <1>1, <1>2, <3>1
      <4>2. sipo_reg_count' = 0
        BY Zenon, <1>4, <1>5, <1>8, <4>1
      <4>3. QED
        BY <3>1, <4>2
    <3>2. CASE c # 0
      <4>1. c = sipo_reg_count + 1
        BY Zenon, <1>2, <3>2
      <4>2. ~(comper_last_1 /\ sipo_reg_count = 0)
        <5>1. sipo_reg_count = 0 => Len(Strip) <= Pushed + c + LastText
          BY <1>1, <1>2, <4>1
        <5>2. QED
          BY Zenon, <1>4, <5>1
      <4>3. sipo_reg_count' = sipo_reg_count + 1
        BY Zenon, <1>5, <1>8, <4>2
      <4>4. QED
        BY Zenon, <4>1, <4>3
    <3>3. QED
      BY <3>1, <3>2
  <2>4. /\ c + 1 # 0
        /\ Len(Strip) <= Pushed' + (c + 1) + LastText + 1
        /\ c + 1 = 1 => Len(Strip) <= Pushed' + 1 + LastText
        /\ Pushed' + (c + 1) <= Len(Strip) /\ Pushed' < Len(Strip) /\ texts # <<>>
    BY <1>1, <1>2, <2>1, <2>2
  <2>5. Holds(sipo_reg', W - (c + 1), Strip, Pushed', c + 1)
    BY Zenon, <1>6, <2>1, <2>2
  <2>6. (Pushed + c) + 1 = Pushed' + (c + 1)
    BY <1>1, <2>2
  <2>7. Holds(Output_reg', 0, Strip, Pushed' + (c + 1), MAX_OUT_L + 1)
    BY Zenon, <1>6, <2>6
  <2>8. AlignedNext(c + 1)
    BY Zenon, <2>2, <2>3, <2>4, <2>5, <2>7 DEF AlignedNext
  <2>9. QED
    BY Zenon, <2>1, <2>8
<1>9. QED
  BY Zenon, <1>7, <1>8

\* All of the strip is shifted, and more plates may come: a full word is pushed,
\* and nothing else happens.
LEMMA Waits ==
  ASSUME TypeOK, TextsGiven, Fits, NEW c \in 0 .. W, Aligned(c), phase = "images",
         Len(Strip) <= Pushed + c, NEW STATE next, Edge(next)
  PROVE  /\ comper_last_2 /\ ~sipo_en /\ Len(Strip) = Pushed + c
         /\ \E d \in 0 .. W :
              /\ d = sipo_reg_count' + 1 \/ (d = 0 /\ sipo_reg_count' = 0)
              /\ Pushed' + d = Len(Strip) /\ Pushed' \in Nat /\ (d = 1 => c = 1)
              /\ LC_reg' = Len(stored') /\ Len(FlattenSeq(stored')) = Pushed'
              /\ Holds(FlattenSeq(stored'), 0, Strip, 0, Pushed')
              /\ Holds(sipo_reg', W - d, Strip, Pushed', d)
<1>1. /\ W \in Nat /\ W > 1 /\ Len(Strip) \in Nat /\ Pushed \in Nat
      /\ sipo_reg_count \in 0 .. W - 1
  BY Zenon, Numbers
<1>2. /\ c = sipo_reg_count + 1 \/ (c = 0 /\ sipo_reg_count = 0)
      /\ Pushed + c <= Len(Strip)
      /\ LastInOutput(c) /\ Holds(Output_reg, 0, Strip, Pushed + c, MAX_OUT_L + 1)
      /\ Holds(sipo_reg, W - c, Strip, Pushed, c)
  BY Zenon DEF Aligned, Counted, NotAhead, InRegisters
<1>3. comper_last_2
  BY Zenon, <1>1, <1>2, Ahead
<1>4. ~sipo_en /\ (sipo_count_en <=> comper_SIPO)
  <2>1. phase # "final"
    OBVIOUS
  <2>2. QED
    BY Zenon, <1>3, <2>1 DEF sipo_en, sipo_count_en, final_im
<1>5. /\ sipo_reg' = sipo_reg
      /\ comper_SIPO => sipo_reg_count' = 0
      /\ ~comper_SIPO => sipo_reg_count' = sipo_reg_count
      /\ Push /\ LC_reg' = IF comper_SIPO THEN (LC_reg + 1) % 256 ELSE LC_reg
  BY Zenon, <1>4, EdgeFacts
<1>6. Len(Strip) = Pushed + c
  BY <1>1, <1>2
<1>7. CASE comper_SIPO
  <2>1. c = W /\ sipo_reg_count' = 0
    BY <1>1, <1>2, <1>5, <1>7 DEF comper_SIPO
  <2>2. InRegisters(W) /\ LC_reg' = (LC_reg + 1) % 256 /\ Pushed < Len(Strip)
    <3>1. InRegisters(W)
      BY Zenon, <2>1 DEF Aligned
    <3>2. LC_reg' = (LC_reg + 1) % 256
      BY Zenon, <1>5, <1>7
    <3>3. Pushed < Len(Strip)
      BY <1>1, <1>6, <2>1
    <3>4. QED
      BY Zenon, <3>1, <3>2, <3>3
  <2>3. /\ LC_reg' = Len(stored') /\ Len(FlattenSeq(stored')) = Pushed'
        /\ Holds(FlattenSeq(stored'), 0, Strip, 0, Pushed') /\ Pushed' = Pushed + W
    BY Zenon, <1>5, <1>7, <2>2, WordPushed
  <2>4. 0 \in 0 .. W /\ Pushed' + 0 = Len(Strip) /\ Pushed' \in Nat /\ 0 # 1
    BY <1>1, <1>6, <2>1, <2>3
  <2>5. Holds(sipo_reg', W - 0, Strip, Pushed', 0)
    BY DEF Holds
  <2>6. QED
    BY Zenon, <1>3, <1>4, <1>6, <2>1, <2>3, <2>4, <2>5
<1>8. CASE ~comper_SIPO
  <2>1. /\ LC_reg' = Len(stored') /\ Len(FlattenSeq(stored')) = Pushed'
        /\ Holds(FlattenSeq(stored'), 0, Strip, 0, Pushed') /\ Pushed' = Pushed
    BY Zenon, <1>5, <1>8, WordsStay
  <2>2. QED
    BY Zenon, <1>1, <1>2, <1>3, <1>4, <1>5, <1>6, <1>8, <2>1
<1>9. QED
  BY Zenon, <1>7, <1>8

\* A strip of which one character is left for a word of its own spills.
LEMMA NotOneOver ==
  ASSUME TypeOK, texts # <<>>, Len(Strip) = Pushed + 1
  PROVE  Spills
<1>1. Len(texts) \in 1 .. Len(texts) /\ Len(stored) \in Nat
  BY DEF TypeOK
<1>2. (W * Len(stored) + 1) % W = 1
  <2>1. 1 \in 0 .. W - 1
    BY WidthsAssumption
  <2>2. QED
    BY Zenon, <1>1, <2>1, InWord
<1>3. Length(All) % W = 1
  BY Zenon, <1>2 DEF Length, Strip, Pushed
<1>4. QED
  BY Zenon, <1>1, <1>3 DEF Spills, All

\* All of the strip is shifted, and there is no further plate: nulls fill the word,
\* which is not empty, or has more in it than one character.
LEMMA ShiftsNulls ==
  ASSUME TypeOK, TextsGiven, Fits, ~Spills, NEW c \in 0 .. W, Aligned(c), phase = "final",
         Len(Strip) <= Pushed + c, Edge(Shifted), ~OCR_RX_done
  PROVE  \E d \in 0 .. W : AlignedNext(d)
<1>1. /\ W \in Nat /\ W > 1 /\ MAX_OUT_L \in Nat /\ MAX_OUT_L > 0
      /\ Len(Strip) \in Nat /\ Pushed \in Nat /\ LastText \in 0 .. MAX_OUT_L
      /\ sipo_reg_count \in 0 .. W - 1
  BY Zenon, Numbers
<1>2. /\ c = sipo_reg_count + 1 \/ (c = 0 /\ sipo_reg_count = 0)
      /\ c = 0 => Len(Strip) = Pushed \/ (Len(Strip) = Pushed + LastText + 1 /\ texts # <<>>)
      /\ Pushed < Len(Strip) \/ (c = 0 /\ Pushed = Len(Strip))
      /\ LastInOutput(c) /\ Holds(Output_reg, 0, Strip, Pushed + c, MAX_OUT_L + 1)
      /\ texts # <<>>
  BY Zenon DEF Aligned, Counted, LastInOutput, NotAhead, InRegisters
<1>3. comper_last_2 /\ comper_last_1
  <2>1. comper_last_2
    BY Zenon, <1>1, <1>2, Ahead
  <2>2. QED
    BY Zenon, <2>1 DEF comper_last_2
<1>4. sipo_en /\ sipo_count_en /\ ~comper_SIPO
  BY Zenon, <1>3 DEF sipo_en, sipo_count_en, final_im, OCR_RX_done
<1>5. /\ Output_reg' = Shifted
      /\ sipo_reg' = IF sipo_en THEN Append(Tail(sipo_reg), Head(Output_reg)) ELSE sipo_reg
      /\ sipo_reg_count = 0 => sipo_reg_count' = 0
      /\ sipo_reg_count # 0 => sipo_reg_count' = sipo_reg_count + 1
      /\ Push /\ LC_reg' = IF comper_SIPO THEN (LC_reg + 1) % 256 ELSE LC_reg
  BY Zenon, <1>3, <1>4, EdgeFacts
<1>6. /\ Holds(Output_reg', 0, Strip, (Pushed + c) + 1, MAX_OUT_L + 1)
      /\ c < W => Holds(sipo_reg', W - (c + 1), Strip, Pushed, c + 1)
  BY Zenon, <1>4, <1>5, Shifts
<1>7. /\ LC_reg' = Len(stored') /\ Len(FlattenSeq(stored')) = Pushed'
      /\ Holds(FlattenSeq(stored'), 0, Strip, 0, Pushed') /\ Pushed' = Pushed
  BY Zenon, <1>4, <1>5, WordsStay
<1>8. c # 1
  <2>1. SUFFICES ASSUME c = 1 PROVE FALSE
    OBVIOUS
  <2>2. Len(Strip) = Pushed + 1
    BY <1>1, <1>2, <2>1
  <2>3. QED
    BY Zenon, <1>2, <2>2, NotOneOver
<1>9. CASE c = 0
  <2>1. sipo_reg_count = 0 /\ Len(Strip) = Pushed
    BY <1>1, <1>2, <1>9
  <2>2. Holds(Output_reg', 0, Strip, Pushed + 0, MAX_OUT_L + 1)
    <3>1. ASSUME NEW i \in 1 .. MAX_OUT_L + 1
          PROVE  Output_reg'[0 + i] = Given(Strip, (Pushed + 0) + i)
      <4>1. Output_reg'[0 + i] = Given(Strip, ((Pushed + c) + 1) + i)
        BY Zenon, <1>6 DEF Holds
      <4>2. /\ ((Pushed + c) + 1) + i \in Int /\ ((Pushed + c) + 1) + i > Len(Strip)
            /\ (Pushed + 0) + i \in Int /\ (Pushed + 0) + i > Len(Strip)
        BY <1>1, <1>9, <2>1
      <4>3. Strip \in Text
        BY Zenon, StripFacts
      <4>4. /\ Given(Strip, ((Pushed + c) + 1) + i) = NULL_CHAR
            /\ Given(Strip, (Pushed + 0) + i) = NULL_CHAR
        BY Zenon, <4>2, <4>3, GivenType
      <4>5. QED
        BY Zenon, <4>1, <4>4
    <3>2. QED
      BY Zenon, <3>1 DEF Holds
  <2>3. Holds(sipo_reg', W - 0, Strip, Pushed', 0)
    BY DEF Holds
  <2>4. 0 \in 0 .. W /\ 0 # 1 /\ Len(Strip) <= Pushed' + 0 + LastText + 1 /\ phase # "images"
    BY <1>1, <1>7, <2>1
  <2>5. AlignedNext(0)
    BY Zenon, <1>2, <1>5, <1>7, <2>1, <2>2, <2>3, <2>4 DEF AlignedNext
  <2>6. QED
    BY Zenon, <2>4, <2>5
<1>10. CASE c # 0
  <2>1. /\ c + 1 \in 0 .. W /\ c + 1 # 0 /\ c + 1 # 1 /\ c < W /\ sipo_reg_count # 0
        /\ c = sipo_reg_count + 1 /\ phase # "images"
    BY <1>1, <1>2, <1>4, <1>8, <1>10 DEF comper_SIPO
  <2>2. /\ Len(Strip) <= Pushed' + (c + 1) + LastText + 1
        /\ Pushed' < Len(Strip) /\ (Pushed + c) + 1 = Pushed' + (c + 1)
    BY <1>1, <1>2, <1>7, <1>10
  <2>3. c + 1 = sipo_reg_count' + 1
    BY Zenon, <1>5, <2>1
  <2>4. /\ Holds(sipo_reg', W - (c + 1), Strip, Pushed', c + 1)
        /\ Holds(Output_reg', 0, Strip, Pushed' + (c + 1), MAX_OUT_L + 1)
    BY Zenon, <1>6, <1>7, <2>1, <2>2
  <2>5. AlignedNext(c + 1)
    BY Zenon, <1>2, <1>7, <2>1, <2>2, <2>3, <2>4 DEF AlignedNext
  <2>6. QED
    BY Zenon, <2>1, <2>5
<1>11. QED
  BY Zenon, <1>9, <1>10

\* What WordsExact says of the words.
Exactly ==
  /\ LC_reg = Len(stored) /\ Len(stored) = (Length(All) + W - 1) \div W
  /\ FlattenSeq(stored) = Stream(All) \o Nulls(W * Len(stored) - Length(All))

LEMMA NullsFacts ==
  ASSUME NEW n \in Nat
  PROVE  Nulls(n) \in Seq(Char) /\ Len(Nulls(n)) = n /\ \A i \in 1 .. n : Nulls(n)[i] = NULL_CHAR
<1>1. NULL_CHAR \in Char
  BY CharFacts
<1>2. Nulls(n) \in [1 .. n -> Char]
  BY Zenon, <1>1 DEF Nulls
<1>3. Nulls(n) \in Seq(Char)
  BY <1>2, SeqDef
<1>4. Len(Nulls(n)) \in Nat /\ DOMAIN Nulls(n) = 1 .. Len(Nulls(n))
  BY <1>3, LenProperties
<1>5. Len(Nulls(n)) = n
  BY <1>2, <1>4
<1>6. \A i \in 1 .. n : Nulls(n)[i] = NULL_CHAR
  BY Zenon DEF Nulls
<1>7. QED
  BY <1>3, <1>5, <1>6

\* The last word is pushed.
LEMMA LastWord ==
  ASSUME TypeOK, TypeOK', TextsGiven, Fits, NEW c \in 0 .. W, Aligned(c), phase = "final",
         OCR_RX_done, Edge(Shifted), texts' = texts
  PROVE  Exactly'
<1>1. /\ W \in Nat /\ W > 1 /\ MAX_OUT_L \in Nat /\ MAX_OUT_L > 0
      /\ Len(Strip) \in Nat /\ Pushed \in Nat /\ LastText \in 0 .. MAX_OUT_L
      /\ sipo_reg_count \in 0 .. W - 1
  BY Zenon, Numbers
<1>2. /\ c = sipo_reg_count + 1 \/ (c = 0 /\ sipo_reg_count = 0)
      /\ Pushed < Len(Strip) \/ (c = 0 /\ Pushed = Len(Strip))
      /\ LastInOutput(c) /\ Holds(Output_reg, 0, Strip, Pushed + c, MAX_OUT_L + 1)
  BY Zenon DEF Aligned, Counted, NotAhead, InRegisters
<1>3. comper_last_2 /\ comper_SIPO
  BY Zenon DEF OCR_RX_done, final_im
<1>4. c = W
  BY <1>1, <1>2, <1>3 DEF comper_SIPO
<1>5. Len(Strip) <= Pushed + c
  <2>1. ~(Len(Strip) > Pushed + c)
    BY Zenon, <1>1, <1>2, <1>3, Ahead
  <2>2. QED
    BY <1>1, <2>1
<1>6. Pushed < Len(Strip)
  BY <1>1, <1>2, <1>4
<1>7. InRegisters(W) /\ Push /\ LC_reg' = (LC_reg + 1) % 256
  <2>1. InRegisters(W)
    BY Zenon, <1>4 DEF Aligned
  <2>2. QED
    BY Zenon, <1>3, <2>1, EdgeFacts
<1>8. /\ Len(stored') = Len(stored) + 1 /\ LC_reg' = Len(stored')
      /\ Pushed' = Pushed + W /\ Len(FlattenSeq(stored')) = Pushed'
      /\ Holds(FlattenSeq(stored'), 0, Strip, 0, Pushed')
  BY Zenon, <1>3, <1>6, <1>7, WordPushed
<1>9. Length(All) = Len(Strip) /\ Length(All)' = Len(Strip) /\ Stream(All)' = Strip
  BY Zenon DEF Length, Strip, Stream, All
<1>10. Len(stored') = (Len(Strip) + W - 1) \div W
  <2>1. Len(stored) \in Nat
    BY DEF TypeOK
  <2>2. W * Len(stored) < Len(Strip) /\ Len(Strip) <= W * Len(stored) + W
    <3>1. Len(Strip) <= Pushed + W
      BY Zenon, <1>4, <1>5
    <3>2. QED
      BY Zenon, <1>6, <3>1 DEF Pushed
  <2>3. (Len(Strip) + W - 1) \div W = Len(stored) + 1
    BY Zenon, <1>1, <2>1, <2>2, Words
  <2>4. QED
    BY Zenon, <1>8, <2>3
<1> DEFINE f == FlattenSeq(stored')
           k == Pushed' - Len(Strip)
           g == Strip \o Nulls(k)
<1>11. k \in Nat /\ Pushed' \in Nat /\ Len(Strip) + k = Pushed'
  BY <1>1, <1>4, <1>5, <1>8
<1>12. f \in Seq(Char) /\ Len(f) = Pushed'
  <2>1. stored' \in Seq(Seq(Char))
    BY DEF TypeOK, Text
  <2>2. QED
    BY Zenon, <1>8, <2>1, FlattenType
<1>13. Strip \in Seq(Char)
  BY Zenon, StripFacts DEF Text
<1>14. \A i \in 1 .. Pushed' : f[0 + i] = Given(Strip, 0 + i)
  BY Zenon, <1>8 DEF Holds
<1> HIDE DEF f, k
<1>15. Nulls(k) \in Seq(Char) /\ Len(Nulls(k)) = k /\ \A i \in 1 .. k : Nulls(k)[i] = NULL_CHAR
  BY Zenon, <1>11, NullsFacts
<1>16. /\ g \in Seq(Char) /\ Len(g) = Len(Strip) + Len(Nulls(k))
       /\ \A i \in 1 .. Len(Strip) + Len(Nulls(k)) :
            g[i] = IF i <= Len(Strip) THEN Strip[i] ELSE Nulls(k)[i - Len(Strip)]
  BY Zenon, <1>13, <1>15, ConcatProperties
<1> HIDE DEF g
<1>17. ASSUME NEW i \in 1 .. Pushed'
       PROVE  f[i] = g[i]
  <2>1. 0 + i = i /\ i \in 1 .. Len(Strip) + Len(Nulls(k)) /\ i \in Int
    BY <1>11, <1>15
  <2>2. f[i] = Given(Strip, i)
    BY <1>14, <2>1
  <2>3. CASE i <= Len(Strip)
    <3>1. i \in 1 .. Len(Strip)
      BY <2>1, <2>3, <1>1
    <3>2. g[i] = Strip[i]
      BY <1>16, <2>1, <2>3
    <3>3. QED
      BY Zenon, <2>2, <3>1, <3>2 DEF Given
  <2>4. CASE ~(i <= Len(Strip))
    <3>1. i - Len(Strip) \in 1 .. k /\ i \notin 1 .. Len(Strip)
      BY <1>1, <1>11, <2>1, <2>4
    <3>2. g[i] = NULL_CHAR
      BY <1>15, <1>16, <2>1, <2>4, <3>1
    <3>3. QED
      BY Zenon, <2>2, <3>1, <3>2 DEF Given
  <2>5. QED
    BY <2>3, <2>4
<1>18. Len(g) = Pushed'
  BY Zenon, <1>11, <1>15, <1>16
<1>19. f = g
  BY <1>11, <1>12, <1>16, <1>17, <1>18, SeqEqual
<1>20. Pushed' = W * Len(stored')
  BY Zenon DEF Pushed
<1>21. QED
  BY Zenon, <1>8, <1>9, <1>10, <1>19, <1>20 DEF Exactly, f, g, k

-----------------------------------------------------------------------------
(* What the software makes of the characters. *)

\* The parts of Split.
Ends(chars) ==
  {e \in 1 .. Len(chars) - 1 : chars[e] # NULL_CHAR /\ chars[e + 1] = NULL_CHAR}
Begin(chars, e) == 1 + Max({0} \union {b \in 1 .. e : chars[b] = NULL_CHAR})
Nth(chars, k)   == CHOOSE e \in Ends(chars) : Cardinality(UpTo(Ends(chars), e)) = k

LEMMA SplitIs ==
  ASSUME NEW chars
  PROVE  Split(chars) = [k \in 1 .. Cardinality(Ends(chars)) |->
           SubSeq(chars, Begin(chars, Nth(chars, k)), Nth(chars, k))]
BY Zenon DEF Split, Ends, Begin, Nth, UpTo

LEMMA EndsFacts ==
  ASSUME NEW chars \in Seq(Char)
  PROVE  /\ Ends(chars) \subseteq 1 .. Len(chars) /\ Cardinality(Ends(chars)) \in Nat
         /\ IsFiniteSet(Ends(chars))
         /\ \A k \in 1 .. Cardinality(Ends(chars)) :
              /\ Nth(chars, k) \in Ends(chars)
              /\ Cardinality(UpTo(Ends(chars), Nth(chars, k))) = k
<1> DEFINE S == Ends(chars)
<1>1. S \subseteq 1 .. Len(chars) /\ Len(chars) \in Nat
  BY DEF Ends
<1> HIDE DEF S
<1>2. IsFiniteSet(S)
  <2>1. Len(chars) \in Int /\ 1 \in Int /\ S \in SUBSET (1 .. Len(chars))
    BY <1>1
  <2>2. QED
    BY Zenon, <2>1, FS_Interval, FS_Subset
<1>3. Cardinality(S) \in Nat
  BY Zenon, <1>2, FS_CardinalityType
<1>4. ASSUME NEW k \in 1 .. Cardinality(S)
      PROVE  Nth(chars, k) \in S /\ Cardinality(UpTo(S, Nth(chars, k))) = k
  <2>1. \E e \in S : Cardinality(UpTo(S, e)) = k
    BY Zenon, <1>1, NthExists
  <2>2. QED
    BY Zenon, <2>1 DEF Nth, S
<1>5. QED
  BY Zenon, <1>1, <1>2, <1>3, <1>4 DEF S

LEMMA BeginFacts ==
  ASSUME NEW chars, NEW e \in Nat
  PROVE  /\ Begin(chars, e) \in 1 .. e + 1
         /\ \A b \in 1 .. e : chars[b] = NULL_CHAR => b < Begin(chars, e)
         /\ Begin(chars, e) = 1 \/ chars[Begin(chars, e) - 1] = NULL_CHAR
<1> DEFINE S == {0} \union {b \in 1 .. e : chars[b] = NULL_CHAR}
<1>1. S \subseteq 0 .. e /\ S # {}
  OBVIOUS
<1>2. \A b \in S : b = 0 \/ (b \in 1 .. e /\ chars[b] = NULL_CHAR)
  OBVIOUS
<1>3. \A b \in 1 .. e : chars[b] = NULL_CHAR => b \in S
  OBVIOUS
<1>4. Begin(chars, e) = 1 + Max(S)
  BY Zenon DEF Begin
<1> HIDE DEF S
<1>5. Max(S) \in S /\ \A y \in S : Max(S) >= y
  BY Zenon, <1>1, MaxFacts
<1>6. Max(S) \in 0 .. e
  BY <1>1, <1>5
<1>7. (1 + Max(S)) - 1 = Max(S) /\ 1 + Max(S) \in 1 .. e + 1
  BY <1>6
<1>8. \A b \in 1 .. e : b \in S => b < 1 + Max(S)
  BY <1>5, <1>6
<1>9. 1 + Max(S) = 1 \/ chars[(1 + Max(S)) - 1] = NULL_CHAR
  <2>1. Max(S) = 0 => 1 + Max(S) = 1
    OBVIOUS
  <2>2. Max(S) # 0 => chars[Max(S)] = NULL_CHAR
    BY Zenon, <1>2, <1>5
  <2>3. QED
    BY Zenon, <1>7, <2>1, <2>2
<1>10. QED
  BY Zenon, <1>3, <1>4, <1>7, <1>8, <1>9

LEMMA SplitType ==
  ASSUME NEW chars \in Seq(Char)
  PROVE  Split(chars) \in Seq(Text)
<1>1. ASSUME NEW k \in 1 .. Cardinality(Ends(chars))
      PROVE  SubSeq(chars, Begin(chars, Nth(chars, k)), Nth(chars, k)) \in Text
  <2>1. Nth(chars, k) \in 1 .. Len(chars)
    <3>1. Nth(chars, k) \in Ends(chars) /\ Ends(chars) \subseteq 1 .. Len(chars)
      BY Zenon, EndsFacts
    <3>2. QED
      BY Zenon, <3>1
  <2>2. Nth(chars, k) \in Nat
    BY <2>1
  <2>3. Begin(chars, Nth(chars, k)) \in 1 .. Nth(chars, k) + 1
    BY Zenon, <2>2, BeginFacts
  <2> DEFINE e == Nth(chars, k)
             b == Begin(chars, Nth(chars, k))
  <2> HIDE DEF e, b
  <2>4. e \in 1 .. Len(chars) /\ b \in 1 .. e + 1
    BY Zenon, <2>1, <2>3 DEF e, b
  <2>5. SubSeq(chars, b, e) \in Seq(Char)
    BY <2>4
  <2>6. QED
    BY Zenon, <2>5 DEF e, b, Text
<1>2. Cardinality(Ends(chars)) \in Nat
  BY Zenon, EndsFacts
<1>3. Split(chars) \in [1 .. Cardinality(Ends(chars)) -> Text]
  BY Zenon, <1>1, SplitIs
<1>4. QED
  BY Zenon, <1>2, <1>3, SeqDef

-----------------------------------------------------------------------------
(* Type correctness. *)

LEMMA ShiftedType ==
  ASSUME TypeOK
  PROVE  Shifted \in Text /\ Len(Shifted) = MAX_OUT_L + 1
<1>1. Output_reg \in Seq(Char) /\ Len(Output_reg) = MAX_OUT_L + 1 /\ NULL_CHAR \in Char
  BY CharFacts DEF TypeOK, Text
<1>2. MAX_OUT_L \in Nat /\ MAX_OUT_L > 0
  BY WidthsAssumption
<1>3. /\ Append(Tail(Output_reg), NULL_CHAR) \in Seq(Char)
      /\ Len(Append(Tail(Output_reg), NULL_CHAR)) = MAX_OUT_L + 1
  BY <1>1, <1>2
<1>4. QED
  BY Zenon, <1>1, <1>3 DEF Shifted, Text

LEMMA EdgeType ==
  ASSUME TypeOK, NEW STATE next, next \in Text, Len(next) = MAX_OUT_L + 1, Edge(next)
  PROVE  /\ Output_reg' \in Text /\ Len(Output_reg') = MAX_OUT_L + 1
         /\ sipo_reg' \in Text /\ Len(sipo_reg') = W
         /\ sipo_reg_count' \in 0 .. W - 1 /\ LC_reg' \in 0 .. 255
         /\ stored' \in Seq(Text) /\ Len(stored') < RESULT_RAM_DEPTH
<1>1. /\ Output_reg \in Seq(Char) /\ Len(Output_reg) = MAX_OUT_L + 1
      /\ sipo_reg \in Seq(Char) /\ Len(sipo_reg) = W
      /\ sipo_reg_count \in 0 .. W - 1 /\ LC_reg \in 0 .. 255
      /\ stored \in Seq(Text) /\ Len(stored) < RESULT_RAM_DEPTH /\ Len(stored) \in Nat
      /\ W \in Nat /\ W > 1 /\ MAX_OUT_L \in Nat /\ MAX_OUT_L > 0 /\ RESULT_RAM_DEPTH \in Nat
  BY WidthsAssumption DEF TypeOK, Text
<1>2. /\ Output_reg' = next
      /\ sipo_reg' = IF sipo_en THEN Append(Tail(sipo_reg), Head(Output_reg)) ELSE sipo_reg
      /\ sipo_reg_count' = IF sipo_count_en THEN sipo_reg_in ELSE sipo_reg_count
      /\ LC_reg' = IF comper_SIPO THEN (LC_reg + 1) % 256 ELSE LC_reg
      /\ Push
  BY Zenon DEF Edge
<1>3. sipo_reg' \in Seq(Char) /\ Len(sipo_reg') = W
  <2>1. Head(Output_reg) \in Char
    BY <1>1
  <2>2. /\ Append(Tail(sipo_reg), Head(Output_reg)) \in Seq(Char)
        /\ Len(Append(Tail(sipo_reg), Head(Output_reg))) = W
    BY <1>1, <2>1
  <2>3. QED
    BY Zenon, <1>1, <1>2, <2>2
<1>4. sipo_reg_in \in 0 .. W - 1
  <2>1. CASE sipo_reg_in = 0
    BY <1>1, <2>1
  <2>2. CASE sipo_reg_in # 0
    <3>1. ~comper_SIPO /\ sipo_reg_in = sipo_reg_count + 1
      BY Zenon, <2>2 DEF sipo_reg_in
    <3>2. QED
      BY <1>1, <3>1 DEF comper_SIPO
  <2>3. QED
    BY <2>1, <2>2
<1>5. sipo_reg_count' \in 0 .. W - 1
  BY Zenon, <1>1, <1>2, <1>4
<1>6. LC_reg' \in 0 .. 255
  <2>1. (LC_reg + 1) % 256 \in 0 .. 255
    BY <1>1
  <2>2. QED
    BY Zenon, <1>1, <1>2, <2>1
<1>7. stored' \in Seq(Text) /\ Len(stored') < RESULT_RAM_DEPTH
  <2>1. CASE stored' = stored
    BY <1>1, <2>1
  <2>2. CASE stored' # stored
    <3>1. stored' = Append(stored, sipo_reg) /\ Len(stored) < RESULT_RAM_DEPTH - 1
      BY Zenon, <1>2, <2>2 DEF Push
    <3>2. sipo_reg \in Text
      BY <1>1 DEF Text
    <3>3. QED
      BY <1>1, <3>1, <3>2
  <2>3. QED
    BY <2>1, <2>2
<1>8. QED
  BY Zenon, <1>2, <1>3, <1>5, <1>6, <1>7 DEF Text

\* Output_reg is loaded with what the text adds to the strip, and nulls.
LEMMA UnpackFacts ==
  ASSUME NEW x \in Text, Len(x) <= MAX_OUT_L
  PROVE  /\ unpack_ocr_output_vector(x) \in Text
         /\ Len(unpack_ocr_output_vector(x)) = MAX_OUT_L + 1
         /\ \A i \in 1 .. MAX_OUT_L + 1 :
              unpack_ocr_output_vector(x)[i] =
                IF i <= 1 + Len(x) THEN (<<NULL_CHAR>> \o Reverse(x))[i] ELSE NULL_CHAR
<1> DEFINE p == <<NULL_CHAR>> \o Reverse(x)
           k == MAX_OUT_L - Len(x)
           g == p \o Nulls(k)
<1>1. p \in Seq(Char) /\ Len(p) = 1 + Len(x)
  BY Zenon, PieceFacts DEF Text
<1>2. k \in Nat /\ Len(x) \in Nat /\ 1 + Len(x) + k = MAX_OUT_L + 1
  BY WidthsAssumption DEF Text
<1>3. unpack_ocr_output_vector(x) = g
  BY Zenon DEF unpack_ocr_output_vector
<1> HIDE DEF p, k
<1>4. Nulls(k) \in Seq(Char) /\ Len(Nulls(k)) = k /\ \A i \in 1 .. k : Nulls(k)[i] = NULL_CHAR
  BY Zenon, <1>2, NullsFacts
<1>5. /\ g \in Seq(Char) /\ Len(g) = Len(p) + Len(Nulls(k))
      /\ \A i \in 1 .. Len(p) + Len(Nulls(k)) :
           g[i] = IF i <= Len(p) THEN p[i] ELSE Nulls(k)[i - Len(p)]
  BY Zenon, <1>1, <1>4, ConcatProperties
<1> HIDE DEF g
<1>6. Len(p) + Len(Nulls(k)) = MAX_OUT_L + 1
  BY Zenon, <1>1, <1>2, <1>4
<1>7. ASSUME NEW i \in 1 .. MAX_OUT_L + 1
      PROVE  g[i] = IF i <= 1 + Len(x) THEN p[i] ELSE NULL_CHAR
  <2>1. g[i] = IF i <= 1 + Len(x) THEN p[i] ELSE Nulls(k)[i - (1 + Len(x))]
    BY Zenon, <1>1, <1>5, <1>6
  <2>2. ~(i <= 1 + Len(x)) => i - (1 + Len(x)) \in 1 .. k
    BY <1>2
  <2>3. QED
    BY Zenon, <1>4, <2>1, <2>2
<1>8. QED
  BY Zenon, <1>3, <1>5, <1>6, <1>7 DEF p, Text

LEMMA InitType == Init => TypeOK
<1> SUFFICES ASSUME Init PROVE TypeOK
  OBVIOUS
<1>1. W \in Nat /\ W > 1 /\ MAX_OUT_L + 1 \in Nat /\ RESULT_RAM_DEPTH \in Nat /\ RESULT_RAM_DEPTH > 1
  BY WidthsAssumption
<1>2. /\ Output_reg = Nulls(MAX_OUT_L + 1) /\ sipo_reg = Nulls(W)
      /\ sipo_reg_count = 0 /\ LC_reg = 0 /\ stored = <<>>
      /\ phase = "images" /\ texts = <<>> /\ results = <<>>
  BY Zenon DEF Init
<1>3. /\ Output_reg \in Text /\ Len(Output_reg) = MAX_OUT_L + 1
      /\ sipo_reg \in Text /\ Len(sipo_reg) = W
  BY Zenon, <1>1, <1>2, NullsFacts DEF Text
<1>4. <<>> \in Seq(Text) /\ Len(<<>>) = 0
  OBVIOUS
<1>5. QED
  BY <1>1, <1>2, <1>3, <1>4 DEF TypeOK

\* ValidOutput, with the text named.
LEMMA ValidOutputFacts ==
  ASSUME TypeOK, ValidOutput
  PROVE  \E n \in 1 .. MAX_OUT_L :
           /\ Len(texts) + 1 \in 1 .. MaxPlates
           /\ texts' = Append(texts, PlateText(Len(texts) + 1, n))
           /\ Edge(unpack_ocr_output_vector(PlateText(Len(texts) + 1, n)))
           /\ phase = "images" /\ phase' = "images" /\ comper_last_2 /\ results' = results
<1>1. Len(texts) + 1 \in 1 .. MaxPlates
  <2>1. Len(texts) \in Nat
    BY DEF TypeOK
  <2>2. Len(texts) < MaxPlates
    BY Zenon DEF ValidOutput
  <2>3. QED
    BY <2>1, <2>2, WidthsAssumption
<1>2. QED
  BY Zenon, <1>1 DEF ValidOutput, PlateText

LEMMA ReceivedType ==
  ASSUME TypeOK
  PROVE  [i \in 1 .. Len(Received) |-> Reverse(Received[i])] \in Seq(Seq(Char))
<1> DEFINE n == LC_reg - Len(stored)
           z == [i \in 1 .. n |-> Nulls(W)]
<1>1. stored \in Seq(Text) /\ Len(stored) \in Nat /\ n \in Int /\ W \in Nat
  BY WidthsAssumption DEF TypeOK
<1>2. z \in Seq(Text)
  <2>1. Nulls(W) \in Text
    BY Zenon, <1>1, NullsFacts DEF Text
  <2>2. CASE n \in Nat
    <3>1. z \in [1 .. n -> Text]
      BY Zenon, <2>1
    <3>2. QED
      BY <2>2, <3>1, SeqDef
  <2>3. CASE n \notin Nat
    <3>1. 1 .. n = 1 .. 0 /\ 0 \in Nat
      BY <1>1, <2>3
    <3>2. z \in [1 .. 0 -> Text]
      BY Zenon, <2>1, <3>1
    <3> HIDE DEF z
    <3>3. QED
      BY <3>1, <3>2, SeqDef
  <2>4. QED
    BY <2>2, <2>3
<1>3. Received = stored \o z
  BY Zenon DEF Received
<1> HIDE DEF z
<1>4. Received \in Seq(Text)
  BY Zenon, <1>1, <1>2, <1>3, ConcatProperties
<1> DEFINE r == Received
<1> HIDE DEF r
<1>5. r \in Seq(Text) /\ Len(r) \in Nat
  BY <1>4 DEF r
<1>6. ASSUME NEW i \in 1 .. Len(r)
      PROVE  Reverse(r[i]) \in Seq(Char)
  <2>1. r[i] \in Text
    BY <1>5
  <2>2. QED
    BY Zenon, <2>1, ReverseFacts DEF Text
<1> DEFINE f == [i \in 1 .. Len(r) |-> Reverse(r[i])]
<1>7. f \in [1 .. Len(r) -> Seq(Char)]
  BY Zenon, <1>6
<1> HIDE DEF f
<1>8. f \in Seq(Seq(Char))
  BY <1>5, <1>7, SeqDef
<1>9. QED
  BY Zenon, <1>8 DEF f, r

LEMMA NextType == TypeOK /\ [Next]_vars => TypeOK'
<1> SUFFICES ASSUME TypeOK, [Next]_vars PROVE TypeOK'
  OBVIOUS
<1>0. /\ phase \in {"images", "final", "stored", "fetched"}
      /\ texts \in Seq(Text) /\ results \in Seq(Text)
      /\ Output_reg \in Text /\ Len(Output_reg) = MAX_OUT_L + 1
      /\ sipo_reg \in Text /\ Len(sipo_reg) = W
      /\ sipo_reg_count \in 0 .. W - 1 /\ LC_reg \in 0 .. 255
      /\ stored \in Seq(Text) /\ Len(stored) < RESULT_RAM_DEPTH
  BY Zenon DEF TypeOK
<1>1. CASE ValidOutput
  <2>1. PICK n \in 1 .. MAX_OUT_L :
           /\ Len(texts) + 1 \in 1 .. MaxPlates
           /\ texts' = Append(texts, PlateText(Len(texts) + 1, n))
           /\ Edge(unpack_ocr_output_vector(PlateText(Len(texts) + 1, n)))
           /\ phase' = "images" /\ results' = results
    BY Zenon, <1>1, ValidOutputFacts
  <2>2. PlateText(Len(texts) + 1, n) \in Text /\ Len(PlateText(Len(texts) + 1, n)) = n
    BY Zenon, <2>1, PlateTextFacts
  <2>3. n <= MAX_OUT_L
    OBVIOUS
  <2>4. /\ unpack_ocr_output_vector(PlateText(Len(texts) + 1, n)) \in Text
        /\ Len(unpack_ocr_output_vector(PlateText(Len(texts) + 1, n))) = MAX_OUT_L + 1
    BY Zenon, <2>2, <2>3, UnpackFacts
  <2>5. texts' \in Seq(Text)
    BY <1>0, <2>1, <2>2
  <2>6. QED
    BY Zenon, <1>0, <2>1, <2>4, <2>5, EdgeType DEF TypeOK
<1>2. CASE FinalImage
  <2>1. Edge(Shifted) /\ phase' = "final" /\ texts' = texts /\ results' = results
    BY Zenon, <1>2 DEF FinalImage
  <2>2. QED
    BY Zenon, <1>0, <2>1, ShiftedType, EdgeType DEF TypeOK
<1>3. CASE Cycle
  <2>1. /\ Edge(Shifted) /\ texts' = texts /\ results' = results
        /\ phase' = IF OCR_RX_done THEN "stored" ELSE phase
    BY Zenon, <1>3 DEF Cycle
  <2>2. phase' \in {"images", "final", "stored", "fetched"}
    BY Zenon, <1>0, <2>1
  <2>3. QED
    BY Zenon, <1>0, <2>1, <2>2, ShiftedType, EdgeType DEF TypeOK
<1>4. CASE receiveResultStrings
  <2>1. /\ results' = Split(FlattenSeq([i \in 1 .. Len(Received) |-> Reverse(Received[i])]))
        /\ phase' = "fetched" /\ UNCHANGED <<regs, texts>>
    BY Zenon, <1>4 DEF receiveResultStrings
  <2>2. FlattenSeq([i \in 1 .. Len(Received) |-> Reverse(Received[i])]) \in Seq(Char)
    BY Zenon, ReceivedType, FlattenType
  <2>3. results' \in Seq(Text)
    BY Zenon, <2>1, <2>2, SplitType
  <2>4. /\ Output_reg' = Output_reg /\ sipo_reg' = sipo_reg /\ texts' = texts
        /\ sipo_reg_count' = sipo_reg_count /\ LC_reg' = LC_reg /\ stored' = stored
    BY <2>1 DEF regs
  <2>5. QED
    BY Zenon, <1>0, <2>1, <2>3, <2>4 DEF TypeOK
<1>5. CASE Clear
  <2>1. Init'
    BY Zenon, <1>5 DEF Clear, Cleared, Init
  <2>2. Init' => TypeOK'
    BY InitType, PTL
  <2>3. QED
    BY <2>1, <2>2
<1>6. CASE UNCHANGED vars
  <2>1. /\ Output_reg' = Output_reg /\ sipo_reg' = sipo_reg /\ texts' = texts
        /\ sipo_reg_count' = sipo_reg_count /\ LC_reg' = LC_reg /\ stored' = stored
        /\ phase' = phase /\ results' = results
    BY <1>6 DEF vars, regs
  <2>2. QED
    BY Zenon, <1>0, <2>1 DEF TypeOK
<1>7. QED
  BY Zenon, <1>1, <1>2, <1>3, <1>4, <1>5, <1>6 DEF Next

-----------------------------------------------------------------------------
(* The inductive invariant. *)

\* Result_FILO and OCR_RX_UNIT hold what was shifted so far, word by word, the
\* header counts it, and WordsExact follows when the last word is pushed.
IInv == TypeOK /\ TextsGiven /\ WordsInStep /\ WordsExact

LEMMA InNat ==
  ASSUME NEW n \in Nat, NEW d \in 0 .. n
  PROVE  d \in Nat
OBVIOUS

\* A cycle without a text, before the strip is finished.
LEMMA CycleAligned ==
  ASSUME TypeOK, TypeOK', TextsGiven, Fits, ~Spills, NEW c \in 0 .. W, Aligned(c),
         phase \in {"images", "final"}, Edge(Shifted), ~OCR_RX_done
  PROVE  \E d \in 0 .. W : AlignedNext(d)
<1>1. Len(Strip) \in Nat /\ Pushed \in Nat /\ W \in Nat /\ W > 1
  BY Zenon, Numbers
<1>2. CASE Len(Strip) > Pushed + c
  BY Zenon, <1>2, ShiftsText
<1>3. CASE Len(Strip) <= Pushed + c /\ phase = "final"
  BY Zenon, <1>3, ShiftsNulls
<1>4. CASE Len(Strip) <= Pushed + c /\ phase = "images"
  <2>1. ~sipo_en /\ Len(Strip) = Pushed + c
    BY Zenon, <1>4, Waits
  <2>2. PICK d \in 0 .. W :
          /\ d = sipo_reg_count' + 1 \/ (d = 0 /\ sipo_reg_count' = 0)
          /\ Pushed' + d = Len(Strip) /\ Pushed' \in Nat /\ (d = 1 => c = 1)
          /\ LC_reg' = Len(stored') /\ Len(FlattenSeq(stored')) = Pushed'
          /\ Holds(FlattenSeq(stored'), 0, Strip, 0, Pushed')
          /\ Holds(sipo_reg', W - d, Strip, Pushed', d)
    BY Zenon, <1>4, Waits
  <2>3. Output_reg' = Output_reg
    BY Zenon, <2>1, EdgeFacts DEF Shifted
  <2>4. Holds(Output_reg', 0, Strip, Pushed' + d, MAX_OUT_L + 1)
    BY Zenon, <2>1, <2>2, <2>3 DEF Aligned, InRegisters
  <2>5. LastText \in 0 .. MAX_OUT_L /\ MAX_OUT_L \in Nat /\ (texts = <<>> => Len(Strip) = 0)
    BY Zenon, Numbers
  <2>6. /\ Len(Strip) <= Pushed' + d + LastText + 1
        /\ d = 0 => Len(Strip) = Pushed'
        /\ d = 1 => Len(Strip) <= Pushed' + 1 + LastText
        /\ Pushed' + d <= Len(Strip)
        /\ texts = <<>> => Pushed' + d = 0
    <3>1. Pushed' + d = Len(Strip) /\ Pushed' \in Nat /\ d \in Nat
      BY Zenon, <1>1, <2>2, InNat
    <3>2. QED
      <4>1. Len(Strip) \in Nat /\ LastText \in Nat
        BY Zenon, <1>1, <2>5, InNat
      <4>2. d = 0 => Len(Strip) = Pushed'
        BY <3>1
      <4>3. d = 1 => Len(Strip) <= Pushed' + 1 + LastText
        BY <3>1, <4>1
      <4>4. Len(Strip) <= Pushed' + d + LastText + 1
        BY <3>1, <4>1
      <4>5. Pushed' + d <= Len(Strip)
        BY <3>1, <4>1
      <4>6. texts = <<>> => Pushed' + d = 0
        BY Zenon, <2>5, <3>1
      <4>7. QED
        BY Zenon, <4>2, <4>3, <4>4, <4>5, <4>6
  <2>7. phase # "final"
    BY <1>4
  <2>8. AlignedNext(d)
    BY Zenon, <2>2, <2>4, <2>6, <2>7 DEF AlignedNext
  <2>9. QED
    BY Zenon, <2>8
<1>5. QED
  BY <1>1, <1>2, <1>3, <1>4

\* Conditions on the strip stay what they are while no text comes.
LEMMA StripKept ==
  ASSUME texts' = texts
  PROVE  /\ Spills' <=> Spills
         /\ Fits' <=> Fits
         /\ Strip' = Strip /\ LastText' = LastText
         /\ TextsGiven' <=> TextsGiven
BY Zenon DEF Spills, Fits, Strip, LastText, TextsGiven, Length, Stream, All

LEMMA AlignedAfter ==
  ASSUME TypeOK, TypeOK', TextsGiven, texts' = texts, NEW d \in 0 .. W, AlignedNext(d),
         phase \in {"images", "final"},
         phase' = phase \/ (phase = "images" /\ phase' = "final"),
         phase' = "final" => texts # <<>>
  PROVE  Aligned(d)'
<1>1. Strip' = Strip /\ LastText' = LastText
  BY Zenon, StripKept
<1>2. Pushed' \in Nat /\ Len(Strip) \in Nat
  <2>1. Len(stored') \in Nat
    BY DEF TypeOK
  <2>2. Pushed' \in Nat
    BY Zenon, <2>1, Times DEF Pushed
  <2>3. QED
    BY Zenon, <2>2, Numbers
<1>3. /\ d = sipo_reg_count' + 1 \/ (d = 0 /\ sipo_reg_count' = 0)
      /\ phase = "images" => Pushed' + d <= Len(Strip)
      /\ phase = "final" => Pushed' < Len(Strip) \/ (d = 0 /\ Pushed' = Len(Strip))
      /\ texts = <<>> => Pushed' + d = 0
  BY Zenon DEF AlignedNext
<1>4. Counted(d)'
  BY Zenon, <1>3 DEF Counted
<1>5. LastInOutput(d)'
  BY Zenon, <1>1 DEF AlignedNext, LastInOutput
<1>6. InRegisters(d)'
  BY Zenon, <1>1 DEF AlignedNext, InRegisters
<1>7. NotAhead(d)'
  <2>1. phase' = "images" => Pushed' + d <= Len(Strip)
    BY <1>3
  <2>2. phase' = "final" => Pushed' < Len(Strip) \/ (d = 0 /\ Pushed' = Len(Strip))
    BY <1>2, <1>3
  <2>3. QED
    BY Zenon, <1>1, <1>3, <2>1, <2>2 DEF NotAhead
<1>8. QED
  BY Zenon, <1>4, <1>5, <1>6, <1>7 DEF Aligned

LEMMA WordsExactIs == WordsExact <=> (phase = "stored" /\ ~Spills /\ Fits => Exactly)
BY Zenon DEF WordsExact, Exactly

LEMMA CycleInv == IInv /\ TypeOK' /\ (Cycle \/ FinalImage) => WordsInStep' /\ WordsExact'
<1> SUFFICES ASSUME IInv, TypeOK', Cycle \/ FinalImage
             PROVE  WordsInStep' /\ WordsExact'
  OBVIOUS
<1>1. TypeOK /\ TextsGiven /\ WordsInStep
  BY Zenon DEF IInv
<1>2. Edge(Shifted) /\ texts' = texts /\ phase \in {"images", "final"}
  BY Zenon DEF Cycle, FinalImage
<1>3. /\ Spills' <=> Spills
      /\ Fits' <=> Fits
  BY Zenon, <1>2, StripKept
<1>4. \/ phase' = phase /\ ~OCR_RX_done
      \/ phase = "images" /\ phase' = "final" /\ ~OCR_RX_done /\ texts # <<>>
      \/ phase = "final" /\ phase' = "stored" /\ OCR_RX_done
  <2>1. OCR_RX_done => phase = "final"
    BY Zenon DEF OCR_RX_done, final_im
  <2>2. "images" # "final"
    OBVIOUS
  <2>3. CASE Cycle
    <3>1. phase' = IF OCR_RX_done THEN "stored" ELSE phase
      BY Zenon, <2>3 DEF Cycle
    <3>2. QED
      BY Zenon, <2>1, <3>1
  <2>4. CASE FinalImage
    <3>1. phase = "images" /\ phase' = "final" /\ texts # <<>>
      BY Zenon, <2>4 DEF FinalImage
    <3>2. QED
      BY Zenon, <2>1, <2>2, <3>1
  <2>5. QED
    BY Zenon, <2>3, <2>4
<1>5. CASE Spills \/ ~Fits
  BY Zenon, <1>3, <1>5 DEF WordsInStep, WordsExact
<1>6. CASE ~Spills /\ Fits
  <2>1. PICK c \in 0 .. W : Aligned(c)
    BY Zenon, <1>1, <1>2, <1>6 DEF WordsInStep
  <2>2. phase = "final" => texts # <<>>
    BY Zenon, <2>1 DEF Aligned, NotAhead
  <2>3. CASE OCR_RX_done
    <3>1. phase = "final" /\ phase' = "stored"
      <4>1. phase = "final"
        BY Zenon, <2>3 DEF OCR_RX_done, final_im
      <4>2. QED
        BY Zenon, <1>4, <2>3, <4>1
    <3>2. Exactly'
      BY Zenon, <1>1, <1>2, <1>6, <2>1, <2>3, <3>1, LastWord
    <3>3. WordsExact'
      BY Zenon, <3>2 DEF WordsExact, Exactly
    <3>4. "stored" \notin {"images", "final"}
      OBVIOUS
    <3>5. WordsInStep'
      BY Zenon, <3>1, <3>4 DEF WordsInStep
    <3>6. QED
      BY Zenon, <3>3, <3>5
  <2>4. CASE ~OCR_RX_done
    <3>1. PICK d \in 0 .. W : AlignedNext(d)
      BY Zenon, <1>1, <1>2, <1>6, <2>1, <2>4, CycleAligned
    <3>2. /\ phase' = phase \/ (phase = "images" /\ phase' = "final")
          /\ phase' = "final" => texts # <<>>
      BY Zenon, <1>4, <2>2, <2>4
    <3>3. Aligned(d)'
      BY Zenon, <1>1, <1>2, <3>1, <3>2, AlignedAfter
    <3>4. WordsInStep'
      BY Zenon, <3>3 DEF WordsInStep
    <3>5. phase' # "stored"
      BY <1>2, <3>2
    <3>6. WordsExact'
      BY Zenon, <3>5 DEF WordsExact
    <3>7. QED
      BY Zenon, <3>4, <3>6
  <2>5. QED
    BY Zenon, <2>3, <2>4
<1>7. QED
  BY Zenon, <1>5, <1>6

\* The strip with one plate more.
LEMMA OneMore ==
  ASSUME TypeOK, NEW n \in 1 .. MAX_OUT_L, Len(texts) + 1 \in 1 .. MaxPlates,
         NEW x, x = PlateText(Len(texts) + 1, n), texts' = Append(texts, x)
  PROVE  /\ x \in Text /\ Len(x) = n /\ Strip \in Text /\ Len(Strip) \in Nat
         /\ Strip' = Strip \o (<<NULL_CHAR>> \o Reverse(x))
         /\ LastText' = n /\ texts' # <<>>
         /\ Spills => Spills'
         /\ Fits' => Fits
<1>1. x \in Text /\ Len(x) = n
  BY Zenon, PlateTextFacts
<1>2. texts \in Seq(Text) /\ Len(texts) \in Nat
  BY DEF TypeOK
<1>3. /\ texts' \in Seq(Text) /\ Len(texts') = Len(texts) + 1 /\ texts'[Len(texts) + 1] = x
      /\ Len(texts) < Len(texts') /\ texts' # <<>>
  BY <1>1, <1>2
<1>4. Strip = StreamOf(texts, Len(texts)) /\ Strip' = StreamOf(texts', Len(texts'))
  BY Zenon, StreamIs DEF Strip, Stream, StreamOf, All
<1>5. Strip \in Text /\ Len(Strip) \in Nat
  <2>1. Len(texts) \in 0 .. Len(texts)
    BY <1>2
  <2>2. QED
    BY Zenon, <1>2, <1>4, <2>1, StreamType
<1>6. StreamOf(texts', Len(texts)) = Strip
  <2>1. Len(texts) \in 0 .. Len(texts)
    BY <1>2
  <2>2. QED
    BY Zenon, <1>1, <1>2, <1>4, <2>1, StreamKept
<1>7. Strip' = Strip \o (<<NULL_CHAR>> \o Reverse(x))
  <2>1. StreamOf(texts', Len(texts) + 1) =
          StreamOf(texts', Len(texts)) \o (<<NULL_CHAR>> \o Reverse(texts'[Len(texts) + 1]))
    BY Zenon, <1>2, <1>3, StreamNext
  <2>2. QED
    BY Zenon, <1>3, <1>4, <1>6, <2>1
<1>8. LastText' = n
  BY Zenon, <1>1, <1>3 DEF LastText, All
<1>9. ASSUME Spills
      PROVE  Spills'
  <2>1. PICK k \in 1 .. Len(texts) : Len(StreamOf(texts, k)) % W = 1
    BY Zenon, <1>9 DEF Spills, Length, Stream, StreamOf, All
  <2>2. k \in 0 .. Len(texts) /\ k \in 1 .. Len(texts')
    BY <1>2, <1>3
  <2>3. Len(StreamOf(texts', k)) % W = 1
    BY Zenon, <1>1, <1>2, <2>1, <2>2, StreamKept
  <2>4. QED
    BY Zenon, <2>2, <2>3 DEF Spills, Length, Stream, StreamOf, All
<1>10. ASSUME Fits'
       PROVE  Fits
  <2>1. Len(Strip') = Len(Strip) + (1 + n)
    <3>1. (<<NULL_CHAR>> \o Reverse(x)) \in Text /\ Len(<<NULL_CHAR>> \o Reverse(x)) = 1 + n
      BY Zenon, <1>1, PieceFacts
    <3>2. Strip \in Seq(Char) /\ (<<NULL_CHAR>> \o Reverse(x)) \in Seq(Char)
      BY Zenon, <1>5, <3>1 DEF Text
    <3>3. Len(Strip \o (<<NULL_CHAR>> \o Reverse(x)))
            = Len(Strip) + Len(<<NULL_CHAR>> \o Reverse(x))
      BY Zenon, <3>2, ConcatProperties
    <3>4. QED
      BY Zenon, <1>7, <3>1, <3>3
  <2>2. RESULT_RAM_DEPTH - 1 \in Nat
    BY WidthsAssumption
  <2>3. W * (RESULT_RAM_DEPTH - 1) \in Nat
    BY Zenon, <2>2, Times
  <2>4. Len(Strip') <= W * (RESULT_RAM_DEPTH - 1)
    BY Zenon, <1>10 DEF Fits, Length, Strip
  <2>5. Len(Strip) <= W * (RESULT_RAM_DEPTH - 1)
    BY <1>5, <2>1, <2>3, <2>4
  <2>6. QED
    BY Zenon, <2>5 DEF Fits, Length, Strip
<1>11. QED
  BY Zenon, <1>1, <1>3, <1>5, <1>7, <1>8, <1>9, <1>10

LEMMA HoldsLonger ==
  ASSUME NEW S \in Text, NEW P \in Text, NEW s, NEW a \in Int, NEW b \in Nat, NEW n \in Nat,
         b + n <= Len(S), Holds(s, a, S, b, n)
  PROVE  Holds(s, a, S \o P, b, n)
<1>1. S \in Seq(Char) /\ P \in Seq(Char) /\ Len(S) \in Nat /\ Len(P) \in Nat
  BY DEF Text
<1>2. Len(S \o P) = Len(S) + Len(P)
  BY Zenon, <1>1, ConcatProperties
<1>3. \A i \in 1 .. Len(S) + Len(P) :
        (S \o P)[i] = IF i <= Len(S) THEN S[i] ELSE P[i - Len(S)]
  BY Zenon, <1>1, ConcatProperties
<1>4. ASSUME NEW i \in 1 .. n
      PROVE  s[a + i] = Given(S \o P, b + i)
  <2>1. s[a + i] = Given(S, b + i)
    BY Zenon DEF Holds
  <2>2. b + i \in 1 .. Len(S) /\ b + i \in 1 .. Len(S) + Len(P) /\ b + i <= Len(S)
    BY <1>1
  <2>3. (S \o P)[b + i] = S[b + i]
    BY Zenon, <1>3, <2>2
  <2>4. b + i \in 1 .. Len(S \o P)
    BY Zenon, <1>2, <2>2
  <2>5. Given(S, b + i) = S[b + i] /\ Given(S \o P, b + i) = (S \o P)[b + i]
    BY Zenon, <2>2, <2>4 DEF Given
  <2>6. QED
    BY Zenon, <2>1, <2>3, <2>5
<1>5. QED
  BY Zenon, <1>4 DEF Holds

LEMMA UnpackHolds ==
  ASSUME NEW S \in Text, NEW x \in Text, Len(x) <= MAX_OUT_L
  PROVE  Holds(unpack_ocr_output_vector(x), 0, S \o (<<NULL_CHAR>> \o Reverse(x)), Len(S),
               MAX_OUT_L + 1)
<1> DEFINE P == <<NULL_CHAR>> \o Reverse(x)
           u == unpack_ocr_output_vector(x)
<1>1. P \in Seq(Char) /\ Len(P) = 1 + Len(x)
  BY Zenon, PieceFacts DEF Text
<1>2. \A i \in 1 .. MAX_OUT_L + 1 : u[i] = IF i <= 1 + Len(x) THEN P[i] ELSE NULL_CHAR
  BY Zenon, UnpackFacts
<1> HIDE DEF P, u
<1>3. S \in Seq(Char) /\ Len(S) \in Nat /\ Len(x) \in Nat /\ MAX_OUT_L \in Nat
  BY WidthsAssumption DEF Text
<1>4. Len(S \o P) = Len(S) + (1 + Len(x))
  <2>1. Len(S \o P) = Len(S) + Len(P)
    BY Zenon, <1>1, <1>3, ConcatProperties
  <2>2. QED
    BY Zenon, <1>1, <2>1
<1>5. \A i \in 1 .. Len(S) + Len(P) :
        (S \o P)[i] = IF i <= Len(S) THEN S[i] ELSE P[i - Len(S)]
  BY Zenon, <1>1, <1>3, ConcatProperties
<1>6. ASSUME NEW i \in 1 .. MAX_OUT_L + 1
      PROVE  u[0 + i] = Given(S \o P, Len(S) + i)
  <2>1. 0 + i = i /\ (Len(S) + i) - Len(S) = i /\ ~(Len(S) + i <= Len(S))
    BY <1>3
  <2>2. CASE i <= 1 + Len(x)
    <3>1. Len(S) + i \in 1 .. Len(S) + (1 + Len(x))
      BY <1>3, <2>2
    <3>2. (S \o P)[Len(S) + i] = P[i]
      BY Zenon, <1>1, <1>5, <2>1, <3>1
    <3>3. Given(S \o P, Len(S) + i) = P[i]
      BY Zenon, <1>4, <3>1, <3>2 DEF Given
    <3>4. QED
      BY Zenon, <1>2, <2>1, <2>2, <3>3
  <2>3. CASE ~(i <= 1 + Len(x))
    <3>1. Len(S) + i \notin 1 .. Len(S) + (1 + Len(x))
      BY <1>3, <2>3
    <3>2. Given(S \o P, Len(S) + i) = NULL_CHAR
      BY Zenon, <1>4, <3>1 DEF Given
    <3>3. QED
      BY Zenon, <1>2, <2>1, <2>3, <3>2
  <2>4. QED
    BY <2>2, <2>3
<1>7. QED
  BY Zenon, <1>6 DEF Holds, P, u

LEMMA ValidOutputInv == IInv /\ TypeOK' /\ ValidOutput => TextsGiven' /\ WordsInStep' /\ WordsExact'
<1> SUFFICES ASSUME IInv, TypeOK', ValidOutput
             PROVE  TextsGiven' /\ WordsInStep' /\ WordsExact'
  OBVIOUS
<1>1. TypeOK /\ TextsGiven /\ WordsInStep
  BY Zenon DEF IInv
<1>2. PICK n \in 1 .. MAX_OUT_L :
        /\ Len(texts) + 1 \in 1 .. MaxPlates
        /\ texts' = Append(texts, PlateText(Len(texts) + 1, n))
        /\ Edge(unpack_ocr_output_vector(PlateText(Len(texts) + 1, n)))
        /\ phase = "images" /\ phase' = "images" /\ comper_last_2
  BY Zenon, <1>1, ValidOutputFacts
<1> DEFINE x == PlateText(Len(texts) + 1, n)
           P == <<NULL_CHAR>> \o Reverse(x)
<1>3. texts' = Append(texts, x) /\ Edge(unpack_ocr_output_vector(x))
  BY Zenon, <1>2
<1>4. /\ x \in Text /\ Len(x) = n /\ Strip \in Text /\ Len(Strip) \in Nat
      /\ Strip' = Strip \o P
      /\ LastText' = n /\ texts' # <<>>
      /\ Spills => Spills'
      /\ Fits' => Fits
  BY Zenon, <1>1, <1>2, OneMore
<1>5. TextsGiven'
  <2>1. texts \in Seq(Text) /\ Len(texts) \in Nat
    BY <1>1 DEF TypeOK
  <2>2. Len(texts') = Len(texts) + 1 /\ texts'[Len(texts) + 1] = x
    BY <1>3, <1>4, <2>1
  <2>3. ASSUME NEW k \in 1 .. Len(texts')
        PROVE  \E m \in 1 .. MAX_OUT_L : texts'[k] = PlateText(k, m)
    <3>1. CASE k \in 1 .. Len(texts)
      <4>1. texts'[k] = texts[k]
        BY <1>3, <1>4, <2>1, <3>1
      <4>2. \E m \in 1 .. MAX_OUT_L : texts[k] = PlateText(k, m)
        BY Zenon, <1>1, <3>1 DEF TextsGiven, All, PlateText
      <4>3. QED
        BY Zenon, <4>1, <4>2
    <3>2. CASE k \notin 1 .. Len(texts)
      <4>1. k = Len(texts) + 1
        BY <2>1, <2>2, <3>2
      <4>2. QED
        BY Zenon, <2>2, <4>1
    <3>3. QED
      BY <3>1, <3>2
  <2>4. QED
    BY Zenon, <2>3 DEF TextsGiven, All, PlateText
<1>6. WordsExact'
  <2>1. phase' # "stored"
    BY <1>2
  <2>2. QED
    BY Zenon, <2>1 DEF WordsExact
<1>7. ASSUME ~Spills', Fits'
      PROVE  \E d \in 0 .. W : Aligned(d)'
  <2>1. PICK c \in 0 .. W : Aligned(c)
    BY Zenon, <1>1, <1>2, <1>4, <1>7 DEF WordsInStep
  <2>2. Pushed \in Nat /\ W \in Nat /\ (texts = <<>> => Len(Strip) = 0)
    BY Zenon, <1>1, Numbers
  <2>3. Len(Strip) <= Pushed + c
    <3>1. LastInOutput(c) /\ Holds(Output_reg, 0, Strip, Pushed + c, MAX_OUT_L + 1)
      BY Zenon, <2>1 DEF Aligned, InRegisters
    <3>2. ~(Len(Strip) > Pushed + c)
      BY Zenon, <1>1, <1>2, <2>2, <3>1, Ahead
    <3>3. QED
      BY <1>4, <2>2, <3>2
  <2> DEFINE u == unpack_ocr_output_vector(x)
  <2>4. Edge(u)
    BY Zenon, <1>3
  <2>5. Len(Strip) = Pushed + c
    BY Zenon, <1>1, <1>2, <1>4, <1>7, <2>1, <2>3, <2>4, Waits
  <2>6. PICK d \in 0 .. W :
          /\ d = sipo_reg_count' + 1 \/ (d = 0 /\ sipo_reg_count' = 0)
          /\ Pushed' + d = Len(Strip) /\ Pushed' \in Nat /\ (d = 1 => c = 1)
          /\ LC_reg' = Len(stored') /\ Len(FlattenSeq(stored')) = Pushed'
          /\ Holds(FlattenSeq(stored'), 0, Strip, 0, Pushed')
          /\ Holds(sipo_reg', W - d, Strip, Pushed', d)
    BY Zenon, <1>1, <1>2, <1>4, <1>7, <2>1, <2>3, <2>4, Waits
  <2>7. d # 1
    <3>1. SUFFICES ASSUME c = 1 PROVE FALSE
      BY Zenon, <2>6
    <3>2. Len(Strip) = Pushed + 1 /\ texts # <<>>
      BY <2>2, <2>5, <3>1
    <3>3. QED
      BY Zenon, <1>1, <1>4, <1>7, <3>2, NotOneOver
  <2>8. n <= MAX_OUT_L /\ n \in Nat /\ d \in Nat /\ W - d \in Int
    BY <2>2
  <2>9. P \in Text /\ Len(P) = 1 + n
    BY Zenon, <1>4, PieceFacts
  <2>10. Len(Strip') = Len(Strip) + (1 + n)
    <3>1. Strip \in Seq(Char) /\ P \in Seq(Char)
      BY Zenon, <1>4, <2>9 DEF Text
    <3>2. Len(Strip \o P) = Len(Strip) + Len(P)
      BY Zenon, <3>1, ConcatProperties
    <3>3. QED
      BY Zenon, <1>4, <2>9, <3>2
  <2>11. Holds(Output_reg', 0, Strip', Pushed' + d, MAX_OUT_L + 1)
    <3>1. Output_reg' = u
      BY Zenon, <2>4, EdgeFacts
    <3>2. Holds(u, 0, Strip \o P, Len(Strip), MAX_OUT_L + 1)
      BY Zenon, <1>4, <2>8, UnpackHolds
    <3>3. QED
      BY Zenon, <1>4, <2>6, <3>1, <3>2
  <2> HIDE DEF x, P, u
  <2>12. Holds(FlattenSeq(stored'), 0, Strip', 0, Pushed')
    <3>1. 0 \in Int /\ 0 \in Nat /\ 0 + Pushed' <= Len(Strip) /\ Pushed' \in Nat
      <4>1. Pushed' + d = Len(Strip) /\ Pushed' \in Nat
        BY Zenon, <2>6
      <4>2. QED
        BY <2>8, <4>1
    <3>2. QED
      BY Zenon, <1>4, <2>6, <2>9, <3>1, HoldsLonger
  <2>13. Holds(sipo_reg', W - d, Strip', Pushed', d)
    <3>1. Pushed' + d <= Len(Strip)
      <4>1. Pushed' + d = Len(Strip)
        BY Zenon, <2>6
      <4>2. QED
        BY <1>4, <4>1
    <3>2. QED
      BY Zenon, <1>4, <2>6, <2>8, <2>9, <3>1, HoldsLonger
  <2>14. /\ Len(Strip') <= Pushed' + d + LastText' + 1
         /\ d = 0 => Len(Strip') = Pushed' + LastText' + 1
         /\ Pushed' + d <= Len(Strip')
    <3>1. Pushed' + d = Len(Strip) /\ Pushed' \in Nat /\ LastText' = n
      BY Zenon, <1>4, <2>6
    <3>2. Len(Strip) \in Nat
      BY Zenon, <1>4
    <3>3. Len(Strip') <= Pushed' + d + LastText' + 1
      <4>1. Len(Strip) + (1 + n) <= Len(Strip) + n + 1
        BY <2>8, <3>2
      <4>2. QED
        BY Zenon, <2>10, <3>1, <4>1
    <3>4. d = 0 => Len(Strip') = Pushed' + LastText' + 1
      <4>1. Len(Strip) + (1 + n) = Len(Strip) + n + 1
        BY <2>8, <3>2
      <4>2. d = 0 => Pushed' = Len(Strip)
        BY <3>1
      <4>3. QED
        BY Zenon, <2>10, <3>1, <4>1, <4>2
    <3>5. Pushed' + d <= Len(Strip')
      <4>1. Len(Strip) <= Len(Strip) + (1 + n)
        BY <2>8, <3>2
      <4>2. QED
        BY Zenon, <2>10, <3>1, <4>1
    <3>6. QED
      BY <3>3, <3>4, <3>5
  <2>15. LastInOutput(d)' /\ Counted(d)'
    BY Zenon, <1>4, <2>6, <2>7, <2>14 DEF LastInOutput, Counted
  <2>16. NotAhead(d)'
    <3>1. phase' # "final"
      BY <1>2
    <3>2. QED
      BY Zenon, <1>4, <2>14, <3>1 DEF NotAhead
  <2>17. InRegisters(d)'
    BY Zenon, <2>6, <2>11, <2>12, <2>13 DEF InRegisters
  <2>18. Aligned(d)'
    BY Zenon, <2>15, <2>16, <2>17 DEF Aligned
  <2>19. QED
    BY Zenon, <2>18
<1>8. WordsInStep'
  BY Zenon, <1>7 DEF WordsInStep
<1>9. QED
  BY Zenon, <1>5, <1>6, <1>8

LEMMA SmallLen == Len(<<>>) = 0
OBVIOUS

LEMMA EmptyTexts == <<>> \in Seq(Text)
OBVIOUS

LEMMA InitInv == Init => IInv
<1> SUFFICES ASSUME Init PROVE IInv
  OBVIOUS
<1>1. TypeOK
  BY Zenon, InitType
<1>2. /\ Output_reg = Nulls(MAX_OUT_L + 1) /\ sipo_reg_count = 0 /\ LC_reg = 0 /\ stored = <<>>
      /\ phase = "images" /\ texts = <<>> /\ Len(<<>>) = 0
  BY Zenon, SmallLen DEF Init
<1>3. W \in Nat /\ W > 1 /\ MAX_OUT_L \in Nat /\ W * 0 = 0
  BY WidthsAssumption
<1>4. TextsGiven
  BY <1>2 DEF TextsGiven, All
<1>5. Strip = <<>> /\ Len(Strip) = 0 /\ Pushed = 0 /\ LastText = 0
  <2>1. Strip = <<>>
    BY Zenon, <1>2, StreamIs, EmptyTexts, StreamEmpty DEF Strip
  <2>2. Pushed = 0
    BY Zenon, <1>2, <1>3 DEF Pushed
  <2>3. LastText = 0
    BY Zenon, <1>2 DEF LastText
  <2>4. QED
    BY Zenon, <1>2, <2>1, <2>2, <2>3
<1>6. FlattenSeq(stored) = <<>>
  BY Zenon, <1>2, FlattenEmpty
<1>7. Holds(Output_reg, 0, Strip, 0 + 0, MAX_OUT_L + 1)
  <2>1. ASSUME NEW i \in 1 .. MAX_OUT_L + 1
        PROVE  Output_reg[0 + i] = Given(Strip, (0 + 0) + i)
    <3>1. 0 + i = i /\ (0 + 0) + i \notin 1 .. 0
      OBVIOUS
    <3>2. Output_reg[i] = NULL_CHAR
      BY Zenon, <1>2 DEF Nulls
    <3>3. Given(Strip, (0 + 0) + i) = NULL_CHAR
      BY Zenon, <1>5, <3>1 DEF Given
    <3>4. QED
      BY Zenon, <3>1, <3>2, <3>3
  <2>2. QED
    BY Zenon, <2>1 DEF Holds
<1>8. Holds(FlattenSeq(stored), 0, Strip, 0, 0) /\ Holds(sipo_reg, W - 0, Strip, 0, 0)
  BY DEF Holds
<1>9. Aligned(0)
  <2>1. Counted(0)
    BY <1>2 DEF Counted
  <2>2. LastInOutput(0)
    BY <1>5 DEF LastInOutput
  <2>3. NotAhead(0)
    BY <1>2, <1>5 DEF NotAhead
  <2>4. InRegisters(0)
    BY Zenon, <1>2, <1>5, <1>6, <1>7, <1>8 DEF InRegisters
  <2>5. QED
    BY Zenon, <2>1, <2>2, <2>3, <2>4 DEF Aligned
<1>10. WordsInStep
  <2>1. 0 \in 0 .. W
    BY <1>3
  <2>2. QED
    BY Zenon, <1>9, <2>1 DEF WordsInStep
<1>11. WordsExact
  BY <1>2 DEF WordsExact
<1>12. QED
  BY Zenon, <1>1, <1>4, <1>10, <1>11 DEF IInv

LEMMA NextInv == IInv /\ [Next]_vars => IInv'
<1> SUFFICES ASSUME IInv, [Next]_vars PROVE IInv'
  OBVIOUS
<1>1. TypeOK /\ TextsGiven /\ WordsInStep /\ WordsExact
  BY Zenon DEF IInv
<1>2. TypeOK'
  BY Zenon, <1>1, NextType
<1>3. CASE ValidOutput
  BY Zenon, <1>2, <1>3, ValidOutputInv DEF IInv
<1>4. CASE Cycle \/ FinalImage
  <2>1. texts' = texts
    BY Zenon, <1>4 DEF Cycle, FinalImage
  <2>2. TextsGiven'
    BY Zenon, <1>1, <2>1, StripKept
  <2>3. QED
    BY Zenon, <1>2, <1>4, <2>2, CycleInv DEF IInv
<1>5. CASE receiveResultStrings
  <2>1. phase' = "fetched" /\ texts' = texts
    BY Zenon, <1>5 DEF receiveResultStrings
  <2>2. phase' \notin {"images", "final"} /\ phase' # "stored"
    BY <2>1
  <2>3. TextsGiven'
    BY Zenon, <1>1, <2>1, StripKept
  <2>4. QED
    BY Zenon, <1>2, <2>2, <2>3 DEF IInv, WordsInStep, WordsExact
<1>6. CASE Clear
  <2>1. Init'
    BY Zenon, <1>6 DEF Clear, Cleared, Init
  <2>2. Init' => IInv'
    BY InitInv, PTL
  <2>3. QED
    BY <2>1, <2>2
<1>7. CASE UNCHANGED vars
  <2>1. /\ Output_reg' = Output_reg /\ sipo_reg' = sipo_reg /\ texts' = texts
        /\ sipo_reg_count' = sipo_reg_count /\ LC_reg' = LC_reg /\ stored' = stored
        /\ phase' = phase
    BY <1>7 DEF vars, regs
  <2>2. /\ Spills' <=> Spills
        /\ Fits' <=> Fits
        /\ Strip' = Strip /\ LastText' = LastText
        /\ TextsGiven' <=> TextsGiven
    BY Zenon, <2>1, StripKept
  <2>3. Pushed' = Pushed
    BY Zenon, <2>1 DEF Pushed
  <2>4. ASSUME NEW c \in 0 .. W, Aligned(c)
        PROVE  Aligned(c)'
    BY Zenon, <2>1, <2>2, <2>3, <2>4
       DEF Aligned, Counted, LastInOutput, NotAhead, InRegisters
  <2>5. WordsInStep'
    BY Zenon, <1>1, <2>1, <2>2, <2>4 DEF WordsInStep
  <2>6. Exactly => Exactly'
    BY Zenon, <2>1 DEF Exactly, Length, Stream, All
  <2>7. WordsExact'
    BY Zenon, <1>1, <2>1, <2>2, <2>6 DEF WordsExact, Exactly
  <2>8. QED
    BY Zenon, <1>1, <1>2, <2>2, <2>5, <2>7 DEF IInv
<1>8. QED
  BY Zenon, <1>3, <1>4, <1>5, <1>6, <1>7 DEF Next

-----------------------------------------------------------------------------
(* What the software reads.  Received, the words are turned round: slot i of word j,   *)
(* counted from 0, has what the strip has in slot W + 1 - i of it.                     *)

EndOf(t, k) == Len(StreamOf(t, k))

\* The characters read, of m words, for texts each of which is in one word with its null.
Layout(t, chars, m) ==
  /\ t \in Seq(Text) /\ chars \in Seq(Char) /\ m \in Nat
  /\ \A k \in 1 .. Len(t) : Len(t[k]) > 0 /\ \A i \in 1 .. Len(t[k]) : t[k][i] # NULL_CHAR
  /\ Len(chars) = W * m /\ EndOf(t, Len(t)) <= W * m
  /\ \A j \in 0 .. m - 1 : \A i \in 1 .. W :
       chars[W * j + i] = Given(StreamOf(t, Len(t)), W * j + ((W + 1) - i))
  /\ \A k \in 1 .. Len(t) : (EndOf(t, k) - 1) \div W = EndOf(t, k - 1) \div W

\* Text k is after the texts before it, and a null.
TextAfter(t, k) ==
  /\ EndOf(t, k - 1) \in Nat /\ Len(t[k]) \in Nat /\ Len(t[k]) > 0
  /\ EndOf(t, k) = EndOf(t, k - 1) + 1 + Len(t[k])
  /\ \A i \in 1 .. EndOf(t, k - 1) : StreamOf(t, k)[i] = StreamOf(t, k - 1)[i]
  /\ StreamOf(t, k)[EndOf(t, k - 1) + 1] = NULL_CHAR
  /\ \A i \in 1 .. Len(t[k]) :
       /\ StreamOf(t, k)[EndOf(t, k - 1) + 1 + i] = t[k][(Len(t[k]) - i) + 1]
       /\ StreamOf(t, k)[EndOf(t, k - 1) + 1 + i] # NULL_CHAR

LEMMA TextEnds ==
  ASSUME NEW t, NEW chars, NEW m, Layout(t, chars, m), NEW k \in 1 .. Len(t)
  PROVE  TextAfter(t, k)
<1> DEFINE n == Len(t[k])
           h == k - 1
<1>1. t \in Seq(Text) /\ n > 0 /\ \A i \in 1 .. n : t[k][i] # NULL_CHAR
  BY Zenon DEF Layout
<1>2. h \in Nat /\ h < Len(t) /\ h + 1 = k /\ Len(t[k]) \in Nat
  <2>1. Len(t) \in Nat /\ t[k] \in Text
    BY <1>1
  <2>2. QED
    BY <2>1 DEF Text
<1>3. n \in Nat /\ Len(t[h + 1]) = n /\ \A i \in 1 .. n : t[h + 1][i] # NULL_CHAR
  BY Zenon, <1>1, <1>2
<1> HIDE DEF n, h
<1>4. /\ Len(StreamOf(t, h + 1)) = Len(StreamOf(t, h)) + 1 + n
      /\ Len(StreamOf(t, h)) \in Nat
      /\ \A i \in 1 .. Len(StreamOf(t, h)) : StreamOf(t, h + 1)[i] = StreamOf(t, h)[i]
      /\ StreamOf(t, h + 1)[Len(StreamOf(t, h)) + 1] = NULL_CHAR
      /\ \A i \in 1 .. n :
           /\ StreamOf(t, h + 1)[Len(StreamOf(t, h)) + 1 + i] = t[h + 1][(n - i) + 1]
           /\ StreamOf(t, h + 1)[Len(StreamOf(t, h)) + 1 + i] # NULL_CHAR
  BY Zenon, <1>1, <1>2, <1>3, StreamEnd
<1>5. QED
  BY Zenon, <1>1, <1>2, <1>4 DEF TextAfter, EndOf, n, h

\* The texts of the plates before do not change with the ones after.
LEMMA StreamPrefix ==
  ASSUME NEW t, NEW chars, NEW m, Layout(t, chars, m), NEW k \in 0 .. Len(t)
  PROVE  /\ EndOf(t, k) \in Nat /\ EndOf(t, k) <= EndOf(t, Len(t)) /\ EndOf(t, Len(t)) \in Nat
         /\ \A i \in 1 .. EndOf(t, k) : StreamOf(t, Len(t))[i] = StreamOf(t, k)[i]
<1> DEFINE K == Len(t)
           P(h) == /\ EndOf(t, h) <= EndOf(t, K)
                   /\ \A i \in 1 .. EndOf(t, h) : StreamOf(t, K)[i] = StreamOf(t, h)[i]
           T == {d \in 0 .. K : ~P(K - d)}
<1>1. t \in Seq(Text)
  BY Zenon DEF Layout
<1>2. K \in Nat
  BY <1>1
<1>3. \A h \in 0 .. K : EndOf(t, h) \in Nat
  BY Zenon, <1>1, StreamType DEF EndOf
<1>4. T = {}
  <2>1. SUFFICES ASSUME T # {} PROVE FALSE
    OBVIOUS
  <2>2. T \subseteq Nat
    OBVIOUS
  <2>3. PICK d \in T : \A a \in T : d <= a
    BY Zenon, <2>1, <2>2, LeastNumber
  <2>4. d \in 0 .. K /\ ~P(K - d)
    BY Zenon, <2>3
  <2>5. d # 0
    <3>1. K - 0 = K /\ EndOf(t, K) <= EndOf(t, K)
      <4>1. EndOf(t, K) \in Nat
        BY <1>2, <1>3
      <4>2. QED
        BY <1>2, <4>1
    <3>2. P(K - 0)
      BY Zenon, <3>1
    <3>3. QED
      BY Zenon, <2>4, <3>2
  <2>6. d - 1 \in 0 .. K /\ ~(d <= d - 1) /\ K - (d - 1) \in 1 .. K /\ (K - (d - 1)) - 1 = K - d
        /\ K - d \in 0 .. K /\ K - (d - 1) \in 0 .. K
    BY <1>2, <2>4, <2>5
  <2>7. P(K - (d - 1))
    BY Zenon, <2>3, <2>6
  <2> DEFINE g == K - (d - 1)
  <2>8. /\ EndOf(t, g) = EndOf(t, K - d) + 1 + Len(t[g]) /\ Len(t[g]) \in Nat
        /\ \A i \in 1 .. EndOf(t, K - d) : StreamOf(t, g)[i] = StreamOf(t, K - d)[i]
    <3> DEFINE h == K - (d - 1)
    <3>1. h \in 1 .. Len(t) /\ h - 1 = K - d
      BY Zenon, <2>6
    <3> HIDE DEF h
    <3>2. TextAfter(t, h)
      BY Zenon, <3>1, TextEnds
    <3>3. QED
      BY Zenon, <3>1, <3>2 DEF TextAfter, h
  <2>9. EndOf(t, g) \in Nat /\ EndOf(t, K - d) \in Nat /\ EndOf(t, K) \in Nat
    BY <1>2, <1>3, <2>6
  <2>10. P(g)
    BY Zenon, <2>7
  <2> HIDE DEF g
  <2>11. EndOf(t, K - d) <= EndOf(t, g)
    BY <2>8, <2>9
  <2>12. EndOf(t, K - d) <= EndOf(t, K)
    <3>1. EndOf(t, g) <= EndOf(t, K)
      BY Zenon, <2>10
    <3>2. QED
      BY <2>9, <2>11, <3>1
  <2>13. \A i \in 1 .. EndOf(t, K - d) : i \in 1 .. EndOf(t, g)
    BY <2>9, <2>11
  <2>14. \A i \in 1 .. EndOf(t, K - d) : StreamOf(t, K)[i] = StreamOf(t, K - d)[i]
    BY Zenon, <2>8, <2>10, <2>13
  <2>15. QED
    BY Zenon, <2>4, <2>12, <2>14
<1>5. P(k)
  <2>1. K - k \in 0 .. K /\ K - (K - k) = k
    BY <1>2
  <2>2. K - k \notin T
    BY Zenon, <1>4
  <2>3. P(K - (K - k))
    BY Zenon, <2>1, <2>2
  <2>4. QED
    BY Zenon, <2>1, <2>3
<1>6. EndOf(t, k) \in Nat /\ EndOf(t, K) \in Nat
  BY <1>2, <1>3
<1>7. QED
  BY Zenon, <1>5, <1>6

\* Where the text of plate k is in the strip: after a null, and before one.
LEMMA TextInStrip ==
  ASSUME NEW t, NEW chars, NEW m, Layout(t, chars, m), NEW k \in 1 .. Len(t)
  PROVE  LET S == StreamOf(t, Len(t))
             a == EndOf(t, k - 1)
             n == Len(t[k])
         IN  /\ Given(S, a + 1) = NULL_CHAR
             /\ \A i \in 1 .. n : Given(S, a + 1 + i) = t[k][(n - i) + 1]
             /\ \A i \in 1 .. n : Given(S, a + 1 + i) # NULL_CHAR
<1> DEFINE S == StreamOf(t, Len(t))
           a == EndOf(t, k - 1)
           n == Len(t[k])
<1>0. k \in 0 .. Len(t)
  <2>1. t \in Seq(Text)
    BY Zenon DEF Layout
  <2>2. QED
    BY <2>1
<1>1. /\ EndOf(t, k) \in Nat /\ EndOf(t, k) <= Len(S) /\ Len(S) \in Nat
      /\ \A i \in 1 .. EndOf(t, k) : S[i] = StreamOf(t, k)[i]
  BY Zenon, <1>0, StreamPrefix DEF EndOf
<1>2. /\ a \in Nat /\ n \in Nat /\ n > 0 /\ EndOf(t, k) = a + 1 + n
      /\ StreamOf(t, k)[a + 1] = NULL_CHAR
      /\ \A i \in 1 .. n :
           /\ StreamOf(t, k)[a + 1 + i] = t[k][(n - i) + 1]
           /\ StreamOf(t, k)[a + 1 + i] # NULL_CHAR
  <2>1. TextAfter(t, k)
    BY Zenon, TextEnds
  <2>2. QED
    BY Zenon, <2>1 DEF TextAfter
<1> HIDE DEF S, a, n
<1>3. a + 1 \in 1 .. EndOf(t, k) /\ a + 1 \in 1 .. Len(S)
  BY <1>1, <1>2
<1>4. \A i \in 1 .. n : a + 1 + i \in 1 .. EndOf(t, k) /\ a + 1 + i \in 1 .. Len(S)
  BY <1>1, <1>2
<1>5. Given(S, a + 1) = NULL_CHAR
  BY Zenon, <1>1, <1>2, <1>3 DEF Given
<1>6. ASSUME NEW i \in 1 .. n
      PROVE  Given(S, a + 1 + i) = t[k][(n - i) + 1] /\ Given(S, a + 1 + i) # NULL_CHAR
  <2>1. Given(S, a + 1 + i) = StreamOf(t, k)[a + 1 + i]
    BY Zenon, <1>1, <1>4 DEF Given
  <2>2. QED
    BY Zenon, <1>2, <2>1
<1>7. QED
  BY Zenon, <1>5, <1>6 DEF S, a, n

LEMMA DivMod ==
  ASSUME NEW N \in Nat
  PROVE  /\ N \div W \in Nat /\ N % W \in 0 .. W - 1
         /\ N = W * (N \div W) + (N % W)
<1> DEFINE d == N \div W
           r == N % W
<1>1. W \in Nat /\ W > 0
  BY WidthsAssumption
<1>2. N = W * d + r /\ d \in Int /\ r \in 0 .. W - 1
  BY <1>1
<1> HIDE DEF d, r
<1>3. d \in Nat
  <2>1. SUFFICES ASSUME d < 0 PROVE FALSE
    BY <1>2
  <2>2. (0 - d) - 1 \in Nat /\ d \in Int
    BY <1>2, <2>1
  <2>3. W * ((0 - d) - 1) \in Nat
    BY <1>1, <2>2
  <2>4. W * d = (0 - W) - W * ((0 - d) - 1)
    BY <1>1, <2>2
  <2>5. QED
    BY <1>1, <1>2, <2>3, <2>4
<1>4. QED
  BY Zenon, <1>2, <1>3 DEF d, r

\* Which word has the text, and how many characters are in front of its null.
WordOf(t, k) == EndOf(t, k - 1) \div W
SlotOf(t, k) == EndOf(t, k - 1) % W

InOneWord(t, k, m) ==
  /\ WordOf(t, k) \in 0 .. m - 1 /\ SlotOf(t, k) \in 0 .. W - 1
  /\ EndOf(t, k - 1) = W * WordOf(t, k) + SlotOf(t, k)
  /\ SlotOf(t, k) + Len(t[k]) <= W - 1

LEMMA TextInWord ==
  ASSUME NEW t, NEW chars, NEW m, Layout(t, chars, m), NEW k \in 1 .. Len(t)
  PROVE  InOneWord(t, k, m)
<1> DEFINE a == EndOf(t, k - 1)
           b == EndOf(t, k)
           n == Len(t[k])
           j == WordOf(t, k)
           q == SlotOf(t, k)
<1>1. a \in Nat /\ n \in Nat /\ n > 0 /\ b = a + 1 + n
  BY Zenon, TextEnds DEF TextAfter
<1>2. m \in Nat /\ b <= W * m /\ (b - 1) \div W = a \div W
  <2>1. m \in Nat /\ (b - 1) \div W = a \div W /\ EndOf(t, Len(t)) <= W * m
    BY Zenon DEF Layout
  <2>2. k \in 0 .. Len(t)
    OBVIOUS
  <2>3. EndOf(t, k) <= EndOf(t, Len(t)) /\ EndOf(t, Len(t)) \in Nat
    BY Zenon, <2>2, StreamPrefix
  <2>4. W * m \in Nat
    BY Zenon, <2>1, Times
  <2>5. b <= W * m
    BY <1>1, <2>1, <2>3, <2>4
  <2>6. QED
    BY Zenon, <2>1, <2>5
<1>3. j \in Nat /\ q \in 0 .. W - 1 /\ a = W * j + q
  BY Zenon, <1>1, DivMod DEF WordOf, SlotOf
<1> DEFINE r == (b - 1) % W
<1>4. r \in 0 .. W - 1 /\ b - 1 = W * j + r
  <2>1. b - 1 \in Nat
    BY <1>1
  <2>2. r \in 0 .. W - 1 /\ b - 1 = W * ((b - 1) \div W) + r
    BY Zenon, <2>1, DivMod
  <2>3. QED
    BY Zenon, <1>2, <2>2 DEF WordOf
<1> HIDE DEF a, b, n, j, q, r
<1>5. W * j \in Nat /\ W * m \in Nat /\ W \in Nat
  BY <1>2, <1>3, Times, WidthsAssumption
<1>6. q + n <= W - 1
  BY <1>1, <1>3, <1>4, <1>5
<1>7. j < m
  <2>1. W * j < W * m
    BY <1>1, <1>2, <1>3, <1>5
  <2>2. QED
    BY Zenon, <1>2, <1>3, <2>1, Fewer
<1>8. j \in 0 .. m - 1
  BY <1>2, <1>3, <1>7
<1>9. QED
  BY Zenon, <1>3, <1>6, <1>8 DEF InOneWord, a, n, j, q

\* Every character of the strip is the null of a text, or one of its characters.
LEMMA TextFound ==
  ASSUME NEW t, NEW chars, NEW m, Layout(t, chars, m), NEW p \in 1 .. EndOf(t, Len(t))
  PROVE  \E k \in 1 .. Len(t) : EndOf(t, k - 1) < p /\ p <= EndOf(t, k)
<1> DEFINE K == Len(t)
           T == {k \in 0 .. K : p <= EndOf(t, k)}
<1>1. t \in Seq(Text) /\ K \in Nat
  <2>1. t \in Seq(Text)
    BY Zenon DEF Layout
  <2>2. QED
    BY <2>1
<1>2. \A k \in 0 .. K : EndOf(t, k) \in Nat
  BY Zenon, <1>1, StreamType DEF EndOf
<1>3. K \in T /\ T \subseteq Nat
  <2>1. EndOf(t, K) \in Nat /\ K \in 0 .. K
    BY <1>1, <1>2
  <2>2. p <= EndOf(t, K)
    BY <2>1
  <2>3. QED
    BY <2>1, <2>2
<1>4. PICK k \in T : \A a \in T : k <= a
  <2>1. T # {}
    BY Zenon, <1>3
  <2>2. QED
    BY Zenon, <1>3, <2>1, LeastNumber
<1>5. k \in 0 .. K /\ p <= EndOf(t, k)
  BY Zenon, <1>4
<1>6. EndOf(t, 0) = 0
  <2>1. StreamOf(t, 0) = <<>>
    BY Zenon, <1>1, StreamEmpty
  <2>2. QED
    BY Zenon, <2>1, SmallLen DEF EndOf
<1>7. p \in Nat /\ p > 0
  <2>1. EndOf(t, K) \in Nat
    BY <1>1, <1>2
  <2>2. QED
    BY <2>1
<1>8. k # 0
  BY <1>5, <1>6, <1>7
<1>9. k \in 1 .. K /\ k - 1 \in 0 .. K /\ ~(k <= k - 1)
  BY <1>1, <1>5, <1>8
<1>10. ~(p <= EndOf(t, k - 1))
  BY Zenon, <1>4, <1>9
<1>11. EndOf(t, k - 1) < p
  <2>1. EndOf(t, k - 1) \in Nat
    BY Zenon, <1>2, <1>9
  <2>2. QED
    BY <1>7, <1>10, <2>1
<1>12. QED
  BY Zenon, <1>5, <1>9, <1>11

\* A null follows every text.
LEMMA NullAfter ==
  ASSUME NEW t, NEW chars, NEW m, Layout(t, chars, m), NEW k \in 1 .. Len(t)
  PROVE  Given(StreamOf(t, Len(t)), EndOf(t, k) + 1) = NULL_CHAR
<1> DEFINE S == StreamOf(t, Len(t))
<1>1. t \in Seq(Text) /\ Len(t) \in Nat
  <2>1. t \in Seq(Text)
    BY Zenon DEF Layout
  <2>2. QED
    BY <2>1
<1>2. CASE k = Len(t)
  <2>1. EndOf(t, k) = Len(S)
    BY Zenon, <1>2 DEF EndOf
  <2>2. Len(S) \in Nat
    <3>1. Len(t) \in 0 .. Len(t)
      BY <1>1
    <3>2. QED
      BY Zenon, <1>1, <3>1, StreamType
  <2>3. Len(S) + 1 \notin 1 .. Len(S)
    BY <2>2
  <2>4. QED
    BY Zenon, <2>1, <2>3 DEF Given
<1>3. CASE k # Len(t)
  <2>1. k + 1 \in 1 .. Len(t) /\ (k + 1) - 1 = k
    BY <1>1, <1>3
  <2>2. Given(S, EndOf(t, (k + 1) - 1) + 1) = NULL_CHAR
    BY Zenon, <2>1, TextInStrip
  <2>3. QED
    BY Zenon, <2>1, <2>2
<1>4. QED
  BY <1>2, <1>3

\* Every word begins with a null.
LEMMA NullFirst ==
  ASSUME NEW t, NEW chars, NEW m, Layout(t, chars, m), NEW j \in Nat
  PROVE  Given(StreamOf(t, Len(t)), W * j + 1) = NULL_CHAR
<1> DEFINE S == StreamOf(t, Len(t))
           p == W * j + 1
<1>1. W * j \in Nat /\ W \in Nat
  BY Times, WidthsAssumption
<1>2. CASE p \notin 1 .. Len(S)
  BY Zenon, <1>2 DEF Given
<1>3. CASE p \in 1 .. Len(S)
  <2>1. p \in 1 .. EndOf(t, Len(t))
    BY Zenon, <1>3 DEF EndOf
  <2>2. PICK k \in 1 .. Len(t) : EndOf(t, k - 1) < p /\ p <= EndOf(t, k)
    BY Zenon, <2>1, TextFound
  <2> DEFINE a == EndOf(t, k - 1)
             n == Len(t[k])
             i == WordOf(t, k)
             q == SlotOf(t, k)
  <2>3. a \in Nat /\ n \in Nat /\ EndOf(t, k) = a + 1 + n
    BY Zenon, TextEnds DEF TextAfter
  <2>4. i \in 0 .. m - 1 /\ q \in 0 .. W - 1 /\ a = W * i + q /\ q + n <= W - 1
    BY Zenon, TextInWord DEF InOneWord
  <2>5. a < p /\ p <= a + 1 + n
    BY Zenon, <2>2, <2>3
  <2>6. m \in Nat
    BY Zenon DEF Layout
  <2>7. i \in Nat /\ W * i \in Nat
    BY <2>4, <2>6, Times
  <2>8. Given(S, a + 1) = NULL_CHAR
    BY Zenon, TextInStrip
  <2> HIDE DEF a, n, i, q
  <2>9. W * j - W * i \in 0 .. W - 1 /\ W * j = W * i + (W * j - W * i)
    BY <1>1, <2>3, <2>4, <2>5, <2>7
  <2>10. (W * i + (W * j - W * i)) % W = W * j - W * i
    BY Zenon, <2>7, <2>9, InWord
  <2>11. (W * j) % W = W * j - W * i
    BY Zenon, <2>9, <2>10
  <2>12. (W * j + 0) % W = 0
    <3>1. 0 \in 0 .. W - 1
      BY WidthsAssumption
    <3>2. QED
      BY Zenon, <3>1, InWord
  <2>13. W * j + 0 = W * j
    BY <1>1
  <2>14. W * j - W * i = 0
    BY Zenon, <2>11, <2>12, <2>13
  <2>15. p = a + 1
    BY <1>1, <2>3, <2>4, <2>5, <2>7, <2>14
  <2>16. QED
    BY Zenon, <2>8, <2>15
<1>4. QED
  BY <1>2, <1>3

\* The text is read with its last character at LastAt, its characters in order.
LastAt(t, k) == W * WordOf(t, k) + ((W - SlotOf(t, k)) - 1)

TextRead(t, chars, k) ==
  /\ LastAt(t, k) \in 1 .. Len(chars) - 1 /\ LastAt(t, k) - Len(t[k]) \in Nat
  /\ Len(t[k]) \in Nat /\ Len(t[k]) > 0
  /\ \A u \in 1 .. Len(t[k]) : chars[(LastAt(t, k) - Len(t[k])) + u] = t[k][u]
  /\ chars[LastAt(t, k) + 1] = NULL_CHAR
  /\ LastAt(t, k) - Len(t[k]) = 0 \/ chars[LastAt(t, k) - Len(t[k])] = NULL_CHAR

LEMMA TextIsRead ==
  ASSUME NEW t, NEW chars, NEW m, Layout(t, chars, m), NEW k \in 1 .. Len(t)
  PROVE  TextRead(t, chars, k)
<1> DEFINE a == EndOf(t, k - 1)
           n == Len(t[k])
           j == WordOf(t, k)
           q == SlotOf(t, k)
           S == StreamOf(t, Len(t))
           e == LastAt(t, k)
<1>1. a \in Nat /\ n \in Nat /\ n > 0 /\ EndOf(t, k) = a + 1 + n
  BY Zenon, TextEnds DEF TextAfter
<1>2. j \in 0 .. m - 1 /\ q \in 0 .. W - 1 /\ a = W * j + q /\ q + n <= W - 1
  BY Zenon, TextInWord DEF InOneWord
<1>3. /\ m \in Nat /\ Len(chars) = W * m
      /\ \A h \in 0 .. m - 1 : \A i \in 1 .. W :
           chars[W * h + i] = Given(S, W * h + ((W + 1) - i))
  BY Zenon DEF Layout
<1>4. Given(S, a + 1) = NULL_CHAR /\ \A i \in 1 .. n : Given(S, a + 1 + i) = t[k][(n - i) + 1]
  BY Zenon, TextInStrip
<1>5. Given(S, EndOf(t, k) + 1) = NULL_CHAR
  BY Zenon, NullAfter
<1>6. \A h \in Nat : Given(S, W * h + 1) = NULL_CHAR
  BY Zenon, NullFirst
<1>7. e = W * j + ((W - q) - 1)
  BY Zenon DEF LastAt
<1> HIDE DEF a, n, j, q, S, e
<1>8. /\ j \in Nat /\ W * j \in Nat /\ W * m \in Nat /\ W \in Nat /\ W > 1 /\ q \in Nat
      /\ W * j + W <= W * m
  <2>1. j \in Nat /\ j < m
    BY <1>2, <1>3
  <2>2. W * j + W <= W * m
    BY Zenon, <1>3, <2>1, TimesMore
  <2>3. W * j \in Nat /\ W * m \in Nat
    BY Zenon, <1>3, <2>1, Times
  <2>4. W \in Nat /\ W > 1
    BY WidthsAssumption
  <2>5. QED
    BY <1>2, <2>1, <2>2, <2>3, <2>4
<1>9. \A i \in 1 .. W : chars[W * j + i] = Given(S, W * j + ((W + 1) - i))
  BY Zenon, <1>2, <1>3
<1>10. e \in 1 .. Len(chars) - 1 /\ e - n \in Nat
  BY <1>1, <1>2, <1>3, <1>7, <1>8
<1>11. chars[e + 1] = NULL_CHAR
  <2>1. W - q \in 1 .. W /\ W * j + (W - q) = e + 1 /\ W * j + ((W + 1) - (W - q)) = a + 1
    BY <1>2, <1>7, <1>8
  <2>2. QED
    BY Zenon, <1>4, <1>9, <2>1
<1>12. ASSUME NEW u \in 1 .. n
       PROVE  chars[(e - n) + u] = t[k][u]
  <2> DEFINE i == (((W - q) - 1) - n) + u
             r == (n - u) + 1
  <2>1. /\ i \in 1 .. W /\ W * j + i = (e - n) + u
        /\ r \in 1 .. n /\ W * j + ((W + 1) - i) = a + 1 + r /\ (n - r) + 1 = u
    BY <1>1, <1>2, <1>7, <1>8
  <2> HIDE DEF i, r
  <2>2. chars[W * j + i] = Given(S, W * j + ((W + 1) - i))
    BY Zenon, <1>9, <2>1
  <2>3. Given(S, a + 1 + r) = t[k][(n - r) + 1]
    BY Zenon, <1>4, <2>1
  <2>4. QED
    BY Zenon, <2>1, <2>2, <2>3
<1>13. e - n = 0 \/ chars[e - n] = NULL_CHAR
  <2>1. CASE q + n < W - 1
    <3> DEFINE i == ((W - q) - 1) - n
    <3>1. /\ i \in 1 .. W /\ W * j + i = e - n
          /\ W * j + ((W + 1) - i) = EndOf(t, k) + 1
      BY <1>1, <1>2, <1>7, <1>8, <2>1
    <3> HIDE DEF i
    <3>2. QED
      BY Zenon, <1>5, <1>9, <3>1
  <2>2. CASE q + n = W - 1
    <3>1. e - n = W * j
      BY <1>1, <1>2, <1>7, <1>8, <2>2
    <3>2. CASE j = 0
      <4>1. W * 0 = 0
        BY <1>8
      <4>2. QED
        BY Zenon, <3>1, <3>2, <4>1
    <3>3. CASE j # 0
      <4>1. j - 1 \in Nat /\ j - 1 \in 0 .. m - 1 /\ (j - 1) + 1 = j
        BY <1>2, <1>3, <1>8, <3>3
      <4>2. W * j = W * (j - 1) + W
        BY Zenon, <4>1, Times
      <4>3. W \in 1 .. W /\ (W + 1) - W = 1
        BY <1>8
      <4>4. chars[W * (j - 1) + W] = Given(S, W * (j - 1) + ((W + 1) - W))
        BY Zenon, <1>3, <4>1, <4>3
      <4>5. QED
        BY Zenon, <1>6, <3>1, <4>1, <4>2, <4>3, <4>4
    <3>4. QED
      BY <3>2, <3>3
  <2>3. QED
    BY <1>1, <1>2, <1>8, <2>1, <2>2
<1>14. QED
  BY Zenon, <1>1, <1>10, <1>11, <1>12, <1>13 DEF TextRead, n, e

\* What is not a null belongs to a text.
LEMMA CharOfText ==
  ASSUME NEW t, NEW chars, NEW m, Layout(t, chars, m),
         NEW x \in 1 .. Len(chars), chars[x] # NULL_CHAR
  PROVE  \E k \in 1 .. Len(t) : LastAt(t, k) - Len(t[k]) < x /\ x <= LastAt(t, k)
<1> DEFINE S == StreamOf(t, Len(t))
           j == (x - 1) \div W
           i == ((x - 1) % W) + 1
           p == W * j + ((W + 1) - i)
<1>1. /\ m \in Nat /\ Len(chars) = W * m
      /\ \A h \in 0 .. m - 1 : \A g \in 1 .. W :
           chars[W * h + g] = Given(S, W * h + ((W + 1) - g))
  BY Zenon DEF Layout
<1>2. W * m \in Nat /\ W \in Nat /\ W > 1
  BY <1>1, Times, WidthsAssumption
<1>3. x - 1 \in Nat /\ x - 1 < W * m
  BY <1>1, <1>2
<1>4. j \in Nat /\ i - 1 \in 0 .. W - 1 /\ x - 1 = W * j + (i - 1) /\ i \in 1 .. W /\ W * j \in Nat
  <2> DEFINE r == (x - 1) % W
  <2>1. j \in Nat /\ r \in 0 .. W - 1 /\ x - 1 = W * j + r
    BY Zenon, <1>3, DivMod
  <2>2. W * j \in Nat
    BY Zenon, <2>1, Times
  <2> HIDE DEF r
  <2>3. i = r + 1
    BY Zenon DEF r
  <2> HIDE DEF i, j
  <2>4. QED
    BY <1>2, <2>1, <2>2, <2>3
<1> HIDE DEF i, j, S
<1>5. x = W * j + i
  BY <1>3, <1>4
<1>6. j \in 0 .. m - 1
  <2>1. W * j < W * m
    BY <1>2, <1>3, <1>4
  <2>2. j < m
    BY Zenon, <1>1, <1>4, <2>1, Fewer
  <2>3. QED
    BY <1>1, <1>4, <2>2
<1>7. Given(S, p) # NULL_CHAR
  BY Zenon, <1>1, <1>4, <1>5, <1>6
<1>8. p \in 1 .. EndOf(t, Len(t))
  BY Zenon, <1>7 DEF Given, EndOf, S
<1>9. PICK k \in 1 .. Len(t) : EndOf(t, k - 1) < p /\ p <= EndOf(t, k)
  BY Zenon, <1>8, TextFound
<1> DEFINE a == EndOf(t, k - 1)
           n == Len(t[k])
           w == WordOf(t, k)
           q == SlotOf(t, k)
           e == LastAt(t, k)
<1>10. a \in Nat /\ n \in Nat /\ n > 0 /\ EndOf(t, k) = a + 1 + n
  BY Zenon, TextEnds DEF TextAfter
<1>11. w \in 0 .. m - 1 /\ q \in 0 .. W - 1 /\ a = W * w + q /\ q + n <= W - 1
  BY Zenon, TextInWord DEF InOneWord
<1>12. p # a + 1
  <2>1. Given(S, a + 1) = NULL_CHAR
    BY Zenon, TextInStrip DEF S
  <2>2. QED
    BY Zenon, <1>7, <2>1
<1>13. a < p /\ p <= a + 1 + n
  BY Zenon, <1>9, <1>10
<1>14. e = W * w + ((W - q) - 1)
  BY Zenon DEF LastAt
<1>15. w \in Nat /\ W * w \in Nat
  <2>1. w \in Nat
    BY <1>1, <1>11
  <2>2. QED
    BY Zenon, <2>1, Times
<1> HIDE DEF a, n, w, q, e
<1>16. p - 1 = W * j + (W - i) /\ W - i \in 0 .. W - 1
  BY <1>2, <1>4
<1>17. (p - 1) - W * w \in 0 .. W - 1 /\ p - 1 = W * w + ((p - 1) - W * w)
  BY <1>2, <1>4, <1>10, <1>11, <1>13, <1>15
<1>18. w = j
  <2>1. (p - 1) \div W = j
    BY Zenon, <1>4, <1>16, InWord
  <2>2. (p - 1) \div W = w
    BY Zenon, <1>15, <1>17, InWord
  <2>3. QED
    BY Zenon, <2>1, <2>2
<1>19. e - n < x /\ x <= e
  <2>1. W - i > q /\ W - i <= q + n
    BY <1>2, <1>4, <1>10, <1>11, <1>12, <1>13, <1>15, <1>18
  <2>2. e = W * j + ((W - q) - 1)
    BY Zenon, <1>14, <1>18
  <2>3. QED
    BY <1>2, <1>4, <1>5, <1>10, <1>11, <2>1, <2>2
<1>20. QED
  BY Zenon, <1>19 DEF n, e

-----------------------------------------------------------------------------
(* The texts read are the texts given. *)

LEMMA EndsIs ==
  ASSUME NEW chars, NEW e
  PROVE  e \in Ends(chars) <=>
           e \in 1 .. Len(chars) - 1 /\ chars[e] # NULL_CHAR /\ chars[e + 1] = NULL_CHAR
BY Zenon DEF Ends

\* The run of characters ending where the text is read is the text.
LEMMA TextSplit ==
  ASSUME NEW t, NEW chars, NEW m, Layout(t, chars, m), NEW k \in 1 .. Len(t)
  PROVE  /\ LastAt(t, k) \in Ends(chars)
         /\ SubSeq(chars, Begin(chars, LastAt(t, k)), LastAt(t, k)) = t[k]
<1> DEFINE e == LastAt(t, k)
           n == Len(t[k])
           x == t[k]
           b == Begin(chars, LastAt(t, k))
<1>1. /\ e \in 1 .. Len(chars) - 1 /\ e - n \in Nat /\ n \in Nat /\ n > 0
      /\ \A u \in 1 .. n : chars[(e - n) + u] = x[u]
      /\ chars[e + 1] = NULL_CHAR
      /\ e - n = 0 \/ chars[e - n] = NULL_CHAR
  <2>1. TextRead(t, chars, k)
    BY Zenon, TextIsRead
  <2>2. QED
    BY Zenon, <2>1 DEF TextRead
<1>2. /\ t \in Seq(Text) /\ chars \in Seq(Char)
      /\ \A i \in 1 .. n : x[i] # NULL_CHAR
  BY Zenon DEF Layout
<1>3. x \in Seq(Char) /\ Len(x) = n
  <2>1. t[k] \in Text
    BY <1>2
  <2>2. QED
    BY Zenon, <2>1 DEF Text
<1>4. e \in Nat
  BY <1>1
<1>5. /\ b \in 1 .. e + 1
      /\ \A g \in 1 .. e : chars[g] = NULL_CHAR => g < b
      /\ b = 1 \/ chars[b - 1] = NULL_CHAR
  BY Zenon, <1>4, BeginFacts
<1>6. \A u \in 1 .. n : chars[(e - n) + u] # NULL_CHAR
  BY Zenon, <1>1, <1>2
<1> HIDE DEF e, n, x, b
<1>7. chars[e] # NULL_CHAR
  <2>1. n \in 1 .. n /\ (e - n) + n = e
    BY <1>1
  <2>2. QED
    BY Zenon, <1>6, <2>1
<1>8. b > e - n
  <2>1. CASE e - n = 0
    BY <1>5, <2>1
  <2>2. CASE e - n # 0
    <3>1. e - n \in 1 .. e
      BY <1>1, <2>2
    <3>2. chars[e - n] = NULL_CHAR
      BY Zenon, <1>1, <2>2
    <3>3. e - n < b
      BY Zenon, <1>5, <3>1, <3>2
    <3>4. QED
      BY <1>1, <1>5, <3>3
  <2>3. QED
    BY <2>1, <2>2
<1>9. b = (e - n) + 1
  <2>1. SUFFICES ASSUME b # (e - n) + 1 PROVE FALSE
    OBVIOUS
  <2> DEFINE u == (b - 1) - (e - n)
  <2>2. u \in 1 .. n /\ (e - n) + u = b - 1 /\ b # 1
    BY <1>1, <1>5, <1>8, <2>1
  <2> HIDE DEF u
  <2>3. chars[b - 1] # NULL_CHAR
    BY Zenon, <1>6, <2>2
  <2>4. QED
    BY Zenon, <1>5, <2>2, <2>3
<1>10. SubSeq(chars, b, e) = x
  <2> DEFINE y == SubSeq(chars, b, e)
  <2>1. b \in 1 .. Len(chars) /\ e \in 1 .. Len(chars) /\ b <= e /\ Len(chars) \in Nat
    <3>1. e \in 1 .. Len(chars) - 1 /\ e - n \in Nat /\ n \in Nat /\ n > 0
      BY Zenon, <1>1
    <3>2. Len(chars) \in Nat
      BY <1>2
    <3>3. QED
      BY <1>9, <3>1, <3>2
  <2>2. y \in Seq(Char) /\ Len(y) = (e - b) + 1 /\ \A i \in 1 .. (e - b) + 1 : y[i] = chars[(b + i) - 1]
    BY <1>2, <2>1
  <2>3. (e - b) + 1 = n
    BY <1>1, <1>9
  <2>4. \A i \in 1 .. n : (b + i) - 1 = (e - n) + i
    BY <1>1, <1>9
  <2> HIDE DEF y
  <2>5. Len(y) = n /\ \A i \in 1 .. n : y[i] = x[i]
    BY Zenon, <1>1, <2>2, <2>3, <2>4
  <2>6. y = x
    BY <1>1, <1>3, <2>2, <2>5
  <2>7. QED
    BY Zenon, <2>6 DEF y
<1>11. e \in Ends(chars)
  BY Zenon, <1>1, <1>7, EndsIs
<1>12. QED
  BY Zenon, <1>10, <1>11 DEF b, e, x

\* No run of characters ends anywhere else.
LEMMA EndIsText ==
  ASSUME NEW t, NEW chars, NEW m, Layout(t, chars, m), NEW e \in Ends(chars)
  PROVE  \E k \in 1 .. Len(t) : e = LastAt(t, k)
<1>1. e \in 1 .. Len(chars) - 1 /\ chars[e] # NULL_CHAR /\ chars[e + 1] = NULL_CHAR
  BY Zenon, EndsIs
<1>2. chars \in Seq(Char)
  BY Zenon DEF Layout
<1>3. e \in 1 .. Len(chars) /\ Len(chars) \in Nat
  BY <1>1, <1>2
<1>4. PICK k \in 1 .. Len(t) : LastAt(t, k) - Len(t[k]) < e /\ e <= LastAt(t, k)
  BY Zenon, <1>1, <1>3, CharOfText
<1> DEFINE l == LastAt(t, k)
           n == Len(t[k])
<1>5. /\ l \in 1 .. Len(chars) - 1 /\ l - n \in Nat /\ n \in Nat /\ n > 0
      /\ \A u \in 1 .. n : chars[(l - n) + u] = t[k][u]
  <2>1. TextRead(t, chars, k)
    BY Zenon, TextIsRead
  <2>2. QED
    BY Zenon, <2>1 DEF TextRead
<1>6. \A i \in 1 .. n : t[k][i] # NULL_CHAR
  BY Zenon DEF Layout
<1>7. l - n < e /\ e <= l
  BY Zenon, <1>4
<1> HIDE DEF l, n
<1>8. e = l
  <2>1. SUFFICES ASSUME e # l PROVE FALSE
    OBVIOUS
  <2> DEFINE u == (e + 1) - (l - n)
  <2>2. u \in 1 .. n /\ (l - n) + u = e + 1
    BY <1>1, <1>5, <1>7, <2>1
  <2> HIDE DEF u
  <2>3. chars[e + 1] # NULL_CHAR
    BY Zenon, <1>5, <1>6, <2>2
  <2>4. QED
    BY Zenon, <1>1, <2>3
<1>9. QED
  BY Zenon, <1>8 DEF l

\* Every end has its place in Split.
LEMMA NthOfEnd ==
  ASSUME NEW chars \in Seq(Char), NEW e \in Ends(chars)
  PROVE  \E i \in 1 .. Cardinality(Ends(chars)) : Nth(chars, i) = e
<1> DEFINE S == Ends(chars)
           i == Cardinality(UpTo(Ends(chars), e))
<1>1. /\ S \subseteq 1 .. Len(chars) /\ Cardinality(S) \in Nat /\ IsFiniteSet(S)
      /\ \A k \in 1 .. Cardinality(S) :
           Nth(chars, k) \in S /\ Cardinality(UpTo(S, Nth(chars, k))) = k
  BY Zenon, EndsFacts
<1>2. Len(chars) \in Nat
  OBVIOUS
<1>3. i \in 1 .. Cardinality(S)
  BY Zenon, <1>1, <1>2, RankIn
<1>4. Nth(chars, i) \in S /\ Cardinality(UpTo(S, Nth(chars, i))) = Cardinality(UpTo(S, e))
  BY Zenon, <1>1, <1>3
<1>5. Nth(chars, i) = e
  BY Zenon, <1>1, <1>2, <1>4, RankInjective
<1>6. QED
  BY Zenon, <1>3, <1>5

SetOf(s) == {s[i] : i \in 1 .. Len(s)}

LEMMA SetOfIs ==
  ASSUME NEW S, NEW s \in Seq(S)
  PROVE  ToSet(s) = SetOf(s)
<1>1. DOMAIN s = 1 .. Len(s)
  OBVIOUS
<1>2. QED
  BY Zenon, <1>1 DEF ToSet, SetOf

LEMMA SplitLen ==
  ASSUME NEW chars \in Seq(Char)
  PROVE  /\ Len(Split(chars)) = Cardinality(Ends(chars))
         /\ \A i \in 1 .. Cardinality(Ends(chars)) :
              Split(chars)[i] = SubSeq(chars, Begin(chars, Nth(chars, i)), Nth(chars, i))
<1> DEFINE n == Cardinality(Ends(chars))
           s == Split(chars)
           F(i) == SubSeq(chars, Begin(chars, Nth(chars, i)), Nth(chars, i))
<1>1. n \in Nat
  BY Zenon, EndsFacts
<1>2. s = [i \in 1 .. n |-> F(i)]
  BY Zenon, SplitIs
<1>3. s \in Seq(Text)
  BY Zenon, SplitType
<1> HIDE DEF F, n, s
<1>4. DOMAIN s = 1 .. n /\ \A i \in 1 .. n : s[i] = F(i)
  BY Zenon, <1>2
<1>5. DOMAIN s = 1 .. Len(s) /\ Len(s) \in Nat
  BY <1>3
<1>6. Len(s) = n
  BY <1>1, <1>4, <1>5
<1>7. QED
  BY Zenon, <1>4, <1>6 DEF n, s, F

LEMMA SplitIsTexts ==
  ASSUME NEW t, NEW chars, NEW m, Layout(t, chars, m),
         \A k \in 1 .. Len(t) : \A l \in 1 .. Len(t) : t[k] = t[l] => k = l
  PROVE  Len(Split(chars)) = Len(t) /\ ToSet(Split(chars)) = ToSet(t)
<1> DEFINE K == Len(t)
           E == Ends(chars)
           R(e) == SubSeq(chars, Begin(chars, e), e)
<1>1. t \in Seq(Text) /\ chars \in Seq(Char)
  BY Zenon DEF Layout
<1>2. \A k \in 1 .. K : LastAt(t, k) \in E /\ R(LastAt(t, k)) = t[k]
  BY Zenon, TextSplit
<1>3. \A e \in E : \E k \in 1 .. K : e = LastAt(t, k)
  BY Zenon, EndIsText
<1>4. K \in Nat
  BY <1>1
<1>5. Cardinality(E) = K
  <2> DEFINE f == [k \in 1 .. K |-> LastAt(t, k)]
  <2> HIDE DEF R, E, K
  <2>1. \A k \in 1 .. K : f[k] = LastAt(t, k) /\ f[k] \in E /\ R(f[k]) = t[k]
    BY Zenon, <1>2
  <2>2. f \in [1 .. K -> E]
    BY Zenon, <1>2
  <2> HIDE DEF f
  <2>3. \A k \in 1 .. K : \A l \in 1 .. K : f[k] = f[l] => k = l
    BY Zenon, <2>1 DEF K
  <2>4. \A e \in E : \E k \in 1 .. K : f[k] = e
    BY Zenon, <1>3, <2>1
  <2>5. f \in Bijection(1 .. K, E)
    BY Zenon, <2>2, <2>3, <2>4 DEF Bijection, Injection, Surjection, IsInjective
  <2>6. ExistsBijection(1 .. K, E)
    BY Zenon, <2>5 DEF ExistsBijection
  <2>7. QED
    BY Zenon, <1>4, <2>6, FS_CountingElements
<1>6. /\ Len(Split(chars)) = K
      /\ \A i \in 1 .. K : Split(chars)[i] = R(Nth(chars, i)) /\ Nth(chars, i) \in E
  BY Zenon, <1>1, <1>5, SplitLen, EndsFacts
<1>7. \A e \in E : \E i \in 1 .. K : Nth(chars, i) = e
  BY Zenon, <1>1, <1>5, NthOfEnd
<1> DEFINE s == Split(chars)
<1>8. s \in Seq(Text)
  BY Zenon, <1>1, SplitType
<1> HIDE DEF R, E, K, s
<1>9. \A i \in 1 .. K : \E k \in 1 .. K : s[i] = t[k]
  <2>1. SUFFICES ASSUME NEW i \in 1 .. K
                 PROVE  \E k \in 1 .. K : s[i] = t[k]
    OBVIOUS
  <2>2. s[i] = R(Nth(chars, i)) /\ Nth(chars, i) \in E
    BY Zenon, <1>6 DEF s
  <2>3. PICK k \in 1 .. K : Nth(chars, i) = LastAt(t, k)
    BY Zenon, <1>3, <2>2
  <2>4. R(LastAt(t, k)) = t[k]
    BY Zenon, <1>2
  <2>5. QED
    BY Zenon, <2>2, <2>3, <2>4
<1>10. \A k \in 1 .. K : \E i \in 1 .. K : s[i] = t[k]
  <2>1. SUFFICES ASSUME NEW k \in 1 .. K
                 PROVE  \E i \in 1 .. K : s[i] = t[k]
    OBVIOUS
  <2>2. LastAt(t, k) \in E /\ R(LastAt(t, k)) = t[k]
    BY Zenon, <1>2
  <2>3. PICK i \in 1 .. K : Nth(chars, i) = LastAt(t, k)
    BY Zenon, <1>7, <2>2
  <2>4. s[i] = R(Nth(chars, i))
    BY Zenon, <1>6 DEF s
  <2>5. QED
    BY Zenon, <2>2, <2>3, <2>4
<1>11. Len(s) = K
  BY Zenon, <1>6 DEF s
<1>12. SetOf(s) = SetOf(t)
  <2>1. SetOf(s) = {s[i] : i \in 1 .. K} /\ SetOf(t) = {t[i] : i \in 1 .. K}
    BY Zenon, <1>11 DEF SetOf, K
  <2>2. SetOf(s) \subseteq SetOf(t)
    BY Zenon, <1>9, <2>1
  <2>3. SetOf(t) \subseteq SetOf(s)
    BY Zenon, <1>10, <2>1
  <2>4. QED
    BY Zenon, <2>2, <2>3
<1>13. QED
  BY Zenon, <1>1, <1>8, <1>11, <1>12, SetOfIs DEF s, K

-----------------------------------------------------------------------------
(* The words read are the words stored, each turned round. *)

OfWords(s) == \A i \in 1 .. Len(s) : Len(s[i]) = W

WordByWord(s) ==
  /\ Len(FlattenSeq(s)) = W * Len(s)
  /\ \A j \in 0 .. Len(s) - 1 : \A i \in 1 .. W : FlattenSeq(s)[W * j + i] = s[j + 1][i]

LEMMA AppendWord ==
  ASSUME NEW S, NEW p \in Seq(Seq(S)), NEW x \in Seq(S), Len(x) = W, WordByWord(p)
  PROVE  WordByWord(Append(p, x))
<1> DEFINE s == Append(p, x)
           n == Len(p)
           f == FlattenSeq(p)
           g == FlattenSeq(Append(p, x))
<1>1. s \in Seq(Seq(S)) /\ Len(s) = n + 1 /\ n \in Nat /\ s[n + 1] = x
      /\ \A i \in 1 .. n : s[i] = p[i]
  OBVIOUS
<1>2. Len(f) = W * n /\ \A j \in 0 .. n - 1 : \A i \in 1 .. W : f[W * j + i] = p[j + 1][i]
  BY Zenon DEF WordByWord
<1>3. g = f \o x
  BY Zenon, FlattenAppend
<1>4. f \in Seq(S)
  BY Zenon, FlattenType
<1>5. W * n \in Nat /\ W * (n + 1) = W * n + W /\ W \in Nat
  BY <1>1, Times, WidthsAssumption
<1>6. /\ Len(f \o x) = Len(f) + Len(x)
      /\ \A i \in 1 .. Len(f) + Len(x) :
           (f \o x)[i] = IF i <= Len(f) THEN f[i] ELSE x[i - Len(f)]
  BY Zenon, <1>4, ConcatProperties
<1> HIDE DEF f, g, s, n
<1>7. /\ Len(g) = W * n + W
      /\ \A i \in 1 .. W * n + W : g[i] = IF i <= W * n THEN f[i] ELSE x[i - W * n]
  BY Zenon, <1>2, <1>3, <1>6
<1>8. ASSUME NEW j \in 0 .. n, NEW i \in 1 .. W
      PROVE  g[W * j + i] = s[j + 1][i]
  <2>1. CASE j = n
    <3>1. W * n + i \in 1 .. W * n + W /\ ~(W * n + i <= W * n) /\ (W * n + i) - W * n = i
      BY <1>5
    <3>2. g[W * n + i] = x[i]
      BY Zenon, <1>7, <3>1
    <3>3. QED
      BY Zenon, <1>1, <2>1, <3>2
  <2>2. CASE j # n
    <3>1. j \in 0 .. n - 1 /\ j \in Nat /\ j < n /\ j + 1 \in 1 .. n
      BY <1>1, <2>2
    <3>2. W * j \in Nat /\ W * j + W <= W * n
      BY Zenon, <1>1, <3>1, Times, TimesMore
    <3>3. W * j + i \in 1 .. W * n + W /\ W * j + i <= W * n
      <4> DEFINE u == W * j
                 v == W * n
      <4>1. u \in Nat /\ v \in Nat /\ W \in Nat /\ u + W <= v
        BY Zenon, <1>5, <3>2
      <4> HIDE DEF u, v
      <4>2. u + i \in 1 .. v + W /\ u + i <= v
        BY <4>1
      <4>3. QED
        BY Zenon, <4>2 DEF u, v
    <3>4. g[W * j + i] = f[W * j + i]
      BY Zenon, <1>7, <3>3
    <3>5. QED
      BY Zenon, <1>1, <1>2, <3>1, <3>4
  <2>3. QED
    BY <2>1, <2>2
<1>9. Len(s) - 1 = n
  BY <1>1
<1>10. Len(g) = W * Len(s)
  BY Zenon, <1>1, <1>5, <1>7
<1>11. QED
  BY Zenon, <1>8, <1>9, <1>10 DEF WordByWord, g, s

LEMMA FlattenWords ==
  ASSUME NEW S
  PROVE  \A s \in Seq(Seq(S)) : OfWords(s) => WordByWord(s)
<1> DEFINE T == {n \in Nat : \E s \in Seq(Seq(S)) : Len(s) = n /\ OfWords(s) /\ ~WordByWord(s)}
<1>1. SUFFICES ASSUME T # {} PROVE FALSE
  <2>1. SUFFICES ASSUME NEW s \in Seq(Seq(S)), OfWords(s), ~WordByWord(s)
                 PROVE  T # {}
    BY <1>1
  <2>2. Len(s) \in Nat
    OBVIOUS
  <2>3. Len(s) \in T
    BY Zenon, <2>1, <2>2
  <2>4. QED
    BY Zenon, <2>3
<1>2. PICK n \in T : \A m \in T : n <= m
  <2>1. T \subseteq Nat
    BY Zenon
  <2>2. QED
    BY Zenon, <1>1, <2>1, LeastNumber
<1>3. PICK s \in Seq(Seq(S)) : Len(s) = n /\ OfWords(s) /\ ~WordByWord(s)
  BY Zenon, <1>2
<1>4. n \in Nat
  BY Zenon, <1>2
<1>5. n # 0
  <2>1. SUFFICES ASSUME n = 0 PROVE FALSE
    OBVIOUS
  <2>2. s = <<>> /\ Len(s) = 0
    BY <1>3, <2>1
  <2>3. Len(FlattenSeq(s)) = 0
    BY Zenon, <2>2, FlattenEmpty
  <2>4. W * 0 = 0 /\ \A j \in 0 .. 0 - 1 : FALSE
    BY WidthsAssumption
  <2>5. WordByWord(s)
    BY Zenon, <2>2, <2>3, <2>4 DEF WordByWord
  <2>6. QED
    BY Zenon, <1>3, <2>5
<1> DEFINE p == [i \in 1 .. n - 1 |-> s[i]]
           x == s[n]
<1>6. p \in Seq(Seq(S)) /\ Len(p) = n - 1 /\ n - 1 \in Nat
  <2>1. n - 1 \in Nat
    BY <1>4, <1>5
  <2>2. \A i \in 1 .. n - 1 : s[i] \in Seq(S)
    BY <1>3, <1>4
  <2>3. p \in [1 .. n - 1 -> Seq(S)]
    BY Zenon, <2>2
  <2> HIDE DEF p
  <2>4. p \in Seq(Seq(S))
    BY <2>1, <2>3, SeqDef
  <2>5. Len(p) \in Nat /\ DOMAIN p = 1 .. Len(p)
    BY <2>4, LenProperties
  <2>6. Len(p) = n - 1
    BY <2>1, <2>3, <2>5
  <2>7. QED
    BY <2>1, <2>4, <2>6
<1>7. \A i \in 1 .. n - 1 : p[i] = s[i]
  BY Zenon
<1>8. x \in Seq(S) /\ n \in 1 .. Len(s)
  BY <1>3, <1>4, <1>5
<1> HIDE DEF p, x
<1>9. s = Append(p, x)
  <2>1. /\ Append(p, x) \in Seq(Seq(S)) /\ Len(Append(p, x)) = n
        /\ \A i \in 1 .. n - 1 : Append(p, x)[i] = p[i]
        /\ Append(p, x)[n] = x
    BY <1>4, <1>6, <1>8
  <2>2. \A i \in 1 .. n : i \in 1 .. n - 1 \/ i = n
    BY <1>4
  <2>3. \A i \in 1 .. Len(s) : s[i] = Append(p, x)[i]
    BY Zenon, <1>3, <1>7, <2>1, <2>2 DEF x
  <2>4. QED
    BY Zenon, <1>3, <2>1, <2>3, SeqEqual
<1>10. OfWords(p)
  <2>1. \A i \in 1 .. n - 1 : i \in 1 .. n
    BY <1>4
  <2>2. QED
    BY Zenon, <1>3, <1>6, <1>7, <2>1 DEF OfWords
<1>11. WordByWord(p)
  <2>1. ~(n <= n - 1)
    BY <1>4
  <2>2. n - 1 \notin T
    BY Zenon, <1>2, <2>1
  <2>3. QED
    BY Zenon, <1>6, <1>10, <2>2
<1>12. Len(x) = W
  BY Zenon, <1>3, <1>8 DEF OfWords, x
<1>13. WordByWord(s)
  BY Zenon, <1>6, <1>8, <1>9, <1>11, <1>12, AppendWord
<1>14. QED
  BY Zenon, <1>3, <1>13

\* Every word has W characters.
WordWidth == OfWords(stored)

LEMMA WordWidthNext == TypeOK /\ WordWidth /\ [Next]_vars => WordWidth'
<1> SUFFICES ASSUME TypeOK, WordWidth, [Next]_vars PROVE WordWidth'
  OBVIOUS
<1>1. \/ stored' = stored
      \/ stored' = Append(stored, sipo_reg)
      \/ stored' = <<>>
  <2>1. ASSUME NEW STATE next, Edge(next)
        PROVE  stored' = stored \/ stored' = Append(stored, sipo_reg)
    BY Zenon, <2>1 DEF Edge, Push
  <2>2. CASE ValidOutput
    BY Zenon, <2>1, <2>2 DEF ValidOutput
  <2>3. CASE FinalImage \/ Cycle
    BY Zenon, <2>1, <2>3 DEF FinalImage, Cycle
  <2>4. CASE receiveResultStrings
    BY <2>4 DEF receiveResultStrings, regs
  <2>5. CASE Clear
    BY Zenon, <2>5 DEF Clear, Cleared
  <2>6. CASE UNCHANGED vars
    BY <2>6 DEF vars, regs
  <2>7. QED
    BY Zenon, <2>2, <2>3, <2>4, <2>5, <2>6 DEF Next
<1>2. stored \in Seq(Text) /\ Len(stored) \in Nat /\ Len(sipo_reg) = W /\ sipo_reg \in Text
  BY DEF TypeOK
<1>3. CASE stored' = stored
  BY Zenon, <1>3 DEF WordWidth, OfWords
<1>4. CASE stored' = Append(stored, sipo_reg)
  <2> DEFINE n == Len(stored)
             s == Append(stored, sipo_reg)
  <2>1. Len(s) = n + 1 /\ s[n + 1] = sipo_reg /\ \A i \in 1 .. n : s[i] = stored[i]
    BY <1>2
  <2>2. \A i \in 1 .. n + 1 : i \in 1 .. n \/ i = n + 1
    BY <1>2
  <2>3. \A i \in 1 .. n : Len(stored[i]) = W
    BY Zenon DEF WordWidth, OfWords
  <2> HIDE DEF n, s
  <2>4. OfWords(s)
    BY Zenon, <1>2, <2>1, <2>2, <2>3 DEF OfWords
  <2>5. stored' = s
    BY Zenon, <1>4 DEF s
  <2>6. QED
    BY Zenon, <2>4, <2>5 DEF WordWidth, OfWords
<1>5. CASE stored' = <<>>
  <2>1. 1 .. 0 = {}
    OBVIOUS
  <2>2. QED
    BY Zenon, <1>5, <2>1, SmallLen DEF WordWidth, OfWords
<1>6. QED
  BY Zenon, <1>1, <1>3, <1>4, <1>5

-----------------------------------------------------------------------------
(* receiveResultStrings. *)

LEMMA LengthIs ==
  ASSUME NEW k
  PROVE  Length(k) = EndOf(texts, k)
BY Zenon DEF Length, Stream, EndOf, StreamOf

LEMMA TextsFacts ==
  ASSUME TypeOK, TextsGiven
  PROVE  /\ texts \in Seq(Text) /\ Len(texts) \in Nat
         /\ \A k \in 1 .. Len(texts) :
              /\ Len(texts[k]) \in Nat /\ Len(texts[k]) > 0 /\ texts[k][1] = <<k, 1>>
              /\ \A i \in 1 .. Len(texts[k]) : texts[k][i] # NULL_CHAR
<1>1. texts \in Seq(Text) /\ Len(texts) \in Nat
  BY DEF TypeOK
<1>2. ASSUME NEW k \in 1 .. Len(texts)
      PROVE  /\ Len(texts[k]) \in Nat /\ Len(texts[k]) > 0 /\ texts[k][1] = <<k, 1>>
             /\ \A i \in 1 .. Len(texts[k]) : texts[k][i] # NULL_CHAR
  <2> DEFINE x == texts[k]
  <2>1. PICK n \in 1 .. MAX_OUT_L : x = [i \in 1 .. n |-> <<k, i>>]
    BY Zenon DEF TextsGiven, All
  <2>2. x \in Seq(Char)
    <3>1. texts[k] \in Text
      BY <1>1
    <3>2. QED
      BY Zenon, <3>1 DEF Text
  <2> HIDE DEF x
  <2>3. n \in Nat /\ n > 0 /\ 1 \in 1 .. n
    BY <2>1, WidthsAssumption
  <2>4. DOMAIN x = 1 .. n /\ \A i \in 1 .. n : x[i] = <<k, i>>
    BY Zenon, <2>1
  <2>5. DOMAIN x = 1 .. Len(x) /\ Len(x) \in Nat
    BY <2>2
  <2>6. Len(x) = n
    BY <2>3, <2>4, <2>5
  <2>7. \A i \in 1 .. n : <<k, i>> # NULL_CHAR
    BY DEF NULL_CHAR
  <2>8. /\ Len(x) \in Nat /\ Len(x) > 0 /\ x[1] = <<k, 1>>
        /\ \A i \in 1 .. Len(x) : x[i] # NULL_CHAR
    BY Zenon, <2>3, <2>4, <2>6, <2>7
  <2>9. QED
    BY Zenon, <2>8 DEF x
<1>3. QED
  BY Zenon, <1>1, <1>2

\* If each text shares a word with its null, none spills.
LEMMA WholeNoSpill ==
  ASSUME TypeOK, TextsGiven, Whole
  PROVE  ~Spills
<1>1. SUFFICES ASSUME NEW k \in 1 .. All, Length(k) % W = 1 PROVE FALSE
  BY Zenon DEF Spills
<1> DEFINE b == EndOf(texts, k)
           a == EndOf(texts, k - 1)
           n == Len(texts[k])
           d == b \div W
           e == a \div W
           r == a % W
<1>2. /\ texts \in Seq(Text) /\ Len(texts) \in Nat
      /\ n \in Nat /\ n > 0 /\ \A i \in 1 .. n : texts[k][i] # NULL_CHAR
      /\ k \in 1 .. Len(texts)
  BY Zenon, <1>1, TextsFacts DEF All
<1>3. b = a + 1 + n /\ a \in Nat
  <2> DEFINE h == k - 1
  <2>1. h \in Nat /\ h < Len(texts) /\ h + 1 = k
    BY <1>2
  <2> HIDE DEF h
  <2>2. Len(texts[h + 1]) = n /\ \A i \in 1 .. n : texts[h + 1][i] # NULL_CHAR
    BY Zenon, <1>2, <2>1
  <2> HIDE DEF n
  <2>3. /\ Len(StreamOf(texts, h + 1)) = Len(StreamOf(texts, h)) + 1 + n
        /\ Len(StreamOf(texts, h)) \in Nat
    BY Zenon, <1>2, <2>1, <2>2, StreamEnd
  <2>4. QED
    BY Zenon, <2>1, <2>3 DEF EndOf, h
<1>4. b % W = 1 /\ (b - 1) \div W = e
  BY Zenon, <1>1, LengthIs DEF Whole
<1> HIDE DEF a, b, n
<1>5. b \in Nat /\ a \in Nat
  BY <1>2, <1>3
<1>6. d \in Nat /\ b = W * d + (b % W) /\ e \in Nat /\ r \in 0 .. W - 1 /\ a = W * e + r
  BY Zenon, <1>5, DivMod
<1>7. b - 1 = W * d + 0 /\ 0 \in 0 .. W - 1
  <2>1. b = W * d + 1
    BY Zenon, <1>4, <1>6
  <2>2. W * d \in Nat /\ W \in Nat /\ W > 1
    BY <1>6, Times, WidthsAssumption
  <2>3. QED
    BY <2>1, <2>2
<1>8. (b - 1) \div W = d
  BY Zenon, <1>6, <1>7, InWord
<1>9. a = W * d + r
  BY Zenon, <1>4, <1>6, <1>8
<1>10. W * d \in Nat
  BY Zenon, <1>6, Times
<1> HIDE DEF d, e, r
<1>11. QED
  BY <1>2, <1>3, <1>5, <1>6, <1>7, <1>9, <1>10

\* The characters receiveResultStrings splits.
Chars == FlattenSeq([i \in 1 .. Len(Received) |-> Reverse(Received[i])])

LEMMA CharsRead ==
  ASSUME TypeOK, WordWidth, LC_reg = Len(stored)
  PROVE  /\ Chars \in Seq(Char) /\ Len(Chars) = W * Len(stored)
         /\ \A j \in 0 .. Len(stored) - 1 : \A i \in 1 .. W :
              Chars[W * j + i] = FlattenSeq(stored)[W * j + ((W + 1) - i)]
<1> DEFINE m == Len(stored)
           rev == [i \in 1 .. Len(Received) |-> Reverse(Received[i])]
<1>1. stored \in Seq(Text) /\ m \in Nat /\ stored \in Seq(Seq(Char)) /\ W \in Nat
  BY WidthsAssumption DEF TypeOK, Text
<1>2. Received = stored
  <2>1. LC_reg - m = 0
    BY <1>1
  <2>2. [i \in 1 .. 0 |-> Nulls(W)] = <<>>
    <3> DEFINE z == [i \in 1 .. 0 |-> Nulls(W)]
    <3>1. z \in [1 .. 0 -> Text] /\ 0 \in Nat
      <4>1. \A i \in 1 .. 0 : Nulls(W) \in Text
        OBVIOUS
      <4>2. QED
        BY Zenon, <4>1
    <3> HIDE DEF z
    <3>2. z \in Seq(Text)
      BY <3>1, SeqDef
    <3>3. DOMAIN z = 1 .. 0 /\ DOMAIN z = 1 .. Len(z) /\ Len(z) \in Nat
      BY <3>1, <3>2
    <3>4. z = <<>>
      BY <3>2, <3>3
    <3>5. QED
      BY Zenon, <3>4 DEF z
  <2>3. Received = stored \o <<>>
    BY Zenon, <2>1, <2>2 DEF Received
  <2>4. stored \o <<>> = stored
    BY <1>1
  <2>5. QED
    BY Zenon, <2>3, <2>4
<1>3. rev \in Seq(Seq(Char))
  BY Zenon, ReceivedType
<1>4. DOMAIN rev = 1 .. m /\ \A i \in 1 .. m : rev[i] = Reverse(stored[i])
  BY Zenon, <1>2
<1>5. Chars = FlattenSeq(rev)
  BY Zenon DEF Chars
<1> HIDE DEF rev
<1>6. Len(rev) = m
  <2>1. DOMAIN rev = 1 .. Len(rev) /\ Len(rev) \in Nat
    BY <1>3
  <2>2. QED
    BY <1>1, <1>4, <2>1
<1>7. ASSUME NEW i \in 1 .. m
      PROVE  /\ Len(rev[i]) = W /\ Len(stored[i]) = W
             /\ \A h \in 1 .. W : rev[i][h] = stored[i][(W - h) + 1]
  <2>1. stored[i] \in Text
    BY <1>1
  <2>2. Len(stored[i]) = W
    BY Zenon DEF WordWidth, OfWords
  <2>3. /\ Len(Reverse(stored[i])) = Len(stored[i])
        /\ \A h \in 1 .. Len(stored[i]) : Reverse(stored[i])[h] = stored[i][(Len(stored[i]) - h) + 1]
    BY Zenon, <2>1, ReverseFacts
  <2>4. rev[i] = Reverse(stored[i])
    BY Zenon, <1>4
  <2>5. QED
    BY Zenon, <2>2, <2>3, <2>4
<1>8. WordByWord(rev) /\ WordByWord(stored)
  <2>1. OfWords(rev)
    BY Zenon, <1>6, <1>7 DEF OfWords
  <2>2. OfWords(stored)
    BY Zenon DEF WordWidth
  <2>3. QED
    BY Zenon, <1>1, <1>3, <2>1, <2>2, FlattenWords
<1>9. Chars \in Seq(Char)
  BY Zenon, <1>3, <1>5, FlattenType
<1>10. ASSUME NEW j \in 0 .. m - 1, NEW i \in 1 .. W
       PROVE  Chars[W * j + i] = FlattenSeq(stored)[W * j + ((W + 1) - i)]
  <2>1. j + 1 \in 1 .. m /\ (W - i) + 1 \in 1 .. W /\ (W - i) + 1 = (W + 1) - i
    BY <1>1
  <2>2. Chars[W * j + i] = rev[j + 1][i]
    BY Zenon, <1>5, <1>6, <1>8 DEF WordByWord
  <2>3. rev[j + 1][i] = stored[j + 1][(W - i) + 1]
    BY Zenon, <1>7, <2>1
  <2>4. FlattenSeq(stored)[W * j + ((W - i) + 1)] = stored[j + 1][(W - i) + 1]
    BY Zenon, <1>8, <2>1 DEF WordByWord
  <2>5. QED
    BY Zenon, <2>1, <2>2, <2>3, <2>4
<1>11. Len(Chars) = W * m
  BY Zenon, <1>5, <1>6, <1>8 DEF WordByWord
<1>12. QED
  BY Zenon, <1>9, <1>10, <1>11

\* The words of a finished strip are laid out as receiveResultStrings expects them.
LEMMA LayoutHolds ==
  ASSUME TypeOK, TextsGiven, WordWidth, Whole, Exactly
  PROVE  Layout(texts, Chars, Len(stored))
<1> DEFINE K == Len(texts)
           m == Len(stored)
           S == StreamOf(texts, Len(texts))
           L == Len(S)
           f == FlattenSeq(stored)
           z == W * Len(stored) - Length(All)
<1>1. /\ texts \in Seq(Text) /\ K \in Nat
      /\ \A k \in 1 .. K : Len(texts[k]) > 0 /\ \A i \in 1 .. Len(texts[k]) : texts[k][i] # NULL_CHAR
  BY Zenon, TextsFacts
<1>2. m \in Nat /\ W \in Nat /\ W > 1 /\ W * m \in Nat
  <2>1. m \in Nat
    BY DEF TypeOK
  <2>2. QED
    BY <2>1, Times, WidthsAssumption
<1>3. /\ LC_reg = m /\ m = (Length(All) + W - 1) \div W
      /\ f = Stream(All) \o Nulls(z)
  BY Zenon DEF Exactly
<1>4. Length(All) = L /\ Stream(All) = S
  BY Zenon, StreamIs DEF Length
<1>5. S \in Seq(Char) /\ L \in Nat
  <2>1. K \in 0 .. K
    BY <1>1
  <2>2. QED
    BY Zenon, <1>1, <2>1, StreamType DEF Text
<1> HIDE DEF S, m, K
<1>6. L <= W * m
  <2> DEFINE N == L + W - 1
             r == N % W
  <2>1. N \in Nat
    BY <1>2, <1>5
  <2>2. r \in 0 .. W - 1 /\ N = W * (N \div W) + r
    BY Zenon, <2>1, DivMod
  <2>3. N = W * m + r
    BY Zenon, <1>3, <1>4, <2>2
  <2> HIDE DEF r
  <2>4. QED
    BY <1>2, <1>5, <2>2, <2>3
<1>7. z = W * m - L
  BY Zenon, <1>4 DEF m
<1>8. z \in Nat /\ L + z = W * m
  BY <1>2, <1>5, <1>6, <1>7
<1> HIDE DEF L, z, f
<1>9. Nulls(z) \in Seq(Char) /\ Len(Nulls(z)) = z /\ \A i \in 1 .. z : Nulls(z)[i] = NULL_CHAR
  BY Zenon, <1>8, NullsFacts
<1>10. /\ Len(S \o Nulls(z)) = Len(S) + Len(Nulls(z))
       /\ \A i \in 1 .. Len(S) + Len(Nulls(z)) :
            (S \o Nulls(z))[i] = IF i <= Len(S) THEN S[i] ELSE Nulls(z)[i - Len(S)]
  BY Zenon, <1>5, <1>9, ConcatProperties
<1>11. f = S \o Nulls(z) /\ Len(S) + Len(Nulls(z)) = W * m /\ Len(S) = L
  BY Zenon, <1>3, <1>4, <1>8, <1>9 DEF L
<1>12. ASSUME NEW i \in 1 .. W * m
       PROVE  f[i] = Given(S, i)
  <2>1. f[i] = IF i <= L THEN S[i] ELSE Nulls(z)[i - L]
    BY Zenon, <1>10, <1>11
  <2>2. CASE i <= L
    <3>1. i \in 1 .. L
      BY <1>2, <1>5, <2>2
    <3>2. QED
      BY Zenon, <1>11, <2>1, <2>2, <3>1 DEF Given
  <2>3. CASE ~(i <= L)
    <3>1. i - L \in 1 .. z /\ i \notin 1 .. L
      BY <1>2, <1>5, <1>8, <2>3
    <3>2. QED
      BY Zenon, <1>9, <1>11, <2>1, <2>3, <3>1 DEF Given
  <2>4. QED
    BY <2>2, <2>3
<1>13. /\ Chars \in Seq(Char) /\ Len(Chars) = W * m
       /\ \A j \in 0 .. m - 1 : \A i \in 1 .. W :
            Chars[W * j + i] = f[W * j + ((W + 1) - i)]
  BY Zenon, <1>3, CharsRead DEF m, f
<1>14. ASSUME NEW j \in 0 .. m - 1, NEW i \in 1 .. W
       PROVE  Chars[W * j + i] = Given(S, W * j + ((W + 1) - i))
  <2>1. j \in Nat /\ j < m
    BY <1>2
  <2> DEFINE u == W * j
             v == W * m
  <2>2. u \in Nat /\ v \in Nat /\ u + W <= v
    BY Zenon, <1>2, <2>1, Times, TimesMore
  <2> HIDE DEF u, v
  <2>3. u + ((W + 1) - i) \in 1 .. v
    BY <1>2, <2>2
  <2>4. W * j + ((W + 1) - i) \in 1 .. W * m
    BY Zenon, <2>3 DEF u, v
  <2>5. QED
    BY Zenon, <1>12, <1>13, <2>4
<1>15. \A k \in 1 .. K : (EndOf(texts, k) - 1) \div W = EndOf(texts, k - 1) \div W
  BY Zenon, LengthIs DEF Whole, All, K
<1>16. EndOf(texts, K) <= W * m
  BY Zenon, <1>6 DEF EndOf, L, S, K
<1>17. QED
  BY Zenon, <1>1, <1>2, <1>13, <1>14, <1>15, <1>16 DEF Layout, S, m, K

LEMMA TextsDiffer ==
  ASSUME TypeOK, TextsGiven
  PROVE  \A k \in 1 .. Len(texts) : \A l \in 1 .. Len(texts) : texts[k] = texts[l] => k = l
<1>1. SUFFICES ASSUME NEW k \in 1 .. Len(texts), NEW l \in 1 .. Len(texts), texts[k] = texts[l]
               PROVE  k = l
  BY Zenon
<1>2. texts[k][1] = <<k, 1>> /\ texts[l][1] = <<l, 1>>
  BY Zenon, TextsFacts
<1>3. <<k, 1>> = <<l, 1>>
  BY Zenon, <1>1, <1>2
<1>4. QED
  BY <1>3

LEMMA ReceiveExact ==
  ASSUME IInv, WordWidth, receiveResultStrings, Whole, Fits
  PROVE  Len(results') = Len(texts) /\ ToSet(results') = ToSet(texts)
<1>1. TypeOK /\ TextsGiven /\ WordsExact
  BY Zenon DEF IInv
<1>2. phase = "stored" /\ results' = Split(Chars)
  BY Zenon DEF receiveResultStrings, Chars
<1>3. ~Spills
  BY Zenon, <1>1, WholeNoSpill
<1>4. Exactly
  BY Zenon, <1>1, <1>2, <1>3, WordsExactIs
<1>5. Layout(texts, Chars, Len(stored))
  BY Zenon, <1>1, <1>4, LayoutHolds
<1>6. \A k \in 1 .. Len(texts) : \A l \in 1 .. Len(texts) : texts[k] = texts[l] => k = l
  BY Zenon, <1>1, TextsDiffer
<1>7. Len(Split(Chars)) = Len(texts) /\ ToSet(Split(Chars)) = ToSet(texts)
  BY Zenon, <1>5, <1>6, SplitIsTexts
<1>8. QED
  BY Zenon, <1>2, <1>7

LEMMA ResultsExactNext ==
  IInv /\ WordWidth /\ ResultsExact /\ [Next]_vars => ResultsExact'
<1> SUFFICES ASSUME IInv, WordWidth, ResultsExact, [Next]_vars PROVE ResultsExact'
  OBVIOUS
<1>1. ASSUME texts' = texts
      PROVE  (Whole' <=> Whole) /\ (Fits' <=> Fits)
  BY Zenon, <1>1 DEF Whole, Fits, Length, Stream, All
<1>2. CASE phase' # "fetched"
  BY Zenon, <1>2 DEF ResultsExact
<1>3. CASE receiveResultStrings
  <2>1. texts' = texts
    BY Zenon, <1>3 DEF receiveResultStrings
  <2>2. CASE Whole /\ Fits
    <3>1. Len(results') = Len(texts) /\ ToSet(results') = ToSet(texts)
      BY Zenon, <1>3, <2>2, ReceiveExact
    <3>2. QED
      BY Zenon, <2>1, <3>1 DEF ResultsExact, All
  <2>3. CASE ~(Whole /\ Fits)
    BY Zenon, <1>1, <2>1, <2>3 DEF ResultsExact
  <2>4. QED
    BY Zenon, <2>2, <2>3
<1>4. CASE UNCHANGED vars
  <2>1. texts' = texts /\ results' = results /\ phase' = phase
    BY <1>4 DEF vars, regs
  <2>2. QED
    BY Zenon, <1>1, <2>1 DEF ResultsExact, All
<1>5. CASE ValidOutput \/ FinalImage \/ Cycle \/ Clear
  <2>1. "images" # "fetched" /\ "final" # "fetched" /\ "stored" # "fetched"
    OBVIOUS
  <2>2. phase' \in {"images", "final", "stored"}
    <3>1. CASE Cycle
      <4>1. phase \in {"images", "final"} /\ phase' = IF OCR_RX_done THEN "stored" ELSE phase
        BY Zenon, <3>1 DEF Cycle
      <4>2. QED
        BY <4>1
    <3>2. CASE ValidOutput
      <4>1. phase = "images" /\ phase' = phase
        BY <3>2 DEF ValidOutput
      <4>2. QED
        BY <4>1
    <3>3. CASE FinalImage \/ Clear
      <4>1. phase' = "final" \/ phase' = "images"
        BY Zenon, <3>3 DEF FinalImage, Clear
      <4>2. QED
        BY <4>1
    <3>4. QED
      BY <1>5, <3>1, <3>2, <3>3
  <2>3. phase' # "fetched"
    BY <2>1, <2>2
  <2>4. QED
    BY <1>2, <2>3
<1>6. QED
  BY Zenon, <1>3, <1>4, <1>5 DEF Next

-----------------------------------------------------------------------------
(* Theorems. *)

LEMMA Invariant == Spec => []IInv
<1> USE DEF Spec
<1>1. Init => IInv
  BY InitInv
<1>2. IInv /\ [Next]_vars => IInv'
  BY NextInv
<1> HIDE DEF IInv, Init, Next
<1>3. QED
  BY <1>1, <1>2, PTL

\* Every variable has its type: the registers and Result_FILO their widths, and what the
\* software reads is a sequence of texts, however many words are missing in the buffer.
THEOREM Typing == Spec => []TypeOK
<1>1. IInv => TypeOK
  BY Zenon DEF IInv
<1>2. QED
  BY <1>1, Invariant, PTL

\* The words in Result_FILO are the texts of the strip, in order, nothing lost and nothing
\* twice, filled up with nulls; the header has their number.  For every width of a word,
\* every length of a text, every time between two texts: if no text spills, and the
\* words fit.
THEOREM WordsStored == Spec => []WordsExact
<1>1. IInv => WordsExact
  BY Zenon DEF IInv
<1>2. QED
  BY <1>1, Invariant, PTL

\* The software gets every text of the strip, and no other, once: if each text is in one
\* word with the null before it, and the words fit.  Then a text is read with its first
\* character first, and between two nulls; the order of the texts is not the one in the
\* strip.
THEOREM TextsRead == Spec => []ResultsExact
<1> USE DEF Spec
<1>1. Init => WordWidth /\ ResultsExact
  <2> SUFFICES ASSUME Init PROVE WordWidth /\ ResultsExact
    OBVIOUS
  <2>1. stored = <<>> /\ phase = "images"
    BY Zenon DEF Init
  <2>2. 1 .. 0 = {} /\ "images" # "fetched"
    OBVIOUS
  <2>3. WordWidth
    BY Zenon, <2>1, <2>2, SmallLen DEF WordWidth, OfWords
  <2>4. ResultsExact
    BY Zenon, <2>1, <2>2 DEF ResultsExact
  <2>5. QED
    BY <2>3, <2>4
<1>2. IInv /\ WordWidth /\ ResultsExact /\ [Next]_vars => WordWidth' /\ ResultsExact'
  <2>1. IInv => TypeOK
    BY Zenon DEF IInv
  <2>2. QED
    BY Zenon, <2>1, WordWidthNext, ResultsExactNext
<1> HIDE DEF IInv, WordWidth, ResultsExact, Init, Next
<1>3. QED
  BY <1>1, <1>2, Invariant, PTL
=============================================================================
