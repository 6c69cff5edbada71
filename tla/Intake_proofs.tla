--------------------------- MODULE Intake_proofs ---------------------------
(***************************************************************************)
(* The properties of Intake for any requests, caps, names and addresses.   *)
(*                                                                         *)
(* The first half is about Sanitize, for identifiers of any length.  What  *)
(* Collapsed and Words compute, one character after the other, is proved   *)
(* by induction on a set of numbers (Upward).  The second half is the      *)
(* inductive invariant of the handler.                                     *)
(***************************************************************************)
EXTENDS Intake, FiniteSetTheorems, SequenceTheorems, WellFoundedInduction, TLAPS

Text == Seq(Characters)

\* A set of numbers that holds 0 and every successor holds them all.
LEMMA Upward ==
    ASSUME NEW top \in Nat, NEW S, 0 \in S, \A n \in 1..top : n - 1 \in S => n \in S
    PROVE  \A n \in 0..top : n \in S
<1> DEFINE T == {n \in 0..top : n \notin S}
<1>1. SUFFICES ASSUME T # {} PROVE FALSE OBVIOUS
<1>2. PICK x \in T : \A y \in T : ~(<<y, x>> \in OpToRel(<, Nat))
  <2>1. T \subseteq Nat OBVIOUS
  <2> HIDE DEF T
  <2> QED BY <1>1, <2>1, NatLessThanWellFounded, WFMin
<1>3. x \in 1..top /\ x - 1 \in 0..top /\ x \notin S OBVIOUS
<1>4. x - 1 \notin S BY <1>3
<1>5. <<x - 1, x>> \in OpToRel(<, Nat) BY <1>3 DEF OpToRel
<1> QED BY <1>2, <1>3, <1>4, <1>5

\* Values that follow from one another, along a text.
Folds(f, X, base, g, s) ==
    f \in [0..Len(s) -> X] /\ f[0] = base /\ \A n \in 1..Len(s) : f[n] = g[<<f[n - 1], s[n]>>]

LEMMA Folding ==
    ASSUME NEW X, NEW base \in X, NEW s \in Text, NEW g \in [X \X Characters -> X]
    PROVE  \E f : Folds(f, X, base, g, s)
<1> DEFINE Follows(f, n) == f[0] = base /\ \A k \in 1..n : f[k] = g[<<f[k - 1], s[k]>>]
           S == {n \in 0..Len(s) : \E f \in [0..n -> X] : Follows(f, n)}
<1>1. Len(s) \in Nat /\ \A n \in 1..Len(s) : s[n] \in Characters BY DEF Text
<1>2. 0 \in S
  <2> DEFINE f == [n \in 0..0 |-> base]
  <2>1. f \in [0..0 -> X] /\ Follows(f, 0) OBVIOUS
  <2> HIDE DEF f, Follows
  <2> QED BY <1>1, <2>1
<1>3. ASSUME NEW n \in 1..Len(s), n - 1 \in S PROVE n \in S
  <2>1. PICK f \in [0..n - 1 -> X] : Follows(f, n - 1) BY <1>3
  <2> DEFINE h == [k \in 0..n |-> IF k = n THEN g[<<f[n - 1], s[n]>>] ELSE f[k]]
  <2>2. g[<<f[n - 1], s[n]>>] \in X BY <1>1
  <2>3. h \in [0..n -> X] BY <2>2
  <2>4. \A k \in 0..n - 1 : h[k] = f[k] OBVIOUS
  <2>5. h[n] = g[<<f[n - 1], s[n]>>] OBVIOUS
  <2> HIDE DEF h
  <2>6. h[0] = base BY <2>1, <2>4
  <2>7. ASSUME NEW k \in 1..n PROVE h[k] = g[<<h[k - 1], s[k]>>]
    <3>1. CASE k = n BY <2>4, <2>5, <3>1
    <3>2. CASE k # n
      <4>1. k \in 1..n - 1 /\ k \in 0..n - 1 /\ k - 1 \in 0..n - 1 BY <3>2
      <4> QED BY <2>1, <2>4, <4>1
    <3> QED BY <3>1, <3>2
  <2> QED BY <2>3, <2>6, <2>7
<1> HIDE DEF S
<1>4. \A n \in 1..Len(s) : n - 1 \in S => n \in S BY <1>3
<1>5. \A n \in 0..Len(s) : n \in S BY <1>1, <1>2, <1>4, Upward
<1>6. Len(s) \in S BY <1>1, <1>5
<1> QED BY <1>6 DEF S, Folds

-----------------------------------------------------------------------------
(* Collapsed                                                               *)

\* What Collapsed has written after each character.
Writes(f, s) ==
    f \in [0..Len(s) -> Text] /\ f[0] = <<>> /\ \A n \in 1..Len(s) : f[n] = Write(f[n - 1], s[n])

LEMMA WriteType == ASSUME NEW done \in Text, NEW c \in Characters PROVE Write(done, c) \in Text
<1>1. \A x \in Characters : Append(done, x) \in Text BY DEF Text
<1>2. "-" \in Characters BY IntakeAssumption
<1> QED BY <1>1, <1>2 DEF Write

LEMMA Collapsing ==
    ASSUME NEW s \in Text
    PROVE  /\ \E f : Writes(f, s)
           /\ \A f : Writes(f, s) => Collapsed(s) = f[Len(s)]
<1> DEFINE g == [p \in Text \X Characters |-> Write(p[1], p[2])]
           c == CHOOSE out : out = [n \in 0..Len(s) |-> IF n = 0 THEN <<>> ELSE Write(out[n - 1], s[n])]
<1>1. g \in [Text \X Characters -> Text] BY WriteType
<1>2. Len(s) \in Nat /\ <<>> \in Text /\ \A n \in 1..Len(s) : s[n] \in Characters BY DEF Text
<1> DEFINE X == Text
           base == <<>>
<1>3. s \in Text /\ base \in X /\ g \in [X \X Characters -> X] BY <1>1, <1>2
<1> HIDE DEF g, X, base
<1>4. PICK f : Folds(f, X, base, g, s) BY <1>3, Folding
<1>5. f \in [0..Len(s) -> Text] /\ f[0] = <<>> /\ \A n \in 1..Len(s) : f[n] = Write(f[n - 1], s[n])
  <2>1. f \in [0..Len(s) -> Text] /\ f[0] = <<>> BY <1>4 DEF Folds, X, base
  <2>2. ASSUME NEW n \in 1..Len(s) PROVE f[n] = Write(f[n - 1], s[n])
    <3>1. f[n - 1] \in Text BY <1>2, <2>1
    <3>2. f[n] = g[<<f[n - 1], s[n]>>] BY <1>4 DEF Folds
    <3> QED BY <1>2, <3>1, <3>2 DEF g
  <2> QED BY <2>1, <2>2
<1>6. Writes(f, s) BY <1>5 DEF Writes
<1>7. c = [n \in 0..Len(s) |-> IF n = 0 THEN <<>> ELSE Write(c[n - 1], s[n])]
  <2>1. f = [n \in 0..Len(s) |-> IF n = 0 THEN <<>> ELSE Write(f[n - 1], s[n])]
    BY <1>2, <1>5
  <2> QED BY <2>1
<1>8. Collapsed(s) = c[Len(s)] BY DEF Collapsed
<1> HIDE DEF c
<1>9. ASSUME NEW h, Writes(h, s) PROVE Collapsed(s) = h[Len(s)]
  <2> DEFINE S == {n \in 0..Len(s) : h[n] = c[n]}
  <2>1. 0 \in S BY <1>2, <1>7, <1>9 DEF Writes
  <2>2. ASSUME NEW n \in 1..Len(s), n - 1 \in S PROVE n \in S
    <3>1. c[n] = Write(c[n - 1], s[n]) BY <1>7
    <3> QED BY <1>9, <2>2, <3>1 DEF Writes
  <2> HIDE DEF S
  <2>3. \A n \in 1..Len(s) : n - 1 \in S => n \in S BY <2>2
  <2>4. \A n \in 0..Len(s) : n \in S BY <1>2, <2>1, <2>3, Upward
  <2>5. Len(s) \in S BY <1>2, <2>4
  <2> QED BY <1>8, <2>5 DEF S
<1>10. \E h : Writes(h, s) BY <1>6, Zenon
<1> QED BY <1>9, <1>10

-----------------------------------------------------------------------------
(* Words                                                                   *)

\* What Words has found after each character.
Finds(f, s) ==
    f \in [0..Len(s) -> Text] /\ f[0] = <<>> /\ \A n \in 1..Len(s) : f[n] = Find(f[n - 1], s[n])

LEMMA FindType == ASSUME NEW found \in Text, NEW c \in Characters PROVE Find(found, c) \in Text
BY DEF Find, Text

LEMMA Finding ==
    ASSUME NEW s \in Text
    PROVE  /\ \E f : Finds(f, s)
           /\ \A f : Finds(f, s) => Words(s) = f[Len(s)]
<1> DEFINE g == [p \in Text \X Characters |-> Find(p[1], p[2])]
           c == CHOOSE out : out = [n \in 0..Len(s) |-> IF n = 0 THEN <<>> ELSE Find(out[n - 1], s[n])]
<1>1. g \in [Text \X Characters -> Text] BY FindType
<1>2. Len(s) \in Nat /\ <<>> \in Text /\ \A n \in 1..Len(s) : s[n] \in Characters BY DEF Text
<1> DEFINE X == Text
           base == <<>>
<1>3. s \in Text /\ base \in X /\ g \in [X \X Characters -> X] BY <1>1, <1>2
<1> HIDE DEF g, X, base
<1>4. PICK f : Folds(f, X, base, g, s) BY <1>3, Folding
<1>5. f \in [0..Len(s) -> Text] /\ f[0] = <<>> /\ \A n \in 1..Len(s) : f[n] = Find(f[n - 1], s[n])
  <2>1. f \in [0..Len(s) -> Text] /\ f[0] = <<>> BY <1>4 DEF Folds, X, base
  <2>2. ASSUME NEW n \in 1..Len(s) PROVE f[n] = Find(f[n - 1], s[n])
    <3>1. f[n - 1] \in Text BY <1>2, <2>1
    <3>2. f[n] = g[<<f[n - 1], s[n]>>] BY <1>4 DEF Folds
    <3> QED BY <1>2, <3>1, <3>2 DEF g
  <2> QED BY <2>1, <2>2
<1>6. Finds(f, s) BY <1>5 DEF Finds
<1>7. c = [n \in 0..Len(s) |-> IF n = 0 THEN <<>> ELSE Find(c[n - 1], s[n])]
  <2>1. f = [n \in 0..Len(s) |-> IF n = 0 THEN <<>> ELSE Find(f[n - 1], s[n])]
    BY <1>2, <1>5
  <2> QED BY <2>1
<1>8. Words(s) = c[Len(s)] BY DEF Words
<1> HIDE DEF c
<1>9. ASSUME NEW h, Finds(h, s) PROVE Words(s) = h[Len(s)]
  <2> DEFINE S == {n \in 0..Len(s) : h[n] = c[n]}
  <2>1. 0 \in S BY <1>2, <1>7, <1>9 DEF Finds
  <2>2. ASSUME NEW n \in 1..Len(s), n - 1 \in S PROVE n \in S
    <3>1. c[n] = Find(c[n - 1], s[n]) BY <1>7
    <3> QED BY <1>9, <2>2, <3>1 DEF Finds
  <2> HIDE DEF S
  <2>3. \A n \in 1..Len(s) : n - 1 \in S => n \in S BY <2>2
  <2>4. \A n \in 0..Len(s) : n \in S BY <1>2, <2>1, <2>3, Upward
  <2>5. Len(s) \in S BY <1>2, <2>4
  <2> QED BY <1>8, <2>5 DEF S
<1>10. \E h : Finds(h, s) BY <1>6, Zenon
<1> QED BY <1>9, <1>10

LEMMA WordsType == ASSUME NEW s \in Text PROVE Words(s) \in Text
<1>1. PICK f : Finds(f, s) BY Finding
<1>2. Len(s) \in 0..Len(s) BY DEF Text
<1> QED BY <1>1, <1>2, Finding DEF Finds

\* What is found in the beginning of a text is found first.
LEMMA WordsOfStart ==
    ASSUME NEW s \in Text, NEW n \in 0..Len(s)
    PROVE  IsPrefix(Words(SubSeq(s, 1, n)), Words(s))
<1> DEFINE t == SubSeq(s, 1, n)
<1>1. t \in Text /\ Len(t) = n /\ Len(s) \in Nat /\ \A k \in 1..n : t[k] = s[k] BY DEF Text
<1>2. PICK f : Finds(f, s) BY Finding
<1> DEFINE h == [k \in 0..n |-> f[k]]
<1> HIDE DEF t
<1>3. Finds(h, t)
  <2>1. h \in [0..Len(t) -> Text] /\ h[0] = <<>> BY <1>1, <1>2 DEF Finds
  <2>2. ASSUME NEW k \in 1..Len(t) PROVE h[k] = Find(h[k - 1], t[k])
    <3>1. f[k] = Find(f[k - 1], s[k]) BY <1>1, <1>2 DEF Finds
    <3> QED BY <1>1, <3>1
  <2> QED BY <2>1, <2>2 DEF Finds
<1>4. Words(t) = f[n] /\ Words(s) = f[Len(s)]
  <2>1. Words(t) = h[Len(t)] BY <1>1, <1>3, Finding
  <2>2. h[n] = f[n] OBVIOUS
  <2> QED BY <1>1, <1>2, <2>1, <2>2, Finding
<1> DEFINE S == {m \in 0..Len(s) : m >= n => IsPrefix(f[n], f[m])}
<1>5. IsPrefix(f[n], f[n]) BY <1>1, <1>2 DEF Finds, IsPrefix, Text
<1>6. 0 \in S BY <1>1, <1>5
<1>7. ASSUME NEW m \in 1..Len(s), m - 1 \in S PROVE m \in S
  <2>1. CASE m <= n BY <1>5, <2>1
  <2>2. CASE m > n
    <3>1. IsPrefix(f[n], f[m - 1]) BY <1>7, <2>2
    <3>2. f[n] \in Text /\ f[m - 1] \in Text /\ s[m] \in Characters BY <1>2, <1>7 DEF Finds, Text
    <3>3. f[m] = Find(f[m - 1], s[m]) BY <1>2 DEF Finds
    <3>4. ASSUME NEW a \in Text, NEW b \in Text, NEW x \in Characters, IsPrefix(a, b)
          PROVE  IsPrefix(a, Append(b, x))
      <4>1. Len(a) <= Len(b) /\ SubSeq(a, 1, Len(a)) = SubSeq(b, 1, Len(a)) BY <3>4 DEF IsPrefix
      <4>2. SubSeq(Append(b, x), 1, Len(a)) = SubSeq(b, 1, Len(a)) BY <4>1 DEF Text
      <4>3. Len(Append(b, x)) = Len(b) + 1 /\ Len(a) \in Nat /\ Len(b) \in Nat BY DEF Text
      <4> QED BY <4>1, <4>2, <4>3 DEF IsPrefix
    <3> QED BY <3>1, <3>2, <3>3, <3>4 DEF Find
  <2> QED BY <1>1, <2>1, <2>2
<1> HIDE DEF S
<1>8. \A m \in 1..Len(s) : m - 1 \in S => m \in S BY <1>7
<1>9. \A m \in 0..Len(s) : m \in S BY <1>1, <1>6, <1>8, Upward
<1>10. IsPrefix(f[n], f[Len(s)]) BY <1>1, <1>9 DEF S
<1> QED BY <1>4, <1>10 DEF t

LEMMA WordsOfAppend ==
    ASSUME NEW t \in Text, NEW c \in Characters PROVE Words(Append(t, c)) = Find(Words(t), c)
<1> DEFINE s == Append(t, c)
<1>1. /\ s \in Text /\ Len(s) = Len(t) + 1 /\ Len(t) \in Nat /\ s[Len(s)] = c
      /\ \A k \in 1..Len(t) : s[k] = t[k]
  BY DEF Text
<1> HIDE DEF s
<1>2. PICK f : Finds(f, s) BY <1>1, Finding
<1> DEFINE h == [k \in 0..Len(t) |-> f[k]]
<1>3. Finds(h, t) BY <1>1, <1>2 DEF Finds
<1>4. Words(t) = h[Len(t)] BY <1>3, Finding
<1>5. Words(s) = f[Len(s)] BY <1>1, <1>2, Finding
<1>6. f[Len(s)] = Find(f[Len(t)], c) BY <1>1, <1>2 DEF Finds
<1>7. h[Len(t)] = f[Len(t)] BY <1>1
<1> QED BY <1>4, <1>5, <1>6, <1>7 DEF s

\* A dash in front does not matter.
LEMMA WordsOfTail ==
    ASSUME NEW s \in Text, s # <<>>, ~IsWord(s[1]) PROVE Words(Tail(s)) = Words(s)
<1> DEFINE t == Tail(s)
<1>1. /\ t \in Text /\ Len(t) = Len(s) - 1 /\ Len(s) \in Nat /\ Len(s) >= 1
      /\ \A k \in 1..Len(t) : t[k] = s[k + 1]
  BY DEF Text
<1> HIDE DEF t
<1>2. PICK f : Finds(f, s) BY Finding
<1>3. f[1] = <<>> BY <1>1, <1>2 DEF Finds, Find
<1> DEFINE h == [k \in 0..Len(t) |-> f[k + 1]]
<1>4. Finds(h, t)
  <2>1. h \in [0..Len(t) -> Text] /\ h[0] = <<>> BY <1>1, <1>2, <1>3 DEF Finds
  <2>2. ASSUME NEW n \in 1..Len(t) PROVE h[n] = Find(h[n - 1], t[n])
    <3>1. f[n + 1] = Find(f[n], s[n + 1]) BY <1>1, <1>2 DEF Finds
    <3> QED BY <1>1, <3>1
  <2> QED BY <2>1, <2>2 DEF Finds
<1>5. Words(t) = h[Len(t)] BY <1>1, <1>4, Finding
<1>6. Words(s) = f[Len(s)] BY <1>2, Finding
<1>7. h[Len(t)] = f[Len(s)] BY <1>1
<1> QED BY <1>5, <1>6, <1>7 DEF t

-----------------------------------------------------------------------------
(* Sanitize                                                                *)

\* Words with single dashes between them, and perhaps one in front and one behind.
Spaced(t) ==
    /\ t \in Text
    /\ \A j \in 1..Len(t) : IsWord(t[j]) \/ (t[j] = "-" /\ (j > 1 => IsWord(t[j - 1])))

LEMMA WriteSpaced ==
    ASSUME NEW done, Spaced(done), NEW c \in Characters
    PROVE  Spaced(Write(done, c)) /\ Words(Write(done, c)) = Find(Words(done), c)
<1>1. done \in Text /\ Len(done) \in Nat /\ "-" \in Characters
  BY IntakeAssumption DEF Spaced, Text
<1>2. ASSUME NEW x \in Characters
      PROVE  /\ Append(done, x) \in Text /\ Len(Append(done, x)) = Len(done) + 1
             /\ Append(done, x)[Len(done) + 1] = x
             /\ \A j \in 1..Len(done) : Append(done, x)[j] = done[j]
  BY <1>1 DEF Text
<1>3. CASE IsWord(c)
  <2>1. Spaced(Append(done, c)) BY <1>1, <1>2, <1>3 DEF Spaced
  <2> QED BY <1>1, <1>3, <2>1, WordsOfAppend DEF Write
<1>4. CASE ~IsWord(c) /\ done # <<>> /\ IsDash(Last(done)) BY <1>4 DEF Write, Find
<1>5. CASE ~IsWord(c) /\ ~(done # <<>> /\ IsDash(Last(done)))
  <2>1. Len(done) > 0 => IsWord(done[Len(done)])
    <3>1. done # <<>> => Len(done) > 0 BY <1>1 DEF Text
    <3>2. Len(done) > 0 => done # <<>> BY <1>1 DEF Text
    <3>3. Len(done) > 0 => done[Len(done)] # "-" BY <1>5, <3>2 DEF IsDash, Last
    <3> QED BY <1>1, <3>3 DEF Spaced
  <2>2. ASSUME NEW j \in 1..Len(done) + 1
        PROVE  IsWord(Append(done, "-")[j])
               \/ (Append(done, "-")[j] = "-" /\ (j > 1 => IsWord(Append(done, "-")[j - 1])))
    <3>1. CASE j = Len(done) + 1
      <4>1. j > 1 => j - 1 \in 1..Len(done) /\ j - 1 = Len(done) /\ Len(done) > 0 BY <1>1, <3>1
      <4> QED BY <1>1, <1>2, <2>1, <3>1, <4>1
    <3>2. CASE j # Len(done) + 1
      <4>1. j \in 1..Len(done) /\ (j > 1 => j - 1 \in 1..Len(done)) BY <1>1, <3>2
      <4> QED BY <1>1, <1>2, <4>1 DEF Spaced
    <3> QED BY <3>1, <3>2
  <2>3. Spaced(Append(done, "-")) BY <1>1, <1>2, <2>2 DEF Spaced
  <2>4. ~IsWord("-") BY DEF IsWord
  <2>5. Words(Append(done, "-")) = Words(done) BY <1>1, <2>4, WordsOfAppend DEF Find
  <2>6. Write(done, c) = Append(done, "-") BY <1>5 DEF Write
  <2> QED BY <1>5, <2>3, <2>5, <2>6 DEF Find
<1> QED BY <1>3, <1>4, <1>5

LEMMA CollapsedIsSpaced ==
    ASSUME NEW s \in Text PROVE Spaced(Collapsed(s)) /\ Words(Collapsed(s)) = Words(s)
<1>1. PICK f : Writes(f, s) BY Collapsing
<1>2. PICK w : Finds(w, s) BY Finding
<1>3. Collapsed(s) = f[Len(s)] /\ Words(s) = w[Len(s)] BY <1>1, <1>2, Collapsing, Finding
<1>4. Len(s) \in Nat /\ \A n \in 1..Len(s) : s[n] \in Characters BY DEF Text
<1> DEFINE S == {n \in 0..Len(s) : Spaced(f[n]) /\ Words(f[n]) = w[n]}
<1>5. 0 \in S
  <2>1. f[0] = <<>> /\ w[0] = <<>> /\ <<>> \in Text /\ Len(<<>>) = 0
    BY <1>1, <1>2 DEF Writes, Finds, Text
  <2>2. Spaced(<<>>) BY <2>1 DEF Spaced
  <2>3. Words(<<>>) = <<>>
    <3>1. PICK e : Finds(e, <<>>) BY <2>1, Finding
    <3>2. Words(<<>>) = e[0] BY <2>1, <3>1, Finding
    <3> QED BY <3>1, <3>2 DEF Finds
  <2> QED BY <1>4, <2>1, <2>2, <2>3
<1>6. ASSUME NEW n \in 1..Len(s), n - 1 \in S PROVE n \in S
  <2>1. f[n] = Write(f[n - 1], s[n]) /\ w[n] = Find(w[n - 1], s[n])
    BY <1>1, <1>2 DEF Writes, Finds
  <2>2. Spaced(f[n - 1]) /\ Words(f[n - 1]) = w[n - 1] BY <1>6
  <2>3. Spaced(f[n]) /\ Words(f[n]) = Find(Words(f[n - 1]), s[n])
    BY <1>4, <2>1, <2>2, WriteSpaced
  <2> QED BY <2>1, <2>2, <2>3
<1> HIDE DEF S
<1>7. \A n \in 1..Len(s) : n - 1 \in S => n \in S BY <1>6
<1>8. \A n \in 0..Len(s) : n \in S BY <1>4, <1>5, <1>7, Upward
<1>9. Len(s) \in S BY <1>4, <1>8
<1> QED BY <1>3, <1>9 DEF S

LEMMA CollapsedAgain == ASSUME NEW t, Spaced(t) PROVE Collapsed(t) = t
<1>1. t \in Text /\ Len(t) \in Nat BY DEF Spaced, Text
<1> DEFINE f == [n \in 0..Len(t) |-> SubSeq(t, 1, n)]
<1>2. ASSUME NEW n \in 0..Len(t)
      PROVE  /\ SubSeq(t, 1, n) \in Text /\ Len(SubSeq(t, 1, n)) = n
             /\ \A j \in 1..n : SubSeq(t, 1, n)[j] = t[j]
  BY <1>1 DEF Text
<1>3. ASSUME NEW n \in 1..Len(t) PROVE SubSeq(t, 1, n) = Write(SubSeq(t, 1, n - 1), t[n])
  <2> DEFINE a == SubSeq(t, 1, n - 1)
  <2>1. SubSeq(t, 1, n) = Append(a, t[n]) BY <1>1 DEF Text
  <2>2. a \in Text /\ Len(a) = n - 1 /\ \A j \in 1..n - 1 : a[j] = t[j] BY <1>2
  <2> HIDE DEF a
  <2>3. CASE IsWord(t[n]) BY <2>1, <2>3 DEF Write, a
  <2>4. CASE ~IsWord(t[n])
    <3>1. t[n] = "-" /\ (n > 1 => IsWord(t[n - 1])) BY <2>4 DEF Spaced
    <3>2. a # <<>> => ~IsDash(Last(a))
      <4>1. a # <<>> => n > 1 BY <2>2 DEF Text
      <4>2. n > 1 => Last(a) = t[n - 1] BY <2>2 DEF Last
      <4> QED BY <3>1, <4>1, <4>2 DEF IsDash, IsWord
    <3> QED BY <2>1, <2>4, <3>1, <3>2 DEF Write, a
  <2> QED BY <2>3, <2>4
<1>4. Writes(f, t)
  <2>1. f \in [0..Len(t) -> Text] BY <1>2
  <2>2. f[0] = <<>> BY <1>1 DEF Text
  <2>3. ASSUME NEW n \in 1..Len(t) PROVE f[n] = Write(f[n - 1], t[n])
    <3>1. f[n] = SubSeq(t, 1, n) /\ f[n - 1] = SubSeq(t, 1, n - 1) BY <1>1
    <3> HIDE DEF f
    <3> QED BY <1>3, <3>1
  <2> HIDE DEF f
  <2> QED BY <2>1, <2>2, <2>3 DEF Writes
<1>5. f[Len(t)] = t BY <1>1 DEF Text
<1> HIDE DEF f
<1> QED BY <1>1, <1>4, <1>5, Collapsing

\* The beginning of a spaced text, without the dash it may end in.
LEMMA Trimming ==
    ASSUME NEW t, Spaced(t), NEW n \in 0..Len(t)
    PROVE  LET a == SubSeq(t, 1, n)
               r == TrimRight(a)
           IN  /\ Spaced(a) /\ Spaced(r) /\ Len(r) <= n /\ Len(r) \in Nat
               /\ r = SubSeq(t, 1, Len(r))
               /\ Len(r) > 0 => IsWord(r[Len(r)])
               /\ n > 0 /\ IsWord(t[n]) => r = a
<1> DEFINE a == SubSeq(t, 1, n)
           b == SubSeq(t, 1, n - 1)
           r == TrimRight(a)
<1>1. t \in Text /\ Len(t) \in Nat BY DEF Spaced, Text
<1>2. a \in Text /\ Len(a) = n /\ \A j \in 1..n : a[j] = t[j] BY <1>1 DEF Text
<1>3. Front(a) = b /\ (n > 0 => b \in Text /\ Len(b) = n - 1 /\ \A j \in 1..n - 1 : b[j] = t[j])
  BY <1>1 DEF Text, Front
<1>4. Spaced(a) BY <1>1, <1>2 DEF Spaced
<1>5. n > 0 => Spaced(b) BY <1>1, <1>3 DEF Spaced
<1>6. a = SubSeq(t, 1, n) /\ b = SubSeq(t, 1, n - 1) OBVIOUS
<1> HIDE DEF a, b, r
<1>7. /\ Spaced(a) /\ Spaced(r) /\ Len(r) <= n /\ Len(r) \in Nat
      /\ r = SubSeq(t, 1, Len(r))
      /\ Len(r) > 0 => IsWord(r[Len(r)])
      /\ n > 0 /\ IsWord(t[n]) => r = a
  <2>1. CASE n = 0
    <3>1. a = <<>> BY <1>2, <2>1 DEF Text
    <3>2. r = a BY <3>1 DEF TrimRight, r
    <3> QED BY <1>2, <1>4, <2>1, <1>6, <3>2
  <2>2. CASE n > 0
    <3>1. a # <<>> /\ Last(a) = t[n] BY <1>2, <2>2 DEF Last
    <3>2. CASE t[n] = "-"
      <4>1. r = b BY <1>3, <3>1, <3>2 DEF TrimRight, IsDash, r
      <4>2. n > 1 => IsWord(t[n - 1]) /\ b[n - 1] = t[n - 1]
        BY <1>1, <1>3, <3>2 DEF Spaced, IsWord
      <4>3. ~IsWord(t[n]) BY <3>2 DEF IsWord
      <4> QED BY <1>3, <1>4, <1>5, <2>2, <1>6, <4>1, <4>2, <4>3
    <3>3. CASE t[n] # "-"
      <4>1. r = a BY <3>1, <3>3 DEF TrimRight, IsDash, r
      <4>2. IsWord(t[n]) BY <1>1, <2>2, <3>3 DEF Spaced
      <4> QED BY <1>2, <1>4, <2>2, <1>6, <4>1, <4>2
    <3> QED BY <3>2, <3>3
  <2> QED BY <1>1, <2>1, <2>2
<1> QED BY <1>7 DEF a, r

\* A spaced text without the dash it may begin with.
LEMMA Starting ==
    ASSUME NEW t, Spaced(t)
    PROVE  LET l == TrimLeft(t)
           IN  /\ Spaced(l) /\ Len(l) \in Nat /\ Words(l) = Words(t)
               /\ Len(l) > 0 => IsWord(l[1])
               /\ Len(l) > 0 /\ IsWord(t[Len(t)]) => IsWord(l[Len(l)])
               /\ Len(t) > 0 /\ IsWord(t[1]) => l = t
<1> DEFINE u == Tail(t)
           l == TrimLeft(t)
<1>1. t \in Text /\ Len(t) \in Nat BY DEF Spaced, Text
<1>2. Len(t) > 0 => /\ t # <<>> /\ Head(t) = t[1] /\ u \in Text /\ Len(u) = Len(t) - 1
                    /\ \A j \in 1..Len(t) - 1 : u[j] = t[j + 1]
  BY <1>1 DEF Text
<1>3. ~(Len(t) > 0) => t = <<>> BY <1>1 DEF Text
<1>4. l = IF t # <<>> /\ IsDash(Head(t)) THEN u ELSE t BY DEF TrimLeft
<1> HIDE DEF u, l
<1>5. /\ Spaced(l) /\ Len(l) \in Nat /\ Words(l) = Words(t)
      /\ Len(l) > 0 => IsWord(l[1])
      /\ Len(l) > 0 /\ IsWord(t[Len(t)]) => IsWord(l[Len(l)])
      /\ Len(t) > 0 /\ IsWord(t[1]) => l = t
  <2>1. CASE ~(Len(t) > 0)
    <3>1. l = t BY <1>3, <1>4, <2>1
    <3> QED BY <1>1, <2>1, <3>1
  <2>2. CASE Len(t) > 0 /\ t[1] # "-"
    <3>1. l = t BY <1>2, <1>4, <2>2 DEF IsDash
    <3>2. IsWord(t[1]) BY <1>1, <2>2 DEF Spaced
    <3> QED BY <1>1, <3>1, <3>2
  <2>3. CASE Len(t) > 0 /\ t[1] = "-"
    <3>1. l = u BY <1>2, <1>4, <2>3 DEF IsDash
    <3>2. ~IsWord(t[1]) BY <2>3 DEF IsWord
    <3>3. Words(u) = Words(t) BY <1>1, <1>2, <2>3, <3>2, WordsOfTail DEF u
    <3>4. Spaced(u)
      <4>1. u \in Text /\ Len(u) = Len(t) - 1 BY <1>2, <2>3
      <4>2. ASSUME NEW j \in 1..Len(u)
            PROVE  IsWord(u[j]) \/ (u[j] = "-" /\ (j > 1 => IsWord(u[j - 1])))
        <5>1. j + 1 \in 1..Len(t) /\ j + 1 > 1 /\ j + 1 - 1 = j BY <1>1, <4>1
        <5>2. IsWord(t[j + 1]) \/ (t[j + 1] = "-" /\ IsWord(t[j]))
          BY <5>1 DEF Spaced
        <5>3. u[j] = t[j + 1] BY <1>2, <2>3, <4>1
        <5>4. j > 1 => j - 1 \in 1..Len(t) - 1 /\ j - 1 + 1 = j BY <1>1, <4>1
        <5>5. j > 1 => u[j - 1] = t[j] BY <1>2, <2>3, <5>4
        <5> QED BY <5>2, <5>3, <5>5
      <4> QED BY <4>1, <4>2 DEF Spaced
    <3>5. Len(u) > 0 => IsWord(u[1])
      <4>1. Len(u) > 0 => 2 \in 1..Len(t) /\ u[1] = t[2] BY <1>1, <1>2, <2>3
      <4> QED BY <1>1, <3>2, <4>1 DEF Spaced
    <3>6. Len(u) > 0 => u[Len(u)] = t[Len(t)] BY <1>1, <1>2, <2>3
    <3> QED BY <1>1, <1>2, <2>3, <3>1, <3>2, <3>3, <3>4, <3>5, <3>6
  <2> QED BY <2>1, <2>2, <2>3
<1> QED BY <1>5 DEF l

\* What Sanitize returns, and that it returns it once more.
LEMMA Sanitized ==
    ASSUME NEW s \in Text
    PROVE  LET r == Sanitize(s)
           IN  /\ Spaced(r) /\ Len(r) \in 0..MaxIdentifierLen
               /\ Len(r) > 0 => IsWord(r[1]) /\ IsWord(r[Len(r)])
               /\ IsPrefix(Words(r), Words(s))
               /\ Sanitize(r) = r
<1> DEFINE c == Collapsed(s)
           d == TrimRight(c)
           e == TrimLeft(d)
           r == Sanitize(s)
<1>1. MaxIdentifierLen \in Nat BY IntakeAssumption
<1>2. r = IF Len(e) > MaxIdentifierLen THEN TrimRight(SubSeq(e, 1, MaxIdentifierLen)) ELSE e
  BY DEF Sanitize
<1>3. Spaced(c) /\ Words(c) = Words(s) BY CollapsedIsSpaced
<1> HIDE DEF c, r
<1>4. /\ Spaced(d) /\ Len(d) \in Nat /\ d = SubSeq(c, 1, Len(d)) /\ Len(d) \in 0..Len(c)
      /\ Len(d) > 0 => IsWord(d[Len(d)])
  <2>1. c \in Text /\ Len(c) \in Nat /\ SubSeq(c, 1, Len(c)) = c /\ Len(c) \in 0..Len(c)
    BY <1>3 DEF Spaced, Text
  <2> DEFINE x == SubSeq(c, 1, Len(c))
             y == TrimRight(x)
  <2>2. /\ Spaced(y) /\ Len(y) <= Len(c) /\ Len(y) \in Nat /\ y = SubSeq(c, 1, Len(y))
        /\ Len(y) > 0 => IsWord(y[Len(y)])
    BY <1>3, <2>1, Trimming
  <2>3. y = d BY <2>1
  <2> HIDE DEF x, y, d
  <2> QED BY <2>1, <2>2, <2>3
<1> HIDE DEF d
<1>5. IsPrefix(Words(d), Words(s))
  <2>1. c \in Text BY <1>3 DEF Spaced
  <2> QED BY <1>3, <1>4, <2>1, WordsOfStart
<1>6. /\ Spaced(e) /\ Len(e) \in Nat /\ Words(e) = Words(d)
      /\ Len(e) > 0 => IsWord(e[1]) /\ IsWord(e[Len(e)])
  <2>1. /\ Spaced(e) /\ Len(e) \in Nat /\ Words(e) = Words(d)
        /\ Len(e) > 0 => IsWord(e[1])
        /\ Len(e) > 0 /\ IsWord(d[Len(d)]) => IsWord(e[Len(e)])
    BY <1>4, Starting
  <2>2. Len(e) > 0 => Len(d) > 0
    <3>1. ~(Len(d) > 0) => d = <<>> BY <1>4 DEF Spaced, Text
    <3>2. d = <<>> => e = d BY DEF TrimLeft
    <3> QED BY <3>1, <3>2
  <2> QED BY <1>4, <2>1, <2>2
<1> HIDE DEF e
<1>7. IsPrefix(Words(e), Words(s)) BY <1>5, <1>6
<1>8. /\ Spaced(r) /\ Len(r) \in 0..MaxIdentifierLen /\ IsPrefix(Words(r), Words(s))
      /\ Len(r) > 0 => IsWord(r[1]) /\ IsWord(r[Len(r)])
  <2>1. CASE ~(Len(e) > MaxIdentifierLen) BY <1>1, <1>2, <1>6, <1>7, <2>1
  <2>2. CASE Len(e) > MaxIdentifierLen
    <3>1. MaxIdentifierLen \in 0..Len(e) /\ r = TrimRight(SubSeq(e, 1, MaxIdentifierLen))
      BY <1>1, <1>2, <1>6, <2>2
    <3>2. /\ Spaced(r) /\ Len(r) <= MaxIdentifierLen /\ Len(r) \in Nat
          /\ r = SubSeq(e, 1, Len(r))
          /\ Len(r) > 0 => IsWord(r[Len(r)])
      BY <1>6, <3>1, Trimming
    <3>3. Len(r) \in 0..Len(e) /\ e \in Text BY <1>1, <1>6, <2>2, <3>2 DEF Spaced
    <3>4. IsPrefix(Words(r), Words(e))
      <4>1. IsPrefix(Words(SubSeq(e, 1, Len(r))), Words(e)) BY <3>3, WordsOfStart
      <4>2. Words(r) = Words(SubSeq(e, 1, Len(r))) BY <3>2, Zenon
      <4> QED BY <4>1, <4>2, Zenon
    <3>5. Words(r) \in Text /\ Words(e) \in Text /\ Words(s) \in Text
      BY <3>2, <3>3, WordsType DEF Spaced
    <3>6. IsPrefix(Words(r), Words(s))
      <4>1. ASSUME NEW x \in Text, NEW y \in Text, NEW z \in Text, IsPrefix(x, y), IsPrefix(y, z)
            PROVE  IsPrefix(x, z)
        <5>1. Len(x) <= Len(y) /\ Len(y) <= Len(z) /\ Len(x) \in Nat /\ Len(y) \in Nat /\ Len(z) \in Nat
          BY <4>1 DEF IsPrefix, Text
        <5>2. SubSeq(x, 1, Len(x)) = SubSeq(y, 1, Len(x)) BY <4>1 DEF IsPrefix
        <5>3. SubSeq(y, 1, Len(y)) = SubSeq(z, 1, Len(y)) BY <4>1 DEF IsPrefix
        <5>4. \A j \in 1..Len(y) : y[j] = z[j]
          <6>1. \A j \in 1..Len(y) : SubSeq(y, 1, Len(y))[j] = y[j] /\ SubSeq(z, 1, Len(y))[j] = z[j]
            BY <5>1 DEF Text
          <6> QED BY <5>3, <6>1
        <5>5. SubSeq(y, 1, Len(x)) = SubSeq(z, 1, Len(x)) BY <5>1, <5>4 DEF Text
        <5> QED BY <5>1, <5>2, <5>5 DEF IsPrefix
      <4> QED BY <1>7, <3>4, <3>5, <4>1
    <3>7. Len(r) > 0 => r[1] = e[1] /\ Len(e) > 0
      <4> DEFINE n == Len(r)
      <4>1. n \in 0..Len(e) /\ r = SubSeq(e, 1, n) BY <3>2, <3>3
      <4> HIDE DEF n
      <4>2. n > 0 => SubSeq(e, 1, n)[1] = e[1] BY <3>3, <4>1 DEF Text
      <4>3. n > 0 => r[1] = e[1] BY <4>1, <4>2
      <4> QED BY <1>1, <1>6, <2>2, <4>3 DEF n
    <3> QED BY <1>1, <1>6, <3>2, <3>6, <3>7
  <2> QED BY <2>1, <2>2
<1>9. Sanitize(r) = r
  <2>1. Collapsed(r) = r BY <1>8, CollapsedAgain
  <2>2. r \in Text /\ Len(r) \in Nat /\ SubSeq(r, 1, Len(r)) = r /\ Len(r) \in 0..Len(r)
    BY <1>8 DEF Spaced, Text
  <2>3. TrimRight(r) = r
    <3>1. CASE Len(r) > 0 BY <1>8, <2>2, <3>1, Trimming
    <3>2. CASE ~(Len(r) > 0)
      <4>1. r = <<>> BY <2>2, <3>2 DEF Text
      <4> QED BY <4>1 DEF TrimRight
    <3> QED BY <3>1, <3>2
  <2>4. TrimLeft(r) = r
    <3>1. CASE Len(r) > 0 BY <1>8, <3>1, Starting
    <3>2. CASE ~(Len(r) > 0)
      <4>1. r = <<>> BY <2>2, <3>2 DEF Text
      <4> QED BY <4>1 DEF TrimLeft
    <3> QED BY <3>1, <3>2
  <2>5. ~(Len(r) > MaxIdentifierLen) BY <1>1, <1>8
  <2> QED BY <2>1, <2>3, <2>4, <2>5 DEF Sanitize
<1> QED BY <1>8, <1>9 DEF r

-----------------------------------------------------------------------------
(* The inductive invariant                                                 *)

\* Where a request may stand, and what an import has done.
Routed ==
    /\ pc # "done" => answer = 0
    /\ pc = "form" => i = 0 /\ total = 0 /\ read = 0 /\ files = <<>> /\ hops = 0
    /\ pc = "import" => request.url /\ hops < MaxHops /\ files = <<>>
    /\ pc = "unzip" => /\ request.file /\ ~request.url /\ request.content = "zip"
                       /\ request.size <= MaxRawBytes /\ Len(request.entries) <= MaxFiles
    /\ dialled \subseteq Permitted
    /\ request.url /\ pc \in {"files", "detect", "name"} => hops > 0 /\ DOMAIN files = {Root}

\* What the loop of OpenPack has made of the first n entries.
Kept(n) ==
    /\ total = BytesOf(n) /\ total <= MaxDecompressed /\ read = total
    /\ \A j \in 1..n : Fine(j)
    /\ DOMAIN files = {request.entries[j].name : j \in ToKeep(n)}
    /\ \A j \in ToKeep(n) :
          (\A k \in ToKeep(n) : k > j => request.entries[k].name # request.entries[j].name)
              => files[request.entries[j].name] = request.entries[j].size

IsPack ==
    request.file /\ ~request.url /\ request.content = "zip" /\ request.size <= MaxRawBytes

\* A zip is answered because OpenPack refuses it, or after DetectEntry has walked it.
Rejected == ~WellFormed /\ best = None /\ answer \in {413, 422}
Examined ==
    /\ i = Len(request.entries) /\ Len(request.entries) <= MaxFiles /\ Kept(i)
    /\ best # None <=> DOMAIN files \cap Html # {}
    /\ best = None => answer = 422

Unpacked ==
    IsPack =>
        /\ read <= MaxDecompressed + 1
        /\ pc \in {"unzip", "files", "detect", "name"} => Kept(i)
        /\ pc \in {"files", "detect", "name"} =>
              i = Len(request.entries) /\ Len(request.entries) <= MaxFiles
        /\ pc = "done" => Rejected \/ Examined

\* The entry found among these names.
Leads(names) ==
    /\ best \in names
    /\ \A n \in names \ {best} :
          Depth(best) < Depth(n) \/ (Depth(best) = Depth(n) /\ Rank(best) < Rank(n))

Walked ==
    /\ pc \in {"form", "import", "unzip", "files"} => left = {} /\ best = None
    /\ pc = "detect" =>
          /\ Root \notin DOMAIN files
          /\ best = None => (DOMAIN files \cap Html) \ left = {}
          /\ best # None => Leads((DOMAIN files \cap Html) \ left)
    /\ pc = "name" =>
          /\ best \in DOMAIN files
          /\ best = Root \/ (Root \notin DOMAIN files /\ Leads(DOMAIN files \cap Html))

Given == IF request.identifier = <<>> THEN <<"p", "a">> ELSE request.identifier
Named == answer = 201 => /\ identifier = Sanitize(Given)
                         /\ identifier # <<>> /\ identifier \notin Reserved

IInv == TypeOK /\ request \in Requests /\ Routed /\ Unpacked /\ Walked /\ Named

\* A request as RequestAssumption has it.
LEMMA RequestType ==
    ASSUME request \in Requests
    PROVE  /\ request.url \in BOOLEAN /\ request.file \in BOOLEAN
           /\ request.content \in Contents /\ request.size \in Nat
           /\ request.entries \in Seq([name : Names, kind : Kinds, size : Nat])
           /\ Len(request.entries) \in Nat /\ request.identifier \in Text
<1> PICK r \in Requests : r = request OBVIOUS
<1>1. /\ r.url \in BOOLEAN /\ r.file \in BOOLEAN /\ r.content \in Contents /\ r.size \in Nat
      /\ r.entries \in Seq([name : Names, kind : Kinds, size : Nat])
      /\ r.identifier \in Seq(Characters)
  BY RequestAssumption, Zenon
<1>2. Len(r.entries) \in Nat BY <1>1
<1> QED BY <1>1, <1>2 DEF Text

LEMMA EntryType ==
    ASSUME request \in Requests, NEW j \in 1..Len(request.entries)
    PROVE  /\ request.entries[j].name \in Names /\ request.entries[j].kind \in Kinds
           /\ request.entries[j].size \in Nat
<1> DEFINE Records == [name : Names, kind : Kinds, size : Nat]
           q == request.entries
<1>1. q \in Seq(Records) /\ j \in 1..Len(q) BY RequestType
<1> HIDE DEF Records, q
<1>2. q[j] \in Records BY <1>1, ElementOfSeq
<1> QED BY <1>2 DEF Records, q

LEMMA Numbers ==
    /\ MaxRawBytes \in Nat /\ MaxFiles \in Nat /\ MaxAssetBytes \in Nat /\ MaxDecompressed \in Nat
    /\ Framing \in Nat /\ MaxHops \in Nat /\ MaxHops > 0 /\ MaxIdentifierLen \in Nat
    /\ MaxIdentifierLen > 0
BY IntakeAssumption

-----------------------------------------------------------------------------
(* The bytes of a zip                                                      *)

Load(n) == UNION {{j} \X (1..request.entries[j].size) : j \in ToKeep(n)}

LEMMA LoadIsFinite ==
    ASSUME request \in Requests, NEW n \in 0..Len(request.entries) PROVE IsFiniteSet(Load(n))
<1> DEFINE cells(j) == {j} \X (1..request.entries[j].size)
           T == {cells(j) : j \in ToKeep(n)}
           f == [j \in ToKeep(n) |-> cells(j)]
<1>1. ASSUME NEW j \in ToKeep(n) PROVE request.entries[j].size \in Nat
  <2>1. j \in 1..Len(request.entries) BY RequestType DEF ToKeep
  <2> QED BY <2>1, EntryType
<1>2. IsFiniteSet(ToKeep(n))
  <2>1. IsFiniteSet(1..n) BY FS_Interval
  <2>2. ToKeep(n) \in SUBSET (1..n) BY DEF ToKeep
  <2> QED BY <2>1, <2>2, FS_Subset
<1>3. IsFiniteSet(T)
  <2>1. f \in Surjection(ToKeep(n), T) BY DEF Surjection
  <2> HIDE DEF f, T
  <2> QED BY <1>2, <2>1, FS_Surjection
<1>4. ASSUME NEW j \in ToKeep(n) PROVE IsFiniteSet(cells(j))
  <2> DEFINE A == {j}
             size == request.entries[j].size
             B == 1..size
  <2>1. IsFiniteSet(A) BY FS_Singleton
  <2>2. IsFiniteSet(B)
    <3>1. size \in Int BY <1>1
    <3> HIDE DEF size
    <3> QED BY <3>1, FS_Interval
  <2> HIDE DEF A, B
  <2>3. IsFiniteSet(A \X B) BY <2>1, <2>2, FS_Product
  <2> QED BY <2>3 DEF A, B
<1>5. \A X \in T : IsFiniteSet(X) BY <1>4
<1> HIDE DEF T
<1>6. IsFiniteSet(UNION T) BY <1>3, <1>5, FS_UNION
<1> QED BY <1>6 DEF T, Load

LEMMA Adding ==
    ASSUME request \in Requests, NEW n \in 0..Len(request.entries) - 1
    PROVE  LET e == request.entries[n + 1]
           IN  /\ BytesOf(0) = 0 /\ BytesOf(n) \in Nat
               /\ BytesOf(n + 1) = BytesOf(n) + (IF e.kind = "file" THEN e.size ELSE 0)
               /\ ToKeep(n + 1) = ToKeep(n) \cup (IF e.kind = "file" THEN {n + 1} ELSE {})
<1> DEFINE e == request.entries[n + 1]
<1>1. n + 1 \in 1..Len(request.entries) /\ e.size \in Nat /\ n \in Nat
  <2>1. n + 1 \in 1..Len(request.entries) /\ n \in Nat BY RequestType
  <2> QED BY <2>1, EntryType
<1>2. BytesOf(0) = 0
  <2>1. Load(0) = {} BY DEF Load, ToKeep
  <2> QED BY <2>1, FS_EmptySet DEF BytesOf, Load
<1>3. ToKeep(n + 1) = ToKeep(n) \cup (IF e.kind = "file" THEN {n + 1} ELSE {})
  <2>1. 1..n + 1 = (1..n) \cup {n + 1} BY <1>1
  <2> QED BY <2>1 DEF ToKeep
<1>4. IsFiniteSet(Load(n)) /\ BytesOf(n) = Cardinality(Load(n)) /\ BytesOf(n) \in Nat
  <2>1. IsFiniteSet(Load(n))
    <3>1. n \in 0..Len(request.entries) BY <1>1, RequestType
    <3> QED BY <3>1, LoadIsFinite
  <2> QED BY <2>1, FS_CardinalityType DEF BytesOf, Load
<1>5. BytesOf(n + 1) = BytesOf(n) + (IF e.kind = "file" THEN e.size ELSE 0)
  <2>1. CASE e.kind = "file"
    <3> DEFINE A == {n + 1}
               B == 1..e.size
               C == A \X B
    <3>1. Load(n + 1) = Load(n) \cup C BY <1>3, <2>1 DEF Load
    <3>2. IsFiniteSet(C) /\ Cardinality(C) = e.size
      <4>1. IsFiniteSet(A) /\ Cardinality(A) = 1 BY FS_Singleton
      <4>2. IsFiniteSet(B) /\ Cardinality(B) = e.size
        <5> DEFINE size == e.size
        <5>1. size \in Nat BY <1>1
        <5> HIDE DEF size
        <5>2. IsFiniteSet(1..size) /\ Cardinality(1..size) = size BY <5>1, FS_Interval
        <5> QED BY <5>2 DEF size
      <4> HIDE DEF A, B
      <4>3. IsFiniteSet(C) /\ Cardinality(C) = Cardinality(A) * Cardinality(B)
        BY <4>1, <4>2, FS_Product
      <4> QED BY <1>1, <4>1, <4>2, <4>3
    <3>3. Load(n) \cap C = {}
      <4>1. \A x \in Load(n) : x[1] \in 1..n BY DEF Load, ToKeep
      <4>2. \A x \in C : x[1] = n + 1 OBVIOUS
      <4> HIDE DEF C
      <4> QED BY <1>1, <4>1, <4>2
    <3> HIDE DEF C
    <3>4. Cardinality(Load(n) \cup C) = Cardinality(Load(n)) + Cardinality(C) - Cardinality(Load(n) \cap C)
      BY <1>4, <3>2, FS_Union
    <3>5. Cardinality(Load(n) \cap C) = 0 BY <3>3, FS_EmptySet
    <3>6. BytesOf(n + 1) = Cardinality(Load(n) \cup C) BY <3>1, Zenon DEF BytesOf, Load
    <3> QED BY <1>1, <1>4, <2>1, <3>2, <3>4, <3>5, <3>6
  <2>2. CASE e.kind # "file"
    <3>1. ToKeep(n + 1) = ToKeep(n) BY <1>3, <2>2
    <3>2. BytesOf(n + 1) = BytesOf(n) BY <3>1 DEF BytesOf
    <3> QED BY <1>4, <2>2, <3>2
  <2> QED BY <2>1, <2>2
<1> QED BY <1>2, <1>3, <1>4, <1>5

-----------------------------------------------------------------------------
(* The invariant holds at first and survives every action.                 *)

LEMMA Starts == Init => IInv
<1> SUFFICES ASSUME Init PROVE IInv OBVIOUS
<1>1. TypeOK
  <2>1. Len(request.entries) \in Nat BY RequestType DEF Init
  <2>2. files = <<>> /\ DOMAIN files = {} /\ identifier = <<>> /\ DOMAIN identifier = {}
    BY DEF Init
  <2>3. <<>> \in Seq(Characters) /\ 0 \in 0..MaxHops BY Numbers
  <2> QED BY <2>1, <2>2, <2>3 DEF Init, TypeOK
<1>2. Routed BY DEF Init, Routed
<1>3. Unpacked BY Numbers DEF Init, Unpacked
<1>4. Walked BY DEF Init, Walked
<1>5. Named BY DEF Init, Named
<1> QED BY <1>1, <1>2, <1>3, <1>4, <1>5 DEF IInv, Init

\* The zip of a request does not change.
LEMMA SameZip ==
    ASSUME request' = request, NEW n
    PROVE  /\ ToKeep(n)' = ToKeep(n) /\ BytesOf(n)' = BytesOf(n) /\ Fine(n)' = Fine(n)
           /\ WellFormed' = WellFormed
           /\ total' = total /\ read' = read /\ files' = files => Kept(n)' = Kept(n)
<1>1. \A m : ToKeep(m)' = ToKeep(m) BY DEF ToKeep
<1>2. \A m : BytesOf(m)' = BytesOf(m) BY DEF BytesOf, ToKeep
<1>3. \A m : Fine(m)' = Fine(m) BY <1>2 DEF Fine
<1>4. total' = total /\ read' = read /\ files' = files => Kept(n)' = Kept(n)
  BY <1>1, <1>2, <1>3 DEF Kept
<1>5. WellFormed' = WellFormed BY <1>3 DEF WellFormed
<1> QED BY <1>1, <1>2, <1>3, <1>4, <1>5

LEMMA FormKeeps == ASSUME IInv, Form PROVE IInv'
<1> USE DEF Refuse
<1>1. /\ TypeOK /\ request \in Requests /\ pc = "form" /\ request' = request
      /\ i' = 0 /\ total' = 0 /\ read' = 0 /\ left' = {} /\ best' = None /\ files = <<>>
      /\ hops' = 0 /\ hops = 0 /\ dialled' = dialled /\ dialled \subseteq Permitted
      /\ identifier' = identifier /\ answer = 0
  BY DEF IInv, Form, Routed, Walked, detect, web
<1>2. request.size \in Nat /\ Len(request.entries) \in Nat BY <1>1, RequestType
<1>3. \/ pc' = "done" /\ answer' \in {400, 413, 415, 422} /\ files' = files
      \/ pc' = "import" /\ request.url /\ answer' = 0 /\ files' = files
      \/ /\ pc' = "unzip" /\ request.file /\ ~request.url /\ request.content = "zip" /\ answer' = 0
         /\ request.size <= MaxRawBytes /\ Len(request.entries) <= MaxFiles /\ files' = files
      \/ /\ pc' = "files" /\ ~request.url /\ request.content = "html" /\ answer' = 0
         /\ files' = [n \in {Root} |-> request.size]
  BY <1>1, <1>2, Numbers DEF Form, TooMany
<1>r. ASSUME pc' = "done", IsPack PROVE Len(request.entries) > MaxFiles /\ answer' = 422
  <2>1. /\ request.file /\ ~request.url /\ request.content = "zip"
        /\ request.size <= MaxRawBytes
    BY <1>r DEF IsPack
  <2>2. request.size <= MaxRawBytes + Framing /\ ~(request.size > MaxRawBytes)
    BY <1>2, <2>1, Numbers
  <2>3. IF TooMany THEN Refuse(422) ELSE pc' = "unzip" /\ UNCHANGED answer
    BY <2>1, <2>2 DEF Form
  <2> QED BY <1>r, <2>3 DEF TooMany
<1>4. Root \in Names BY NameAssumption
<1>5. TypeOK'
  <2>1. DOMAIN files' \subseteq Names /\ \A n \in DOMAIN files' : files'[n] \in Nat
    BY <1>1, <1>2, <1>3, <1>4
  <2> QED BY <1>1, <1>2, <1>3, <2>1 DEF TypeOK
<1>6. Routed' BY <1>1, <1>3, Numbers DEF Routed
<1>7. Unpacked'
  <2>1. CASE pc' = "unzip"
    <3>1. BytesOf(0) = 0 /\ ToKeep(0) = {}
      <4>1. ToKeep(0) = {} BY DEF ToKeep
      <4> QED BY <4>1, FS_EmptySet DEF BytesOf
    <3> QED BY <1>1, <1>3, <2>1, <3>1, Numbers DEF Unpacked, Kept, BytesOf, ToKeep
  <2>2. CASE pc' # "unzip"
    <3>1. pc' = "done" /\ IsPack => ~WellFormed BY <1>r, <1>2, Numbers DEF WellFormed
    <3>2. pc' = "done" /\ IsPack' => Rejected' BY <1>1, <1>r, <3>1, SameZip DEF IsPack, Rejected
    <3> QED BY <1>1, <1>3, <2>2, <3>2, Numbers DEF Unpacked, IsPack
  <2> QED BY <2>1, <2>2
<1>8. Walked' BY <1>1, <1>3 DEF Walked
<1>9. Named' BY <1>1, <1>3 DEF Named
<1> QED BY <1>1, <1>5, <1>6, <1>7, <1>8, <1>9 DEF IInv

\* One more entry of a zip: all it can do to what the loop has made.
LEMMA UnzipKeeps == ASSUME IInv, Unzip PROVE IInv'
<1> USE DEF Refuse
<1>n. PICK n : n = i OBVIOUS
<1>e. PICK e : e = request.entries[n + 1] OBVIOUS
<1>1. /\ TypeOK /\ request \in Requests /\ pc = "unzip" /\ request' = request /\ i' = n + 1
      /\ left' = {} /\ best' = None /\ left = {} /\ best = None
      /\ hops' = hops /\ dialled' = dialled /\ dialled \subseteq Permitted
      /\ identifier' = identifier /\ answer = 0 /\ request.file /\ ~request.url
      /\ request.content = "zip" /\ request.size <= MaxRawBytes /\ Len(request.entries) <= MaxFiles /\ Kept(n)
  BY <1>n DEF IInv, Unzip, Routed, Walked, Unpacked, IsPack, detect, web
<1>2. /\ n \in Nat /\ n + 1 \in 1..Len(request.entries) /\ n \in 0..Len(request.entries) - 1
      /\ Len(request.entries) \in Nat /\ total \in Nat /\ read \in Nat
  BY <1>1, <1>n, RequestType DEF TypeOK, Unzip
<1>3. e.name \in Names /\ e.kind \in Kinds /\ e.size \in Nat BY <1>1, <1>2, <1>e, EntryType
<1>4. /\ BytesOf(n) = total /\ BytesOf(n + 1) = total + (IF e.kind = "file" THEN e.size ELSE 0)
      /\ ToKeep(n + 1) = ToKeep(n) \cup (IF e.kind = "file" THEN {n + 1} ELSE {})
  BY <1>1, <1>2, <1>e, Adding DEF Kept
<1>5. Limit \in Int /\ Limit <= MaxAssetBytes /\ Limit <= MaxDecompressed - total /\ Limit >= 0
      /\ (Limit = MaxAssetBytes \/ Limit = MaxDecompressed - total)
  BY <1>1, <1>2, Numbers DEF Limit, Smaller, Kept
<1>6. Fine(n + 1) <=> e.kind = "dir" \/ (e.kind = "file" /\ e.size <= Limit)
  <2>1. Fine(n + 1) <=> \/ e.kind = "dir"
                        \/ /\ e.kind = "file" /\ e.size <= MaxAssetBytes
                           /\ BytesOf(n + 1) <= MaxDecompressed
    BY <1>e DEF Fine
  <2>2. e.kind = "file" => BytesOf(n + 1) = total + e.size BY <1>4
  <2>3. e.size <= Limit <=> e.size <= MaxAssetBytes /\ total + e.size <= MaxDecompressed
    BY <1>2, <1>3, <1>5, Numbers
  <2> QED BY <2>1, <2>2, <2>3
<1>7. \/ /\ e.kind = "dir" /\ pc' = pc /\ answer' = answer
         /\ total' = total /\ read' = read /\ files' = files
      \/ /\ e.kind \notin {"dir", "file"} /\ pc' = "done" /\ answer' \in {413, 422}
         /\ total' = total /\ read' = read /\ files' = files
      \/ /\ e.kind = "file" /\ e.size > Limit /\ pc' = "done" /\ answer' \in {413, 422}
         /\ total' = total /\ read' = read + Limit + 1 /\ files' = files
      \/ /\ e.kind = "file" /\ e.size <= Limit /\ pc' = pc /\ answer' = answer
         /\ total' = total + e.size /\ read' = read + e.size
         /\ files' = [m \in DOMAIN files \cup {e.name} |-> IF m = e.name THEN e.size ELSE files[m]]
  <2>1. Message(e, TRUE) \in {413, 422} /\ Message(e, FALSE) \in {413, 422} BY DEF Message
  <2>0. Entry = e BY <1>n, <1>e DEF Entry
  <2>2. CASE e.kind = "dir" BY <2>0, <2>2 DEF Unzip
  <2>3. CASE e.kind \in {"link", "unsafe", "zip"}
    <3>0. e.kind # "dir" /\ e.kind # "broken" /\ e.kind # "file" BY <2>3
    <3>1. pc' = "done" /\ answer' = Message(e, FALSE) /\ UNCHANGED <<total, read, files>>
      BY <2>0, <2>3, <3>0 DEF Unzip
    <3>2. answer' \in {413, 422} BY <2>1, <3>1
    <3>3. total' = total /\ read' = read /\ files' = files BY <3>1
    <3>4. e.kind \notin {"dir", "file"} BY <3>0
    <3> QED BY <3>1, <3>2, <3>3, <3>4
  <2>5. CASE e.kind = "broken"
    <3>1. pc' = "done" /\ answer' = Message(e, FALSE) /\ UNCHANGED <<total, read, files>>
      BY <2>0, <2>5 DEF Unzip
    <3>2. answer' \in {413, 422} BY <2>1, <3>1
    <3>3. total' = total /\ read' = read /\ files' = files BY <3>1
    <3>4. e.kind \notin {"dir", "file"} BY <2>5
    <3> QED BY <3>1, <3>2, <3>3, <3>4
  <2>4. CASE e.kind = "file"
    <3>1. /\ read' = read + Smaller(e.size, Limit + 1)
          /\ IF e.size > Limit \/ total + e.size > MaxDecompressed
             THEN pc' = "done" /\ answer' = Message(e, TRUE) /\ UNCHANGED <<total, files>>
             ELSE /\ total' = total + e.size
                  /\ files' = [m \in DOMAIN files \cup {e.name} |->
                                  IF m = e.name THEN e.size ELSE files[m]]
                  /\ UNCHANGED <<pc, answer>>
      BY <2>0, <2>4 DEF Unzip
    <3>2. CASE e.size > Limit
      <4>1. Smaller(e.size, Limit + 1) = Limit + 1 BY <1>3, <1>5, <3>2 DEF Smaller
      <4>2. pc' = "done" /\ answer' = Message(e, TRUE) /\ total' = total /\ files' = files
        BY <3>1, <3>2
      <4>3. read' = read + Limit + 1 BY <1>2, <1>5, <3>1, <4>1
      <4> QED BY <2>1, <2>4, <3>2, <4>2, <4>3
    <3>3. CASE e.size <= Limit
      <4>1. Smaller(e.size, Limit + 1) = e.size BY <1>3, <1>5, <3>3 DEF Smaller
      <4>2. ~(e.size > Limit \/ total + e.size > MaxDecompressed)
        BY <1>2, <1>3, <1>5, <3>3, Numbers
      <4> QED BY <2>4, <3>1, <3>3, <4>1, <4>2
    <3> QED BY <1>3, <1>5, <3>2, <3>3
  <2> QED BY <1>3, <2>2, <2>3, <2>4, <2>5 DEF Kinds
<1>8. TypeOK'
  <2>1. DOMAIN files' \subseteq Names /\ \A m \in DOMAIN files' : files'[m] \in Nat
    BY <1>1, <1>3, <1>7 DEF TypeOK
  <2>2. total' \in Nat /\ read' \in Nat BY <1>2, <1>3, <1>5, <1>7
  <2>3. i' \in 0..Len(request'.entries) BY <1>1, <1>2
  <2>4. pc' \in {"unzip", "done"} /\ answer' \in {0, 413, 422} BY <1>1, <1>7
  <2> QED BY <1>1, <2>1, <2>2, <2>3, <2>4 DEF TypeOK
<1>9. Routed' BY <1>1, <1>7 DEF Routed
<1>10. ASSUME pc' = "unzip" PROVE Kept(n + 1)'
  <2>1. \/ /\ e.kind = "dir" /\ total' = total /\ read' = read /\ files' = files
        \/ /\ e.kind = "file" /\ e.size <= Limit
           /\ total' = total + e.size /\ read' = read + e.size
           /\ files' = [m \in DOMAIN files \cup {e.name} |-> IF m = e.name THEN e.size ELSE files[m]]
    BY <1>7, <1>10
  <2>2. total' = BytesOf(n + 1) /\ total' <= MaxDecompressed /\ read' = total'
    <3>1. total = BytesOf(n) /\ total <= MaxDecompressed /\ read = total BY <1>1 DEF Kept
    <3>2. CASE e.kind = "dir"
      <4>1. BytesOf(n + 1) = total + 0 BY <1>4, <3>2
      <4>2. total' = total /\ read' = read BY <2>1, <3>2
      <4> QED BY <1>2, <3>1, <4>1, <4>2
    <3>3. CASE e.kind = "file" /\ e.size <= Limit
      <4>1. BytesOf(n + 1) = total + e.size BY <1>4, <3>3
      <4>2. total' = total + e.size /\ read' = read + e.size BY <2>1, <3>3
      <4>3. total + e.size <= MaxDecompressed BY <1>2, <1>3, <1>5, <3>3, Numbers
      <4> QED BY <3>1, <4>1, <4>2, <4>3
    <3> QED BY <2>1, <3>2, <3>3
  <2>3. \A j \in 1..n + 1 : Fine(j)
    <3>1. \A j \in 1..n + 1 : j \in 1..n \/ j = n + 1 BY <1>2
    <3>2. Fine(n + 1) BY <1>6, <2>1
    <3> QED BY <1>1, <3>1, <3>2 DEF Kept
  <2>4. DOMAIN files' = {request.entries[j].name : j \in ToKeep(n + 1)}
    <3>1. DOMAIN files = {request.entries[j].name : j \in ToKeep(n)} BY <1>1 DEF Kept
    <3>2. CASE e.kind = "dir"
      <4>1. ToKeep(n + 1) = ToKeep(n) BY <1>4, <3>2
      <4> QED BY <2>1, <3>1, <3>2, <4>1
    <3>3. CASE e.kind = "file"
      <4>1. ToKeep(n + 1) = ToKeep(n) \cup {n + 1} BY <1>4, <3>3
      <4>2. DOMAIN files' = DOMAIN files \cup {e.name} BY <2>1, <3>3
      <4> QED BY <3>1, <4>1, <4>2, <1>e
    <3> QED BY <2>1, <3>2, <3>3
  <2>5. ASSUME NEW j \in ToKeep(n + 1),
               \A k \in ToKeep(n + 1) : k > j => request.entries[k].name # request.entries[j].name
        PROVE  files'[request.entries[j].name] = request.entries[j].size
    <3>1. CASE j \in ToKeep(n)
      <4>1. files[request.entries[j].name] = request.entries[j].size
        <5>1. \A k \in ToKeep(n) : k > j => request.entries[k].name # request.entries[j].name
          BY <1>4, <2>5
        <5> QED BY <1>1, <3>1, <5>1 DEF Kept
      <4>2. request.entries[j].name \in DOMAIN files BY <1>1, <3>1 DEF Kept
      <4>3. e.kind = "file" => request.entries[j].name # e.name
        <5>1. n + 1 > j BY <1>2, <3>1 DEF ToKeep
        <5>2. e.kind = "file" => n + 1 \in ToKeep(n + 1) BY <1>4
        <5> QED BY <2>5, <5>1, <5>2, <1>e
      <4> QED BY <2>1, <4>1, <4>2, <4>3
    <3>2. CASE j \notin ToKeep(n)
      <4>1. j = n + 1 /\ e.kind = "file" BY <1>4, <3>2
      <4> QED BY <2>1, <4>1, <1>e
    <3> QED BY <3>1, <3>2
  <2> QED BY <1>1, <2>2, <2>3, <2>4, <2>5, SameZip DEF Kept
<1>11. Unpacked'
  <2>1. read' <= MaxDecompressed + 1
    <3>1. total <= MaxDecompressed /\ read = total BY <1>1 DEF Kept
    <3>2. read' = read \/ read' = read + Limit + 1 \/ (read' = read + e.size /\ e.size <= Limit)
      BY <1>7
    <3> QED BY <1>2, <1>3, <1>5, <3>1, <3>2, Numbers
  <2>2. i' = n + 1 BY <1>1
  <2>3. pc' = "unzip" => Kept(i)' BY <1>10, <2>2, Zenon
  <2>4. pc' = "done" => Rejected'
    <3>1. pc' = "done" => ~Fine(n + 1) BY <1>1, <1>3, <1>5, <1>6, <1>7
    <3>2. pc' = "done" => ~WellFormed BY <1>2, <3>1 DEF WellFormed
    <3>3. pc' = "done" => ~WellFormed' BY <1>1, <3>2, SameZip
    <3>4. pc' = "done" => best' = None /\ answer' \in {413, 422} BY <1>1, <1>7
    <3> QED BY <3>3, <3>4 DEF Rejected
  <2>5. pc' \in {"unzip", "done"} BY <1>1, <1>7
  <2> QED BY <1>1, <2>1, <2>3, <2>4, <2>5 DEF Unpacked
<1>12. Walked' BY <1>1, <1>7 DEF Walked
<1>13. Named' BY <1>1, <1>7 DEF Named
<1> QED BY <1>1, <1>8, <1>9, <1>11, <1>12, <1>13 DEF IInv

LEMMA UnzippedKeeps == ASSUME IInv, Unzipped PROVE IInv'
<1>1. /\ TypeOK /\ request \in Requests /\ pc = "unzip" /\ request' = request /\ pc' = "files"
      /\ i = Len(request.entries) /\ i' = i /\ total' = total /\ read' = read /\ files' = files
      /\ left' = {} /\ best' = None
      /\ hops' = hops /\ dialled' = dialled /\ dialled \subseteq Permitted
      /\ identifier' = identifier /\ answer' = 0 /\ request.file /\ ~request.url
      /\ request.content = "zip" /\ request.size <= MaxRawBytes /\ Len(request.entries) <= MaxFiles /\ Kept(i)
      /\ read <= MaxDecompressed + 1
  BY DEF IInv, Unzipped, Routed, Walked, Unpacked, IsPack, zip, detect, web
<1>2. TypeOK' BY <1>1 DEF TypeOK
<1>3. Routed' BY <1>1 DEF Routed
<1>4. Kept(i)'
  <2>1. PICK n : n = i OBVIOUS
  <2>2. Kept(n)' BY <1>1, <2>1, SameZip
  <2> QED BY <1>1, <2>1, <2>2, Zenon
<1>5. Unpacked' BY <1>1, <1>4 DEF Unpacked
<1>6. Walked' BY <1>1 DEF Walked
<1>7. Named' BY <1>1 DEF Named
<1> QED BY <1>1, <1>2, <1>3, <1>5, <1>6, <1>7 DEF IInv

\* Once the loop is over, nothing touches what it has made.
LEMMA ZipKept ==
    ASSUME Unpacked, request' = request, i' = i, total' = total, read' = read, files' = files,
           pc \in {"files", "detect", "name"}, pc' \in {"files", "detect", "name", "done"},
           pc' = "done" => /\ best' # None <=> DOMAIN files \cap Html # {}
                           /\ best' = None => answer' = 422
    PROVE  Unpacked'
<1>1. IsPack => Kept(i) BY DEF Unpacked
<1>2. IsPack => Kept(i)'
  <2>1. PICK n : n = i OBVIOUS
  <2>2. IsPack => Kept(n)' BY <1>1, <2>1, SameZip
  <2> QED BY <2>1, <2>2, Zenon
<1>3. IsPack' => IsPack BY DEF IsPack
<1>4. IsPack' /\ pc' = "done" => Examined' BY <1>2, <1>3 DEF Unpacked, Examined
<1> QED BY <1>2, <1>3, <1>4 DEF Unpacked

\* What an action does that ends an import.
LEMMA ImportEnds ==
    ASSUME IInv, pc = "import", pc' = "done", answer' \in {413, 415, 422, 502},
           UNCHANGED <<request, i, total, read, files, detect, identifier>>,
           hops' \in 0..MaxHops, dialled' \subseteq Permitted
    PROVE  IInv'
<1>1. request.url /\ TypeOK /\ Permitted \subseteq Addresses /\ ~IsPack
  BY IntakeAssumption DEF IInv, Routed, IsPack
<1>2. TypeOK' BY <1>1 DEF TypeOK, detect
<1>3. Routed' BY DEF Routed
<1>4. Unpacked' BY <1>1 DEF Unpacked, IsPack
<1>5. Walked' BY DEF Walked
<1>6. Named' BY DEF Named
<1> QED BY <1>2, <1>3, <1>4, <1>5, <1>6 DEF IInv

LEMMA InvalidURLKeeps == ASSUME IInv, InvalidURL PROVE IInv'
<1>1. hops' \in 0..MaxHops /\ dialled' \subseteq Permitted
  BY DEF IInv, InvalidURL, TypeOK, Routed, web
<1> QED BY <1>1, ImportEnds DEF InvalidURL, Refuse, zip

LEMMA BlockedKeeps == ASSUME IInv, NEW ips \in SUBSET Addresses, Blocked(ips) PROVE IInv'
<1>1. hops' \in 0..MaxHops /\ dialled' \subseteq Permitted
  BY DEF IInv, Blocked, TypeOK, Routed, web
<1> QED BY <1>1, ImportEnds DEF Blocked, Sending, Refuse, zip

LEMMA HopKeeps ==
    ASSUME IInv, NEW ips \in SUBSET Addresses, NEW ip \in ips, NEW reply \in Replies,
           Hop(ip, ips, reply)
    PROVE  IInv'
<1> USE DEF Refuse
<1>1. /\ TypeOK /\ request \in Requests /\ pc = "import" /\ request' = request
      /\ i' = i /\ total' = total /\ read' = read /\ files = <<>>
      /\ left = {} /\ best = None /\ left' = {} /\ best' = None
      /\ hops \in Nat /\ hops < MaxHops /\ hops' = hops + 1 /\ dialled' = dialled \cup {ip}
      /\ dialled \subseteq Permitted /\ ip \in Permitted
      /\ identifier' = identifier /\ answer = 0 /\ request.url
  BY DEF IInv, Hop, Sending, Dial, Routed, Walked, TypeOK, detect
<1>2. hops' \in 0..MaxHops /\ dialled' \subseteq Permitted /\ Permitted \subseteq Addresses
  BY <1>1, Numbers, IntakeAssumption
<1>3. \/ /\ pc' = "files" /\ files' = [n \in {Root} |-> 1] /\ answer' = 0
      \/ /\ pc' = "import" /\ files' = files /\ answer' = 0 /\ hops + 1 < MaxHops
      \/ /\ pc' = "done" /\ answer' \in {413, 415, 422, 502} /\ files' = files
  BY <1>1 DEF Hop
<1>4. CASE pc' = "done"
  <2>1. UNCHANGED <<request, i, total, read, files, detect, identifier>>
    BY <1>1, <1>3, <1>4 DEF detect
  <2> QED BY <1>1, <1>2, <1>3, <1>4, <2>1, ImportEnds
<1>5. CASE pc' # "done"
  <2>1. \/ /\ pc' = "files" /\ files' = [n \in {Root} |-> 1] /\ answer' = 0
        \/ /\ pc' = "import" /\ files' = <<>> /\ answer' = 0 /\ hops + 1 < MaxHops
    BY <1>1, <1>3, <1>5
  <2>2. TypeOK'
    <3>1. Root \in Names BY NameAssumption
    <3>2. DOMAIN files' \subseteq Names /\ \A n \in DOMAIN files' : files'[n] \in Nat
      BY <2>1, <3>1
    <3> QED BY <1>1, <1>2, <2>1, <3>2 DEF TypeOK
  <2>3. Routed' BY <1>1, <1>2, <2>1 DEF Routed
  <2>4. Unpacked' BY <1>1 DEF Unpacked, IsPack
  <2>5. Walked' BY <1>1, <2>1 DEF Walked
  <2>6. Named' BY <2>1 DEF Named
  <2> QED BY <1>1, <2>2, <2>3, <2>4, <2>5, <2>6 DEF IInv
<1> QED BY <1>4, <1>5

LEMMA StartDetectKeeps == ASSUME IInv, StartDetect PROVE IInv'
<1>1. /\ TypeOK /\ request \in Requests /\ pc = "files" /\ request' = request
      /\ i' = i /\ total' = total /\ read' = read /\ files' = files
      /\ hops' = hops /\ dialled' = dialled /\ dialled \subseteq Permitted
      /\ identifier' = identifier /\ answer' = 0 /\ best = None /\ left = {}
      /\ request.url => hops > 0 /\ DOMAIN files = {Root}
  BY DEF IInv, StartDetect, Routed, Walked, zip, web
<1>2. \/ pc' = "name" /\ Root \in DOMAIN files /\ best' = Root /\ left' = left
      \/ pc' = "detect" /\ Root \notin DOMAIN files /\ best' = best /\ left' = DOMAIN files
  BY DEF StartDetect
<1>3. TypeOK' BY <1>1, <1>2 DEF TypeOK
<1>4. Routed' BY <1>1, <1>2 DEF Routed
<1>5. Unpacked' BY <1>1, <1>2, ZipKept DEF IInv
<1>6. Walked' BY <1>1, <1>2 DEF Walked
<1>7. Named' BY <1>1 DEF Named
<1> QED BY <1>1, <1>3, <1>4, <1>5, <1>6, <1>7 DEF IInv

LEMMA ConsiderKeeps == ASSUME IInv, NEW name \in left, Consider(name) PROVE IInv'
<1>1. /\ TypeOK /\ request \in Requests /\ pc = "detect" /\ pc' = "detect" /\ request' = request
      /\ i' = i /\ total' = total /\ read' = read /\ files' = files
      /\ hops' = hops /\ dialled' = dialled /\ dialled \subseteq Permitted
      /\ identifier' = identifier /\ answer' = 0
      /\ request.url => hops > 0 /\ DOMAIN files = {Root}
      /\ left' = left \ {name} /\ Root \notin DOMAIN files
      /\ name \in DOMAIN files /\ left \subseteq DOMAIN files /\ DOMAIN files \subseteq Names
  BY DEF IInv, Consider, Routed, Walked, TypeOK, zip, web
<1>s. PICK seen : seen = (DOMAIN files \cap Html) \ left OBVIOUS
<1>m. PICK more : more = (DOMAIN files \cap Html) \ left' OBVIOUS
<1>2. best' = IF name \in Html /\ Better(name) THEN name ELSE best BY DEF Consider
<1>3. TypeOK' BY <1>1, <1>2 DEF TypeOK
<1>4. Routed' BY <1>1 DEF Routed
<1>5. Unpacked' BY <1>1, ZipKept DEF IInv
<1>6. /\ best = None => seen = {}
      /\ best # None => Leads(seen)
  BY <1>1, <1>s DEF IInv, Walked, Leads
<1>7. more = seen \cup (IF name \in Html THEN {name} ELSE {}) BY <1>1, <1>s, <1>m
<1>8. name # None /\ seen \subseteq Html BY <1>1, <1>s, NameAssumption
<1>9. \A m \in Html : Depth(m) \in Nat /\ Rank(m) \in Nat BY NameAssumption
<1>10. \A m, n \in Html : Rank(m) = Rank(n) => m = n BY NameAssumption
<1>11. /\ best' = None => more = {}
       /\ best' # None => Leads(more)'
  <2>1. CASE name \notin Html
    <3>1. more = seen /\ best' = best BY <1>2, <1>7, <2>1
    <3> QED BY <1>6, <3>1 DEF Leads
  <2>2. CASE name \in Html /\ best = None
    <3>1. more = {name} /\ best' = name BY <1>2, <1>6, <1>7, <2>2 DEF Better
    <3> QED BY <1>8, <3>1 DEF Leads
  <2>3. CASE name \in Html /\ best # None /\ Better(name)
    <3>1. more = seen \cup {name} /\ best' = name BY <1>2, <1>7, <2>3
    <3>2. Leads(seen) /\ best \in Html BY <1>6, <1>8, <2>3 DEF Leads
    <3>3. Depth(name) < Depth(best) \/ (Depth(name) = Depth(best) /\ Rank(name) < Rank(best))
      BY <2>3 DEF Better
    <3>4. ASSUME NEW n \in more \ {name}
          PROVE  Depth(name) < Depth(n) \/ (Depth(name) = Depth(n) /\ Rank(name) < Rank(n))
      <4>1. n \in seen /\ n \in Html BY <1>8, <3>1, <3>4
      <4>2. n # best => Depth(best) < Depth(n) \/ (Depth(best) = Depth(n) /\ Rank(best) < Rank(n))
        BY <3>2, <4>1 DEF Leads
      <4>3. /\ Depth(n) \in Nat /\ Rank(n) \in Nat /\ Depth(best) \in Nat /\ Rank(best) \in Nat
            /\ Depth(name) \in Nat /\ Rank(name) \in Nat
        BY <1>9, <2>3, <3>2, <4>1
      <4>4. CASE n = best BY <3>3, <4>4
      <4>5. CASE n # best BY <3>3, <4>2, <4>3, <4>5
      <4> QED BY <4>4, <4>5
    <3>5. name \in more BY <3>1
    <3> QED BY <1>8, <3>1, <3>4, <3>5 DEF Leads
  <2>4. CASE name \in Html /\ best # None /\ ~Better(name)
    <3>1. more = seen \cup {name} /\ best' = best BY <1>2, <1>7, <2>4
    <3>2. Leads(seen) /\ best \in Html BY <1>6, <1>8, <2>4 DEF Leads
    <3>3. ASSUME name # best
          PROVE  Depth(best) < Depth(name) \/ (Depth(best) = Depth(name) /\ Rank(best) < Rank(name))
      <4>1. /\ Depth(best) \in Nat /\ Rank(best) \in Nat
            /\ Depth(name) \in Nat /\ Rank(name) \in Nat
        BY <1>9, <2>4, <3>2
      <4>2. Rank(name) # Rank(best) BY <1>10, <2>4, <3>2, <3>3
      <4>3. /\ ~(Depth(name) < Depth(best))
            /\ ~(Depth(name) = Depth(best) /\ Rank(name) < Rank(best))
        BY <2>4 DEF Better
      <4> QED BY <4>1, <4>2, <4>3
    <3> QED BY <2>4, <3>1, <3>2, <3>3 DEF Leads
  <2> QED BY <2>1, <2>2, <2>3, <2>4
<1>12. Walked' BY <1>1, <1>11, <1>m DEF Walked, Leads
<1>13. Named' BY <1>1 DEF Named
<1> QED BY <1>1, <1>3, <1>4, <1>5, <1>12, <1>13 DEF IInv

LEMMA DetectedKeeps == ASSUME IInv, Detected PROVE IInv'
<1>1. /\ TypeOK /\ request \in Requests /\ pc = "detect" /\ request' = request
      /\ i' = i /\ total' = total /\ read' = read /\ files' = files /\ left' = {} /\ left = {}
      /\ best' = best /\ hops' = hops /\ dialled' = dialled /\ dialled \subseteq Permitted
      /\ identifier' = identifier /\ answer = 0 /\ Root \notin DOMAIN files
      /\ request.url => hops > 0 /\ DOMAIN files = {Root}
      /\ best = None => DOMAIN files \cap Html = {}
      /\ best # None => Leads(DOMAIN files \cap Html)
  <2>1. left = {} BY DEF Detected
  <2>2. (DOMAIN files \cap Html) \ {} = DOMAIN files \cap Html OBVIOUS
  <2> QED BY <2>1, <2>2 DEF IInv, Detected, Routed, Walked, zip, detect, web
<1>2. \/ pc' = "done" /\ answer' = 422 /\ best = None
      \/ pc' = "name" /\ answer' = 0 /\ best # None
  BY <1>1 DEF Detected, Refuse
<1>3. TypeOK' BY <1>1, <1>2 DEF TypeOK
<1>4. Routed' BY <1>1, <1>2 DEF Routed
<1>5. Unpacked'
  <2>1. best # None => DOMAIN files \cap Html # {} BY <1>1 DEF Leads
  <2> QED BY <1>1, <1>2, <2>1, ZipKept DEF IInv
<1>6. Walked' BY <1>1, <1>2 DEF Walked, Leads
<1>7. Named' BY <1>1, <1>2 DEF Named
<1> QED BY <1>1, <1>3, <1>4, <1>5, <1>6, <1>7 DEF IInv

LEMMA NameKeeps == ASSUME IInv, Name PROVE IInv'
<1> DEFINE clean == Sanitize(Given)
<1>1. /\ TypeOK /\ request \in Requests /\ pc = "name" /\ pc' = "done" /\ request' = request
      /\ i' = i /\ total' = total /\ read' = read /\ files' = files /\ left' = left
      /\ best' = best /\ hops' = hops /\ dialled' = dialled /\ dialled \subseteq Permitted
      /\ identifier' = clean /\ answer' = (IF clean = <<>> \/ clean \in Reserved THEN 422 ELSE 201)
      /\ best \in DOMAIN files /\ DOMAIN files \subseteq Names
  BY DEF IInv, Name, Given, Refuse, Routed, Walked, TypeOK, zip, detect, web
<1>2. best # None BY <1>1, NameAssumption
<1>3. Given \in Text BY <1>1, RequestType, IntakeAssumption DEF Given, Text
<1>4. clean \in Seq(Characters) /\ \A j \in DOMAIN clean : clean[j] # "?"
  <2>1. Spaced(clean) BY <1>3, Sanitized
  <2> HIDE DEF clean
  <2> QED BY <2>1 DEF Spaced, Text, IsWord
<1>5. Given' = Given BY <1>1 DEF Given
<1> HIDE DEF clean
<1>6. TypeOK' BY <1>1, <1>4 DEF TypeOK
<1>7. Routed' BY <1>1 DEF Routed
<1>8. Unpacked'
  <2>1. best \in DOMAIN files \cap Html BY <1>1, NameAssumption DEF IInv, Walked, Leads
  <2>2. DOMAIN files \cap Html # {} BY <2>1
  <2> QED BY <1>1, <1>2, <2>2, ZipKept DEF IInv
<1>9. Walked' BY <1>1 DEF Walked
<1>10. Named'
  <2>1. answer' = 201 => clean # <<>> /\ clean \notin Reserved BY <1>1
  <2>2. identifier' = Sanitize(Given)' BY <1>1, <1>5 DEF clean
  <2> QED BY <1>1, <2>1, <2>2 DEF Named
<1> QED BY <1>1, <1>6, <1>7, <1>8, <1>9, <1>10 DEF IInv

LEMMA NextKeeps == IInv /\ [Next]_vars => IInv'
<1> SUFFICES ASSUME IInv, [Next]_vars PROVE IInv' OBVIOUS
<1>1. CASE Form BY <1>1, FormKeeps
<1>2. CASE Unzip BY <1>2, UnzipKeeps
<1>3. CASE Unzipped BY <1>3, UnzippedKeeps
<1>4. CASE InvalidURL BY <1>4, InvalidURLKeeps
<1>5. CASE StartDetect BY <1>5, StartDetectKeeps
<1>6. CASE Detected BY <1>6, DetectedKeeps
<1>7. CASE Name BY <1>7, NameKeeps
<1>8. ASSUME NEW ips \in SUBSET Addresses, Blocked(ips) PROVE IInv' BY <1>8, BlockedKeeps
<1>9. ASSUME NEW ips \in SUBSET Addresses, NEW ip \in ips, NEW reply \in Replies,
             Hop(ip, ips, reply)
      PROVE  IInv'
  BY <1>9, HopKeeps
<1>10. ASSUME NEW name \in left, Consider(name) PROVE IInv' BY <1>10, ConsiderKeeps
<1>11. CASE UNCHANGED vars
  <2>1. /\ request' = request /\ pc' = pc /\ i' = i /\ total' = total /\ read' = read
        /\ files' = files /\ left' = left /\ best' = best /\ hops' = hops /\ dialled' = dialled
        /\ identifier' = identifier /\ answer' = answer
    BY <1>11 DEF vars, zip, detect, web
  <2>2. TypeOK' BY <2>1 DEF IInv, TypeOK
  <2>3. Routed' BY <2>1 DEF IInv, Routed
  <2>4. Unpacked'
    <3>1. PICK n : n = i OBVIOUS
    <3>2. Kept(n)' = Kept(n) BY <2>1, SameZip
    <3>3. Kept(i)' = Kept(i) BY <2>1, <3>1, <3>2, Zenon
    <3>4. WellFormed' = WellFormed BY <2>1, SameZip
    <3> QED BY <2>1, <3>3, <3>4 DEF IInv, Unpacked, IsPack, Rejected, Examined
  <2>5. Walked' BY <2>1 DEF IInv, Walked, Leads
  <2>6. Named'
    <3>1. Given' = Given BY <2>1 DEF Given
    <3> QED BY <2>1, <3>1 DEF IInv, Named
  <2> QED BY <2>1, <2>2, <2>3, <2>4, <2>5, <2>6 DEF IInv
<1>12. CASE Answered BY <1>11, <1>12 DEF Answered
<1> QED BY <1>1, <1>2, <1>3, <1>4, <1>5, <1>6, <1>7, <1>8, <1>9, <1>10, <1>11, <1>12 DEF Next

LEMMA Invariance == Spec => []IInv
BY Starts, NextKeeps, PTL DEF Spec

-----------------------------------------------------------------------------
(* The theorems                                                            *)

\* Every variable of the handler keeps its type, for every set of requests, caps,
\* names and addresses (upload.go, ingest.go, fetch.go and slug.go as Intake has them).
THEOREM TypeCorrect == Spec => []TypeOK
<1>1. IInv => TypeOK BY DEF IInv
<1> QED BY <1>1, Invariance, PTL

\* OpenPack lets a zip through if and only if it is within every cap and has nothing
\* in it that is refused; it keeps the last entry of every name, and decompresses at
\* most a byte more than the cap, however many entries of whatever sizes a zip has
\* (ingest.go:66-155).
THEOREM PackHolds == Spec => []PackAsDeclared
<1>1. IInv => PackAsDeclared
  <2> SUFFICES ASSUME IInv, IsPack PROVE PackAsDeclared BY DEF PackAsDeclared, IsPack
  <2>1. Kept(i) /\ i = Len(request.entries) /\ Len(request.entries) <= MaxFiles
           => WellFormed /\ HoldsAll
    <3> SUFFICES ASSUME NEW n, Kept(n), n = Len(request.entries), n <= MaxFiles
                 PROVE  WellFormed /\ HoldsAll
      OBVIOUS
    <3> QED BY DEF Kept, WellFormed, HoldsAll
  <2>2. pc \in {"files", "detect", "name"} => WellFormed /\ HoldsAll BY <2>1 DEF IInv, Unpacked
  <2>3. pc = "done" => Rejected \/ (Examined /\ WellFormed /\ HoldsAll)
    BY <2>1 DEF IInv, Unpacked, Examined
  <2>4. pc = "done" => /\ WellFormed => HoldsAll
                       /\ best # None <=> WellFormed /\ DOMAIN files \cap Html # {}
                       /\ best = None => answer \in {413, 422}
    BY <2>3 DEF Rejected, Examined
  <2> QED BY <2>2, <2>4 DEF IInv, Unpacked, PackAsDeclared
<1> QED BY <1>1, Invariance, PTL

\* DetectEntry returns the same document whatever order Go walks the map in, for any
\* pack and any depths and order of the names (ingest.go:132-155).
THEOREM EntryFound == Spec => []EntryIsBest
<1>1. IInv => EntryIsBest BY DEF IInv, Walked, Leads, EntryIsBest
<1> QED BY <1>1, Invariance, PTL

\* An import never connects outside the permitted addresses, and asks no more often
\* than CheckRedirect allows, whatever hosts resolve to and redirect to
\* (fetch.go:56-92, 112-181).
THEOREM Inside == Spec => []ImportsStayInside
<1>1. IInv => ImportsStayInside BY DEF IInv, TypeOK, Routed, ImportsStayInside
<1> QED BY <1>1, Invariance, PTL

\* An accepted identifier is clean, for an input of any length over any characters:
\* Sanitize needs one pass, and the slug gives the identifier back (slug.go:38-66).
THEOREM Clean == Spec => []IdentifiersAreClean
<1>1. IInv => IdentifiersAreClean
  <2> SUFFICES ASSUME IInv, answer = 201 PROVE IdentifiersAreClean BY DEF IdentifiersAreClean
  <2> DEFINE r == Sanitize(Given)
             slug == identifier \o <<"-", "7">>
  <2>1. identifier = r /\ identifier # <<>> /\ identifier \notin Reserved
    BY DEF IInv, Named
  <2>2. Given \in Text BY RequestType, IntakeAssumption DEF IInv, Given, Text
  <2>3. /\ Spaced(r) /\ Len(r) \in 0..MaxIdentifierLen
        /\ Len(r) > 0 => IsWord(r[1]) /\ IsWord(r[Len(r)])
        /\ IsPrefix(Words(r), Words(Given)) /\ Sanitize(r) = r
    BY <2>2, Sanitized
  <2> HIDE DEF r, slug
  <2>4. r \in Text /\ Len(r) \in 1..MaxIdentifierLen /\ DOMAIN r = 1..Len(r)
    BY <2>1, <2>3, Numbers DEF Spaced, Text
  <2>5. ASSUME NEW j \in DOMAIN r
        PROVE  IsWord(r[j]) \/ (j > 1 /\ j < Len(r) /\ IsWord(r[j - 1]) /\ IsWord(r[j + 1]))
    <3>1. CASE IsWord(r[j]) BY <3>1
    <3>2. CASE ~IsWord(r[j])
      <4>1. j \in 1..Len(r) /\ j # 1 /\ j # Len(r) /\ Len(r) \in Nat BY <2>3, <2>4, <3>2
      <4>2. j > 1 /\ j < Len(r) /\ j + 1 \in 1..Len(r) /\ j + 1 > 1 /\ (j + 1) - 1 = j BY <4>1
      <4>3. IsWord(r[j - 1]) BY <2>3, <3>2, <4>1, <4>2 DEF Spaced
      <4>4. IsWord(r[j + 1]) BY <2>3, <3>2, <4>2 DEF Spaced
      <4> QED BY <4>2, <4>3, <4>4
    <3> QED BY <3>1, <3>2
  <2>6. request.identifier # <<>> => IsPrefix(Words(r), Words(request.identifier))
    BY <2>3 DEF Given
  <2>7. \E j \in DOMAIN slug :
           /\ IsDash(slug[j]) /\ SubSeq(slug, 1, j - 1) = identifier
           /\ \A k \in j + 1..Len(slug) : ~IsDash(slug[k])
    <3> DEFINE n == Len(r)
               end == <<"-", "7">>
               S == Characters \cup {"-", "7"}
    <3>1. n \in Nat /\ r \in Seq(S) /\ end \in Seq(S)
      BY <2>4 DEF Text
    <3>2. Len(end) = 2 /\ end[1] = "-" /\ end[2] = "7" OBVIOUS
    <3> HIDE DEF end, S
    <3>3. /\ Len(r \o end) = n + 2
          /\ \A k \in 1..n + 2 : (r \o end)[k] = IF k <= n THEN r[k] ELSE end[k - n]
      <4>1. /\ Len(r \o end) = n + Len(end)
            /\ \A k \in 1..n + Len(end) : (r \o end)[k] = IF k <= n THEN r[k] ELSE end[k - n]
        BY <3>1, ConcatProperties, Zenon
      <4> QED BY <3>2, <4>1
    <3>4. SubSeq(r \o end, 1, n) = r BY <3>1, <3>2, <3>3
    <3>5. slug = r \o end BY <2>1 DEF slug, end
    <3>6. slug[n + 1] = "-" /\ slug[n + 2] = "7" /\ Len(slug) = n + 2 /\ n + 1 \in DOMAIN slug
      <4>1. n + 1 \in 1..n + 2 /\ n + 2 \in 1..n + 2 /\ ~(n + 1 <= n) /\ ~(n + 2 <= n)
            /\ (n + 1) - n = 1 /\ (n + 2) - n = 2
        BY <3>1
      <4> QED BY <3>1, <3>2, <3>3, <3>5, <4>1
    <3>7. SubSeq(slug, 1, (n + 1) - 1) = identifier BY <2>1, <3>1, <3>4, <3>5
    <3>8. \A k \in (n + 1) + 1..Len(slug) : k = n + 2 BY <3>1, <3>6
    <3>9. IsDash(slug[n + 1]) /\ \A k \in (n + 1) + 1..Len(slug) : ~IsDash(slug[k])
      BY <3>6, <3>8 DEF IsDash
    <3> HIDE DEF n
    <3> QED BY <3>6, <3>7, <3>9
  <2> QED BY <2>1, <2>3, <2>4, <2>5, <2>6, <2>7 DEF IdentifiersAreClean, slug
<1> QED BY <1>1, Invariance, PTL
=============================================================================
