------------------------------ MODULE JsonProofs ------------------------------
(***************************************************************************)
(* Strings and documents in JSON text, for every nesting limit, every      *)
(* string, key and number, and every document that some calls of Set and   *)
(* Push build: what is written is read again, the last of two members of   *)
(* one key counts, and a text cut short is refused.                        *)
(*                                                                         *)
(* Documents are given by nesting depth, so that what holds of all is      *)
(* shown by induction over the depth.  The reader only goes forward: what  *)
(* it makes of a place depends on later places alone, so that a container  *)
(* is followed from its last item to the first.                            *)
(***************************************************************************)
EXTENDS Json, WellFoundedInduction, TLAPS

-----------------------------------------------------------------------------
(* Strings: what is written of one, and what the reader makes of it.       *)

\* A set that has 0 and every successor is Nat.
LEMMA NatSetInduction ==
    ASSUME NEW S, S \subseteq Nat, 0 \in S, \A n \in S : n + 1 \in S
    PROVE  S = Nat
<1> SUFFICES ASSUME S # Nat PROVE FALSE OBVIOUS
<1> DEFINE T == Nat \ S
<1>1. PICK m \in T : \A x \in T : ~(<<x, m>> \in OpToRel(<, Nat))
  BY NatLessThanWellFounded, WFMin
<1>2. m \in Nat /\ m # 0 BY <1>1
<1>3. m - 1 \in Nat /\ <<m - 1, m>> \in OpToRel(<, Nat) BY <1>2 DEF OpToRel
<1>4. m - 1 \in S BY <1>1, <1>3
<1>5. (m - 1) + 1 \in S /\ (m - 1) + 1 = m BY <1>2, <1>4
<1>6. QED BY <1>1, <1>5

\* What a written string is made of, when its characters are in C.
Tokens(C) == C \cup {"quote", Backslash, "n", "u", "hexControl"}

\* A backslash is no other character a string is written with.
LEMMA SpecialsDiffer ==
    /\ Backslash \notin {"quote", "newline", "end", "u", "n", "control",
                         "hexControl", "hexHigh"}
    /\ Slash \notin {Backslash, "u", "end"}
BY DEF Backslash, Slash

\* What EscapeString makes of one character (json.cpp:392-427).
LEMMA EscapeIs ==
    ASSUME NEW c
    PROVE  Escape(c) = IF c \in {"quote", Backslash}   THEN <<Backslash, c>>
                       ELSE IF c = "newline" THEN <<Backslash, "n">>
                       ELSE IF c = "control" THEN <<Backslash, "u", "hexControl">>
                       ELSE <<c>>
<1>1. DOMAIN EscapeLetter = {"quote", Backslash, "newline"} BY DEF EscapeLetter
<1>2. c \in {"quote", Backslash} => EscapeLetter[c] = c
  BY SpecialsDiffer DEF EscapeLetter
<1>3. EscapeLetter["newline"] = "n" BY DEF EscapeLetter
<1>4. HexOf["control"] = "hexControl" BY DEF HexOf
<1>5. QED BY <1>1, <1>2, <1>3, <1>4, SpecialsDiffer DEF Escape

LEMMA EscapeType ==
    ASSUME NEW C, NEW c \in C
    PROVE  Escape(c) \in Seq(Tokens(C)) /\ Len(Escape(c)) \in 1 .. 3
<1>1. CASE c \in {"quote", Backslash}
  <2>1. Escape(c) = <<Backslash, c>> BY <1>1, EscapeIs
  <2>2. QED BY <2>1 DEF Tokens
<1>2. CASE c = "newline"
  <2>1. Escape(c) = <<Backslash, "n">> BY <1>2, EscapeIs, SpecialsDiffer
  <2>2. QED BY <2>1 DEF Tokens
<1>3. CASE c = "control"
  <2>1. Escape(c) = <<Backslash, "u", "hexControl">>
    BY <1>3, EscapeIs, SpecialsDiffer
  <2>2. QED BY <2>1 DEF Tokens
<1>4. CASE c \notin {"quote", Backslash, "newline", "control"}
  <2>1. Escape(c) = <<c>> BY <1>4, EscapeIs
  <2>2. QED BY <2>1 DEF Tokens
<1>5. QED BY <1>1, <1>2, <1>3, <1>4

\* What FlattenSeq's recursive function is to be.
Flattens(w, chars, n) ==
    \A k \in 1 .. n :
        w[k] = IF k = 1 THEN Escape(chars[1]) ELSE w[k - 1] \o Escape(chars[k])

\* There is a way to write a string character by character,
LEMMA FlattenExists ==
    ASSUME NEW C, NEW chars \in Seq(C)
    PROVE  \E w \in [1 .. Len(chars) -> Seq(Tokens(C))] :
               Flattens(w, chars, Len(chars))
<1> DEFINE T == Seq(Tokens(C))
           Done(n) == n <= Len(chars)
                         => \E w \in [1 .. n -> T] : Flattens(w, chars, n)
           N == {n \in Nat : Done(n)}
<1>1. 0 \in N
  <2> DEFINE w == [k \in 1 .. 0 |-> <<>>]
  <2>1. w \in [1 .. 0 -> T] /\ Flattens(w, chars, 0) BY DEF Flattens
  <2>2. QED BY <2>1
<1>2. ASSUME NEW n \in N PROVE n + 1 \in N
  <2> SUFFICES ASSUME n + 1 <= Len(chars)
               PROVE  \E w \in [1 .. n + 1 -> T] : Flattens(w, chars, n + 1)
    OBVIOUS
  <2>1. PICK v \in [1 .. n -> T] : Flattens(v, chars, n) OBVIOUS
  <2>2. Escape(chars[n + 1]) \in T
    <3>1. n + 1 \in 1 .. Len(chars) OBVIOUS
    <3>2. chars[n + 1] \in C BY <3>1
    <3>3. QED BY <3>2, EscapeType
  <2> DEFINE last == IF n = 0 THEN Escape(chars[1]) ELSE v[n] \o Escape(chars[n + 1])
             w == [k \in 1 .. n + 1 |-> IF k = n + 1 THEN last ELSE v[k]]
  <2>3. last \in T
    <3>1. CASE n = 0 BY <2>2, <3>1
    <3>2. CASE n # 0
      <4>1. v[n] \in T BY <2>1, <3>2
      <4>2. QED BY <2>2, <3>2, <4>1
    <3>3. QED BY <3>1, <3>2
  <2>4. w \in [1 .. n + 1 -> T]
    <3> HIDE DEF last, T
    <3> QED BY <2>1, <2>3
  <2>5. Flattens(w, chars, n + 1)
    <3> SUFFICES ASSUME NEW k \in 1 .. n + 1
                 PROVE  w[k] = IF k = 1 THEN Escape(chars[1])
                               ELSE w[k - 1] \o Escape(chars[k])
      BY DEF Flattens
    <3>1. CASE k = n + 1
      <4>1. w[k] = last BY <3>1
      <4>2. n # 0 => w[k - 1] = v[n] BY <3>1
      <4>3. QED BY <3>1, <4>1, <4>2
    <3>2. CASE k # n + 1
      <4>1. k \in 1 .. n BY <3>2
      <4>2. w[k] = v[k] /\ (k # 1 => w[k - 1] = v[k - 1])
        <5> HIDE DEF last
        <5> QED BY <4>1
      <4>3. QED BY <2>1, <4>1, <4>2 DEF Flattens
    <3>3. QED BY <3>1, <3>2
  <2>6. QED BY <2>4, <2>5
<1> HIDE DEF Done
<1>3. N = Nat BY <1>1, <1>2, NatSetInduction
<1>4. Done(Len(chars)) BY <1>3
<1>5. QED BY <1>4 DEF Done

\* and only one,
LEMMA FlattenUnique ==
    ASSUME NEW chars, Len(chars) \in Nat, NEW v, NEW w,
           Flattens(v, chars, Len(chars)), Flattens(w, chars, Len(chars))
    PROVE  Len(chars) > 0 => v[Len(chars)] = w[Len(chars)]
<1> DEFINE Agree(n) == n + 1 <= Len(chars) => v[n + 1] = w[n + 1]
           N == {n \in Nat : Agree(n)}
<1>1. 0 \in N BY DEF Flattens
<1>2. ASSUME NEW n \in N PROVE n + 1 \in N
  <2> SUFFICES ASSUME n + 1 + 1 <= Len(chars)
               PROVE  v[n + 1 + 1] = w[n + 1 + 1]
    OBVIOUS
  <2> DEFINE k == n + 1 + 1
  <2>1. k \in 1 .. Len(chars) /\ k # 1 /\ k - 1 = n + 1 OBVIOUS
  <2>2. v[n + 1] = w[n + 1] OBVIOUS
  <2> HIDE DEF k
  <2>3. v[k] = v[n + 1] \o Escape(chars[k]) BY <2>1 DEF Flattens
  <2>4. w[k] = w[n + 1] \o Escape(chars[k]) BY <2>1 DEF Flattens
  <2>5. QED BY <2>2, <2>3, <2>4 DEF k
<1> HIDE DEF Agree
<1>3. N = Nat BY <1>1, <1>2, NatSetInduction
<1>4. Len(chars) > 0 => Agree(Len(chars) - 1) BY <1>3
<1>5. QED BY <1>4 DEF Agree

\* so a string is written as its quotes and what each character becomes.
LEMMA EscapeStringIs ==
    ASSUME NEW C, NEW chars \in Seq(C), NEW w,
           w \in [1 .. Len(chars) -> Seq(Tokens(C))], Flattens(w, chars, Len(chars))
    PROVE  EscapeString(chars) =
             <<"quote">> \o (IF chars = <<>> THEN <<>> ELSE w[Len(chars)])
                 \o <<"quote">>
<1> DEFINE parts == [k \in DOMAIN chars |-> Escape(chars[k])]
           n == Len(chars)
           Is(g) == g = [i \in 1 .. Len(parts) |->
                            IF i = 1 THEN parts[i] ELSE g[i - 1] \o parts[i]]
           flatten == CHOOSE g : Is(g)
<1>1. n \in Nat /\ DOMAIN chars = 1 .. n OBVIOUS
<1>2. /\ parts \in Seq(Seq(Tokens(C))) /\ Len(parts) = n
      /\ \A k \in 1 .. n : parts[k] = Escape(chars[k])
  <2>1. \A k \in 1 .. n : Escape(chars[k]) \in Seq(Tokens(C)) BY EscapeType
  <2>2. QED BY <1>1, <2>1
<1>3. FlattenSeq(parts) = IF Len(parts) = 0 THEN parts ELSE flatten[Len(parts)]
  BY DEF FlattenSeq
<1> HIDE DEF parts, flatten
<1>4. CASE n = 0
  <2>1. chars = <<>> /\ parts = <<>> BY <1>2, <1>4
  <2>2. QED BY <1>2, <1>3, <1>4, <2>1 DEF EscapeString, parts
<1>5. CASE n # 0
  <2>1. Is(w)
    <3>1. w = [i \in 1 .. n |-> IF i = 1 THEN parts[i] ELSE w[i - 1] \o parts[i]]
      BY <1>1, <1>2 DEF Flattens
    <3>2. QED BY <1>2, <3>1
  <2>2. Is(flatten) BY <2>1 DEF flatten
  <2>3. Flattens(flatten, chars, n)
    <3> SUFFICES ASSUME NEW k \in 1 .. n
                 PROVE  flatten[k] = IF k = 1 THEN Escape(chars[1])
                                     ELSE flatten[k - 1] \o Escape(chars[k])
      BY DEF Flattens
    <3>1. flatten[k] = IF k = 1 THEN parts[k] ELSE flatten[k - 1] \o parts[k]
      BY <1>2, <2>2
    <3>2. QED BY <1>2, <3>1
  <2>4. flatten[n] = w[n] BY <1>1, <1>5, <2>3, FlattenUnique
  <2>5. chars # <<>> BY <1>5
  <2>6. QED BY <1>2, <1>3, <1>5, <2>4, <2>5 DEF EscapeString, parts
<1>6. QED BY <1>4, <1>5

\* Where in a written string the text of each character ends.
Layout(ends, chars, e) ==
    /\ ends \in [0 .. Len(chars) -> Nat]
    /\ ends[0] = 1 /\ Len(e) = ends[Len(chars)] + 1
    /\ e[1] = "quote" /\ e[Len(e)] = "quote"
    /\ \A k \in 1 .. Len(chars) :
          /\ ends[k] = ends[k - 1] + Len(Escape(chars[k]))
          /\ \A i \in 1 .. Len(Escape(chars[k])) :
                e[ends[k - 1] + i] = Escape(chars[k])[i]

LEMMA ConcatParts ==
    ASSUME NEW S, NEW s \in Seq(S), NEW t \in Seq(S)
    PROVE  /\ Len(s \o t) = Len(s) + Len(t)
           /\ \A i \in 1 .. Len(s) : (s \o t)[i] = s[i]
           /\ \A i \in 1 .. Len(t) : (s \o t)[Len(s) + i] = t[i]
OBVIOUS

\* What is flattened of the first characters begins what is flattened of all.
LEMMA FlattenPrefix ==
    ASSUME NEW C, NEW chars \in Seq(C), NEW w,
           w \in [1 .. Len(chars) -> Seq(Tokens(C))],
           Flattens(w, chars, Len(chars)), NEW k \in 1 .. Len(chars)
    PROVE  /\ Len(w[k]) <= Len(w[Len(chars)])
           /\ \A i \in 1 .. Len(w[k]) : w[Len(chars)][i] = w[k][i]
<1> DEFINE Begins(m) ==
               k + m <= Len(chars) =>
                   /\ Len(w[k]) <= Len(w[k + m])
                   /\ \A i \in 1 .. Len(w[k]) : w[k + m][i] = w[k][i]
           N == {m \in Nat : Begins(m)}
<1>1. 0 \in N
  <2>1. w[k] \in Seq(Tokens(C)) /\ k + 0 = k OBVIOUS
  <2>2. QED BY <2>1
<1>2. ASSUME NEW m \in N PROVE m + 1 \in N
  <2> SUFFICES ASSUME k + (m + 1) <= Len(chars)
               PROVE  /\ Len(w[k]) <= Len(w[k + (m + 1)])
                      /\ \A i \in 1 .. Len(w[k]) : w[k + (m + 1)][i] = w[k][i]
    OBVIOUS
  <2> DEFINE j == k + (m + 1)
             x == Escape(chars[j])
             prev == w[j - 1]
  <2>1. j \in 1 .. Len(chars) /\ j # 1 /\ j - 1 = k + m /\ j - 1 \in 1 .. Len(chars)
    OBVIOUS
  <2>2. /\ Len(w[k]) <= Len(w[k + m])
        /\ \A i \in 1 .. Len(w[k]) : w[k + m][i] = w[k][i]
    BY <2>1
  <2> HIDE DEF j, N, Begins
  <2>3. w[j] = prev \o x BY <2>1 DEF Flattens
  <2>4. prev \in Seq(Tokens(C)) /\ w[k] \in Seq(Tokens(C)) BY <2>1
  <2>5. x \in Seq(Tokens(C))
    <3>1. chars[j] \in C BY <2>1
    <3>2. QED BY <3>1, EscapeType
  <2>6. /\ Len(w[k]) <= Len(prev)
        /\ \A i \in 1 .. Len(w[k]) : prev[i] = w[k][i]
    BY <2>1, <2>2
  <2> HIDE DEF x, prev
  <2>7. /\ Len(w[j]) = Len(prev) + Len(x)
        /\ \A i \in 1 .. Len(prev) : w[j][i] = prev[i]
    BY <2>3, <2>4, <2>5, ConcatParts
  <2>8. Len(x) \in Nat /\ Len(w[k]) \in Nat /\ Len(prev) \in Nat
    BY <2>4, <2>5
  <2>9. /\ Len(w[k]) <= Len(w[j])
        /\ \A i \in 1 .. Len(w[k]) : w[j][i] = w[k][i]
    BY <2>6, <2>7, <2>8
  <2>10. QED BY <2>9 DEF j
<1> HIDE DEF Begins
<1>3. N = Nat BY <1>1, <1>2, NatSetInduction
<1>4. Begins(Len(chars) - k)
  <2>1. Len(chars) - k \in Nat OBVIOUS
  <2>2. QED BY <1>3, <2>1
<1>5. k + (Len(chars) - k) = Len(chars) OBVIOUS
<1>6. QED BY <1>4, <1>5 DEF Begins

\* Every written string has a layout.
LEMMA LayoutExists ==
    ASSUME NEW C, NEW chars \in Seq(C)
    PROVE  /\ \E ends : Layout(ends, chars, EscapeString(chars))
           /\ EscapeString(chars) \in Seq(Tokens(C))
<1> DEFINE n == Len(chars)
           e == EscapeString(chars)
<1>0. n \in Nat OBVIOUS
<1>1. PICK w \in [1 .. n -> Seq(Tokens(C))] : Flattens(w, chars, n)
  BY FlattenExists
<1> DEFINE all == IF chars = <<>> THEN <<>> ELSE w[n]
           ends == [k \in 0 .. n |-> IF k = 0 THEN 1 ELSE 1 + Len(w[k])]
<1>2. e = <<"quote">> \o all \o <<"quote">> BY <1>1, EscapeStringIs
<1>3. all \in Seq(Tokens(C))
  <2>1. chars # <<>> => n \in 1 .. n OBVIOUS
  <2>2. QED BY <1>1, <2>1
<1>4. Len(all) \in Nat /\ Len(all) = IF n = 0 THEN 0 ELSE Len(w[n])
  <2>1. chars = <<>> <=> n = 0 OBVIOUS
  <2>2. QED BY <1>3, <2>1
<1> HIDE DEF all
<1>5. /\ Len(e) = Len(all) + 2 /\ e[1] = "quote" /\ e[Len(all) + 2] = "quote"
      /\ \A i \in 1 .. Len(all) : e[1 + i] = all[i]
  <2> HIDE DEF e
  <2> DEFINE front == <<"quote">> \o all
  <2>1. /\ front \in Seq(Tokens(C)) /\ Len(front) = 1 + Len(all)
        /\ front[1] = "quote" /\ \A i \in 1 .. Len(all) : front[1 + i] = all[i]
    BY <1>3, <1>4 DEF Tokens
  <2>2. e = front \o <<"quote">> BY <1>2
  <2> HIDE DEF front
  <2>3. /\ Len(e) = Len(front) + 1 /\ e[Len(front) + 1] = "quote"
        /\ \A i \in 1 .. Len(front) : e[i] = front[i]
    BY <2>1, <2>2
  <2>4. QED BY <1>4, <2>1, <2>3
<1>6. \A k \in 1 .. n : Len(w[k]) \in Nat BY <1>1
<1>7. ends \in [0 .. n -> Nat] BY <1>6
<1>8. ASSUME NEW k \in 1 .. n
      PROVE  /\ ends[k] = ends[k - 1] + Len(Escape(chars[k]))
             /\ \A i \in 1 .. Len(Escape(chars[k])) :
                    e[ends[k - 1] + i] = Escape(chars[k])[i]
  <2> DEFINE x == Escape(chars[k])
             before == IF k = 1 THEN <<>> ELSE w[k - 1]
  <2>1. x \in Seq(Tokens(C)) /\ Len(x) \in Nat
    <3>1. chars[k] \in C OBVIOUS
    <3>2. QED BY <3>1, EscapeType
  <2>2. before \in Seq(Tokens(C))
    <3>1. k # 1 => k - 1 \in 1 .. n OBVIOUS
    <3>2. QED BY <1>1, <3>1
  <2>3. w[k] = before \o x
    <3>1. k = 1 => w[k] = x BY <1>1 DEF Flattens
    <3>2. k # 1 => w[k] = w[k - 1] \o x BY <1>1 DEF Flattens
    <3> HIDE DEF x
    <3>3. <<>> \o x = x BY <2>1
    <3>4. QED BY <3>1, <3>2, <3>3
  <2>4. ends[k - 1] = 1 + Len(before) /\ ends[k] = 1 + Len(w[k])
    <3>1. ends[k] = 1 + Len(w[k]) OBVIOUS
    <3>2. CASE k = 1
      <4>1. Len(before) = 0 BY <3>2
      <4>2. ends[k - 1] = 1 BY <3>2
      <4>3. QED BY <3>1, <4>1, <4>2
    <3>3. CASE k # 1
      <4>1. before = w[k - 1] /\ ends[k - 1] = 1 + Len(w[k - 1]) BY <3>3
      <4>2. QED BY <3>1, <4>1
    <3>4. QED BY <3>2, <3>3
  <2> HIDE DEF x, before, e, ends
  <2>5. /\ Len(w[k]) = Len(before) + Len(x)
        /\ \A i \in 1 .. Len(x) : w[k][Len(before) + i] = x[i]
    BY <2>1, <2>2, <2>3
  <2>6. /\ Len(w[k]) <= Len(w[n]) /\ \A i \in 1 .. Len(w[k]) : w[n][i] = w[k][i]
    BY <1>1, FlattenPrefix, SMTT(30)
  <2>7. all = w[n] BY DEF all
  <2>8. Len(before) \in Nat BY <2>2
  <2>9. ASSUME NEW i \in 1 .. Len(x) PROVE e[ends[k - 1] + i] = x[i]
    <3> DEFINE q == Len(before) + i
    <3>1. q \in 1 .. Len(w[k]) /\ w[k][q] = x[i] BY <2>1, <2>5, <2>8
    <3>2. q \in 1 .. Len(all) /\ all[q] = x[i] BY <1>4, <1>6, <2>6, <2>7, <3>1
    <3>3. e[1 + q] = x[i] BY <1>5, <3>2
    <3>4. ends[k - 1] + i = 1 + q BY <2>4, <2>8
    <3>5. QED BY <3>3, <3>4
  <2>10. ends[k] = ends[k - 1] + Len(x) BY <2>1, <2>4, <2>5, <2>8
  <2>11. QED BY <2>9, <2>10 DEF x
<1>9. ends[0] = 1 /\ Len(e) = ends[n] + 1
  <2>1. ends[0] = 1 /\ ends[n] = 1 + Len(all) BY <1>0, <1>4
  <2>2. QED BY <1>4, <1>5, <2>1
<1>10. e[Len(e)] = "quote" BY <1>5
<1>11. e \in Seq(Tokens(C))
  <2>1. <<"quote">> \in Seq(Tokens(C)) BY DEF Tokens
  <2>2. <<"quote">> \o all \in Seq(Tokens(C)) BY <1>3, <2>1
  <2>3. <<"quote">> \o all \o <<"quote">> \in Seq(Tokens(C)) BY <2>1, <2>2
  <2> HIDE DEF e
  <2>4. QED BY <1>2, <2>3
<1> HIDE DEF ends, e
<1>12. Layout(ends, chars, e) BY <1>5, <1>7, <1>8, <1>9, <1>10 DEF Layout
<1>13. QED BY <1>11, <1>12 DEF e

-----------------------------------------------------------------------------
(* Reading: the function of StringFrom exists, as every turn of the loop   *)
(* asks for later places only.                                             *)

LEMMA AtEnds ==
    ASSUME NEW T, NEW text \in Seq(T), NEW q \in Nat \ {0}, At(text, q) # "end"
    PROVE  q \in 1 .. Len(text)
BY DEF At

\* One turn of the loop looks only ahead,
LEMMA ReadFromLocal ==
    ASSUME NEW T, NEW text \in Seq(T), NEW pos \in 1 .. Len(text) + 1,
           NEW f, NEW g,
           \A q \in pos + 1 .. Len(text) + 1 : f[q] = g[q]
    PROVE  ReadFrom(text, pos, f) = ReadFrom(text, pos, g)
<1> DEFINE n == Len(text)
           Same(q) == \A chars : Prefixed(chars, f, q) = Prefixed(chars, g, q)
<1>0. n \in Nat OBVIOUS
<1>1. \A q \in pos + 1 .. n + 1 : Same(q) BY DEF Prefixed
<1>2. /\ At(text, pos) # "end" => Same(pos + 1)
      /\ At(text, pos + 1) # "end" => Same(pos + 2)
      /\ At(text, pos + 2) # "end" => Same(pos + 3)
      /\ At(text, pos + 5) # "end" => Same(pos + 6)
  <2> HIDE DEF Same
  <2>1. /\ At(text, pos) # "end" => pos + 1 \in pos + 1 .. n + 1
        /\ At(text, pos + 1) # "end" => pos + 2 \in pos + 1 .. n + 1
        /\ At(text, pos + 2) # "end" => pos + 3 \in pos + 1 .. n + 1
        /\ At(text, pos + 5) # "end" => pos + 6 \in pos + 1 .. n + 1
    BY AtEnds
  <2>2. QED BY <1>1, <2>1
<1>3. "end" \notin DOMAIN Unescaped /\ "end" \notin DOMAIN HexChar
  BY SpecialsDiffer DEF Unescaped, HexChar
<1>4. ReadEscape(text, pos, f) = ReadEscape(text, pos, g)
  BY <1>2, <1>3 DEF ReadEscape
<1>5. QED BY <1>2, <1>4 DEF ReadFrom

\* so the loop, as a function of places, exists,
LEMMA ReaderExists ==
    ASSUME NEW T, NEW text \in Seq(T)
    PROVE  \E from : from = [pos \in 1 .. Len(text) + 1 |-> ReadFrom(text, pos, from)]
<1> DEFINE n == Len(text)
           From(f, m) ==
               /\ f = [pos \in 1 .. n + 1 |-> f[pos]]
               /\ \A pos \in 1 .. n + 1 :
                     pos > n + 1 - m => f[pos] = ReadFrom(text, pos, f)
           Done(m) == m <= n + 1 => \E f : From(f, m)
           N == {m \in Nat : Done(m)}
<1>0. n \in Nat OBVIOUS
<1> HIDE DEF n
<1>1. 0 \in N
  <2> DEFINE f == [pos \in 1 .. n + 1 |-> Failed]
  <2>1. From(f, 0) BY <1>0
  <2>2. QED BY <2>1
<1>2. ASSUME NEW m \in N PROVE m + 1 \in N
  <2> SUFFICES ASSUME m + 1 <= n + 1 PROVE \E g : From(g, m + 1) OBVIOUS
  <2>1. PICK f : From(f, m) BY <1>0
  <2> DEFINE p == n + 1 - m
             here == ReadFrom(text, p, f)
             g == [pos \in 1 .. n + 1 |-> IF pos = p THEN here ELSE f[pos]]
  <2>2. p \in 1 .. n + 1 /\ m \in Nat BY <1>0
  <2>3. \A pos \in 1 .. n + 1 : pos > n + 1 - (m + 1) <=> pos = p \/ pos > p
    BY <1>0, <2>2
  <2>4. \A pos \in 1 .. n + 1 : pos > p => f[pos] = ReadFrom(text, pos, f)
    BY <2>1
  <2> HIDE DEF p, here, N, Done
  <2>5. g = [pos \in 1 .. n + 1 |-> g[pos]] OBVIOUS
  <2>6. \A q \in 1 .. n + 1 : q > p => g[q] = f[q] BY <1>0, <2>2
  <2>7. g[p] = here BY <2>2
  <2> HIDE DEF g
  <2>8. ASSUME NEW pos \in 1 .. n + 1, pos = p \/ pos > p
        PROVE  ReadFrom(text, pos, g) = ReadFrom(text, pos, f)
    <3>1. \A q \in pos + 1 .. n + 1 : g[q] = f[q] BY <1>0, <2>2, <2>6, <2>8
    <3>2. QED BY <3>1, ReadFromLocal DEF n
  <2>9. \A pos \in 1 .. n + 1 :
           pos > n + 1 - (m + 1) => g[pos] = ReadFrom(text, pos, g)
    <3> SUFFICES ASSUME NEW pos \in 1 .. n + 1, pos = p \/ pos > p
                 PROVE  g[pos] = ReadFrom(text, pos, g)
      BY <2>3
    <3>1. CASE pos = p BY <2>7, <2>8, <3>1 DEF here
    <3>2. CASE pos > p BY <2>4, <2>6, <2>8, <3>2
    <3>3. QED BY <3>1, <3>2
  <2>10. From(g, m + 1) BY <2>5, <2>9
  <2>11. QED BY <2>10
<1> HIDE DEF Done
<1>3. N = Nat BY <1>1, <1>2, NatSetInduction
<1>4. Done(n + 1) BY <1>0, <1>3
<1>5. PICK f : From(f, n + 1) BY <1>0, <1>4 DEF Done
<1>6. \A pos \in 1 .. n + 1 : f[pos] = ReadFrom(text, pos, f) BY <1>0, <1>5
<1>7. f = [pos \in 1 .. n + 1 |-> ReadFrom(text, pos, f)] BY <1>5, <1>6
<1>8. QED BY <1>7 DEF n

\* and StringFrom is that function.
LEMMA StringFromIs ==
    ASSUME NEW T, NEW text \in Seq(T)
    PROVE  \E from :
               /\ \A pos \in 1 .. Len(text) + 1 : from[pos] = ReadFrom(text, pos, from)
               /\ \A start : StringFrom(text, start) = from[start]
<1> DEFINE Is(f) == f = [pos \in 1 .. Len(text) + 1 |-> ReadFrom(text, pos, f)]
           from == CHOOSE f : Is(f)
<1>1. Is(from) BY ReaderExists
<1>2. \A start : StringFrom(text, start) = from[start] BY DEF StringFrom
<1> HIDE DEF from
<1>3. \A pos \in 1 .. Len(text) + 1 : from[pos] = ReadFrom(text, pos, from)
  BY <1>1
<1>4. QED BY <1>2, <1>3

\* The first characters of what c is written as stand at pos.
Stands(text, pos, c, count) ==
    \A i \in 1 .. count : At(text, pos + i - 1) = Escape(c)[i]

\* One turn of the loop takes one written character.
LEMMA TurnReads ==
    ASSUME NEW text, NEW pos \in Nat, NEW rest, NEW c, c # "end",
           Stands(text, pos, c, Len(Escape(c)))
    PROVE  ReadFrom(text, pos, rest) = Prefixed(<<c>>, rest, pos + Len(Escape(c)))
<1>1. /\ DOMAIN Unescaped = {"quote", Backslash, Slash, "n"}
      /\ \A l \in {"quote", Backslash} : Unescaped[l] = l
      /\ Unescaped["n"] = "newline"
  BY SpecialsDiffer DEF Unescaped
<1>2. DOMAIN HexChar = {"hexControl", "hexHigh", "hexLow"} /\ HexChar["hexControl"] = "control"
  BY DEF HexChar, HexOf
<1>3. pos + 1 - 1 = pos /\ pos + 2 - 1 = pos + 1 /\ pos + 3 - 1 = pos + 2
  OBVIOUS
<1>4. At(text, pos) = Backslash => ReadFrom(text, pos, rest) = ReadEscape(text, pos, rest)
  BY SpecialsDiffer DEF ReadFrom
<1>5. CASE c \in {"quote", Backslash}
  <2>1. Escape(c) = <<Backslash, c>> BY <1>5, EscapeIs
  <2>2. Len(Escape(c)) = 2 /\ Escape(c)[1] = Backslash /\ Escape(c)[2] = c BY <2>1
  <2>3. At(text, pos) = Backslash /\ At(text, pos + 1) = c
    BY <1>3, <2>2 DEF Stands
  <2>4. c \in DOMAIN Unescaped /\ Unescaped[c] = c BY <1>1, <1>5
  <2>5. c # "u" BY <1>5, SpecialsDiffer
  <2>6. ReadEscape(text, pos, rest) = Prefixed(<<c>>, rest, pos + 2)
    BY <2>3, <2>4, <2>5 DEF ReadEscape
  <2>7. QED BY <1>4, <2>2, <2>3, <2>6
<1>6. CASE c = "newline"
  <2>1. Escape(c) = <<Backslash, "n">> BY <1>6, EscapeIs, SpecialsDiffer
  <2>2. Len(Escape(c)) = 2 /\ Escape(c)[1] = Backslash /\ Escape(c)[2] = "n" BY <2>1
  <2>3. At(text, pos) = Backslash /\ At(text, pos + 1) = "n"
    BY <1>3, <2>2 DEF Stands
  <2>4. ReadEscape(text, pos, rest) = Prefixed(<<c>>, rest, pos + 2)
    BY <1>1, <1>6, <2>3 DEF ReadEscape
  <2>5. QED BY <1>4, <2>2, <2>3, <2>4
<1>7. CASE c = "control"
  <2>1. Escape(c) = <<Backslash, "u", "hexControl">>
    BY <1>7, EscapeIs, SpecialsDiffer
  <2>2. /\ Len(Escape(c)) = 3 /\ Escape(c)[1] = Backslash /\ Escape(c)[2] = "u"
        /\ Escape(c)[3] = "hexControl"
    BY <2>1
  <2>3. /\ At(text, pos) = Backslash /\ At(text, pos + 1) = "u"
        /\ At(text, pos + 2) = "hexControl"
    BY <1>3, <2>2 DEF Stands
  <2>4. "u" \notin DOMAIN Unescaped BY <1>1, SpecialsDiffer
  <2>5. ReadEscape(text, pos, rest) = Prefixed(<<c>>, rest, pos + 3)
    BY <1>2, <1>7, <2>3, <2>4 DEF ReadEscape
  <2>6. QED BY <1>4, <2>2, <2>3, <2>5
<1>8. CASE c \notin {"quote", Backslash, "newline", "control"}
  <2>1. Escape(c) = <<c>> BY <1>8, EscapeIs
  <2>2. Len(Escape(c)) = 1 /\ Escape(c)[1] = c BY <2>1
  <2>3. At(text, pos) = c BY <1>3, <2>2 DEF Stands
  <2>4. ReadFrom(text, pos, rest) = Prefixed(<<c>>, rest, pos + 1)
    BY <1>8, <2>3 DEF ReadFrom
  <2>5. QED BY <2>2, <2>4
<1>9. QED BY <1>5, <1>6, <1>7, <1>8

\* What goes wrong further on is passed back.
LEMMA FailureIsPassedOn ==
    ASSUME NEW text, NEW pos \in Nat, NEW rest, NEW c, c # "end",
           NEW len, len = Len(Escape(c)), Stands(text, pos, c, len),
           rest[pos + len] = Failed
    PROVE  ReadFrom(text, pos, rest) = Failed
<1>1. ReadFrom(text, pos, rest) = Prefixed(<<c>>, rest, pos + len)
  BY TurnReads
<1>2. QED BY <1>1 DEF Prefixed, Failed

\* What is left of a text behind a cut: nothing, or the rest of a character
\* that stands for several.
Torn(text, q) ==
    \/ At(text, q) = "end"
    \/ At(text, q) = "torn" /\ At(text, q + 1) = "end"

\* There is no string in it.
LEMMA TearFails ==
    ASSUME NEW T, NEW text \in Seq(T), NEW q \in 1 .. Len(text) + 1, Torn(text, q),
           NEW from, \A p \in 1 .. Len(text) + 1 : from[p] = ReadFrom(text, p, from)
    PROVE  from[q] = Failed
<1>1. ASSUME NEW p \in 1 .. Len(text) + 1, At(text, p) = "end" PROVE from[p] = Failed
  <2>1. from[p] = ReadFrom(text, p, from) OBVIOUS
  <2>2. ReadFrom(text, p, from) = Failed BY <1>1, SpecialsDiffer DEF ReadFrom
  <2>3. QED BY <2>1, <2>2
<1>2. CASE At(text, q) = "torn" /\ At(text, q + 1) = "end"
  <2>1. q \in 1 .. Len(text) /\ q + 1 \in 1 .. Len(text) + 1
    <3>1. At(text, q) # "end" /\ q \in Nat \ {0} BY <1>2
    <3>2. QED BY <3>1, AtEnds
  <2>2. from[q + 1] = Failed BY <1>1, <1>2, <2>1
  <2>3. ReadFrom(text, q, from) = Prefixed(<<"torn">>, from, q + 1)
    <3>1. "torn" \notin {"end", "quote", Backslash} BY DEF Backslash
    <3>2. QED BY <1>2, <3>1 DEF ReadFrom
  <2>4. Prefixed(<<"torn">>, from, q + 1) = Failed BY <2>2 DEF Prefixed, Failed
  <2>5. QED BY <2>3, <2>4
<1>3. QED BY <1>1, <1>2 DEF Torn

LEMMA CutPlaces ==
    ASSUME NEW cut \in Nat, cut # 0, NEW len \in {2, 3}, cut < len
    PROVE  cut = 1 \/ (cut = 2 /\ len = 3)
  OBVIOUS

\* A character whose text is cut short ends the reading.
LEMMA TurnFails ==
    ASSUME NEW text, NEW pos \in Nat, NEW rest, NEW c, NEW cut \in Nat,
           cut # 0, NEW len \in Nat, len = Len(Escape(c)), cut < len,
           Stands(text, pos, c, cut), Torn(text, pos + cut)
    PROVE  ReadFrom(text, pos, rest) = Failed
<1>1. /\ "u" \notin DOMAIN Unescaped
      /\ At(text, pos + cut) \notin DOMAIN Unescaped \cup DOMAIN HexChar \cup {"u"}
  <2>1. "u" \notin DOMAIN Unescaped
        /\ {"end", "torn"} \cap (DOMAIN Unescaped \cup DOMAIN HexChar \cup {"u"}) = {}
    BY SpecialsDiffer DEF Unescaped, HexChar
  <2>2. QED BY <2>1 DEF Torn
<1>2. /\ c \in {"quote", Backslash} => Escape(c) = <<Backslash, c>>
      /\ c = "newline" => Escape(c) = <<Backslash, "n">>
      /\ c = "control" => Escape(c) = <<Backslash, "u", "hexControl">>
      /\ c \notin {"quote", Backslash, "newline", "control"} => Escape(c) = <<c>>
  BY EscapeIs, SpecialsDiffer
<1>3. /\ Escape(c)[1] = Backslash
      /\ len = 2 \/ (len = 3 /\ Escape(c)[2] = "u")
  <2>1. CASE c \in {"quote", Backslash, "newline"}
    <3>1. Escape(c) = <<Backslash, c>> \/ Escape(c) = <<Backslash, "n">>
      BY <1>2, <2>1
    <3>2. QED BY <3>1
  <2>2. CASE c = "control" BY <1>2, <2>2
  <2>3. CASE c \notin {"quote", Backslash, "newline", "control"}
    <3>1. Escape(c) = <<c>> BY <1>2, <2>3
    <3>2. Len(<<c>>) = 1 OBVIOUS
    <3>3. len = 1 BY <3>1, <3>2
    <3>4. QED BY <3>3
  <2>4. QED BY <2>1, <2>2, <2>3
<1>4. At(text, pos) = Backslash
  <2>1. 1 \in 1 .. cut /\ pos + 1 - 1 = pos OBVIOUS
  <2>2. QED BY <1>3, <2>1 DEF Stands
<1>5. ReadFrom(text, pos, rest) = ReadEscape(text, pos, rest)
  BY <1>4, SpecialsDiffer DEF ReadFrom
<1>6. CASE cut = 1
  <2>1. At(text, pos + 1) \notin DOMAIN Unescaped \cup DOMAIN HexChar \cup {"u"} BY <1>1, <1>6
  <2>2. QED BY <1>1, <1>5, <2>1 DEF ReadEscape
<1>7. CASE cut = 2 /\ Escape(c)[2] = "u"
  <2>1. At(text, pos + 1) = "u"
    <3>1. 2 \in 1 .. cut /\ pos + 2 - 1 = pos + 1 BY <1>7
    <3>2. QED BY <1>7, <3>1 DEF Stands
  <2>2. At(text, pos + 2) \notin DOMAIN HexChar BY <1>1, <1>7
  <2>3. "hexHigh" \in DOMAIN HexChar BY DEF HexChar
  <2>4. QED BY <1>1, <1>5, <2>1, <2>2, <2>3 DEF ReadEscape
<1>8. cut = 1 \/ (cut = 2 /\ Escape(c)[2] = "u")
  <2>1. len = 2 \/ len = 3 BY <1>3
  <2>2. cut = 1 \/ (cut = 2 /\ len = 3) BY <2>1, CutPlaces
  <2>3. QED BY <1>3, <2>2
<1>9. QED BY <1>6, <1>7, <1>8

\* The first characters of a written string stand in a text.
Written(text, pos, e, count) ==
    \A k \in 1 .. count : At(text, pos + k - 1) = e[k]

\* A character stands where the layout puts it.
LEMMA LayoutStands ==
    ASSUME NEW e, NEW text, NEW pos \in Nat, NEW count \in Nat,
           Written(text, pos, e, count),
           NEW c, NEW start \in Nat, NEW m \in Nat, start + m <= count,
           \A i \in 1 .. m : e[start + i] = Escape(c)[i]
    PROVE  Stands(text, pos + start, c, m)
<1> SUFFICES ASSUME NEW i \in 1 .. m
             PROVE  At(text, pos + start + i - 1) = Escape(c)[i]
  BY DEF Stands
<1> DEFINE q == start + i
<1>1. q \in 1 .. count /\ pos + start + i - 1 = pos + q - 1 OBVIOUS
<1>2. e[q] = Escape(c)[i] OBVIOUS
<1> HIDE DEF q
<1>3. At(text, pos + q - 1) = e[q] BY <1>1 DEF Written
<1>4. QED BY <1>1, <1>2, <1>3

\* What is written of a string keeps the reader inside the text.
LEMMA WrittenInside ==
    ASSUME NEW C, "end" \notin C, NEW e \in Seq(Tokens(C)),
           NEW T, NEW text \in Seq(T), NEW pos \in Nat \ {0},
           NEW count \in 1 .. Len(e), Written(text, pos, e, count)
    PROVE  pos + count - 1 \in 1 .. Len(text)
<1>1. e[count] \in Tokens(C) OBVIOUS
<1>2. e[count] # "end" BY <1>1, SpecialsDiffer DEF Tokens
<1>3. At(text, pos + count - 1) # "end" BY <1>2 DEF Written
<1>4. pos + count - 1 \in Nat \ {0} OBVIOUS
<1>5. QED BY <1>3, <1>4, AtEnds

\* At the closing quote the reader stops.
LEMMA TurnEnds ==
    ASSUME NEW text, NEW pos, NEW rest, At(text, pos) = "quote"
    PROVE  ReadFrom(text, pos, rest) = Got(<<>>, pos + 1)
BY SpecialsDiffer DEF ReadFrom

LEMMA ConsParts ==
    ASSUME NEW S, NEW c \in S, NEW t \in Seq(S)
    PROVE  /\ <<c>> \o t \in Seq(S) /\ Len(<<c>> \o t) = 1 + Len(t)
           /\ (<<c>> \o t)[1] = c
           /\ \A i \in 1 .. Len(t) : (<<c>> \o t)[1 + i] = t[i]
<1> DEFINE h == <<c>>
<1>1. h \in Seq(S) /\ Len(h) = 1 /\ h[1] = c /\ 1 \in 1 .. Len(h) OBVIOUS
<1> HIDE DEF h
<1>2. /\ h \o t \in Seq(S) /\ Len(h \o t) = Len(h) + Len(t) /\ (h \o t)[1] = h[1]
      /\ \A i \in 1 .. Len(t) : (h \o t)[Len(h) + i] = t[i]
  BY <1>1, ConcatParts
<1>3. QED BY <1>1, <1>2 DEF h

(* A string is read as it was written, whatever characters it has and      *)
(* wherever in a text it stands, and the reader goes on behind it          *)
(* (json.cpp:83-174, 387-430).  "end" is the zero behind the text: one in  *)
(* a string is a control character to the writer.                          *)
THEOREM StringsAreReadBack ==
    ASSUME NEW C, "end" \notin C, NEW chars \in Seq(C),
           NEW T, NEW text \in Seq(T), NEW pos \in Nat \ {0},
           Written(text, pos, EscapeString(chars), Len(EscapeString(chars)))
    PROVE  ParseString(text, pos) = Got(chars, pos + Len(EscapeString(chars)))
<1> DEFINE n == Len(chars)
           e == EscapeString(chars)
<1>1. PICK ends : Layout(ends, chars, e) BY LayoutExists
<1>2. e \in Seq(Tokens(C)) /\ n \in Nat BY LayoutExists
<1>3. PICK from :
        /\ \A q \in 1 .. Len(text) + 1 : from[q] = ReadFrom(text, q, from)
        /\ \A start : StringFrom(text, start) = from[start]
  BY StringFromIs
<1>4. Written(text, pos, e, Len(e)) OBVIOUS
<1> HIDE DEF e
<1>5. /\ ends \in [0 .. n -> Nat] /\ ends[0] = 1 /\ Len(e) = ends[n] + 1
      /\ e[1] = "quote" /\ e[Len(e)] = "quote"
      /\ \A k \in 1 .. n : ends[k] = ends[k - 1] + Len(Escape(chars[k]))
  BY <1>1 DEF Layout
<1>6. ASSUME NEW k \in 1 .. n
      PROVE  chars[k] \in C /\ Len(Escape(chars[k])) \in 1 .. 3
  <2>1. chars[k] \in C OBVIOUS
  <2>2. QED BY <2>1, EscapeType
<1>7. Len(e) \in Nat /\ ends[n] \in Nat
  <2>1. n \in 0 .. n BY <1>2
  <2>2. ends \in [0 .. n -> Nat] BY <1>5
  <2>3. Len(e) \in Nat BY <1>2
  <2> HIDE DEF n
  <2>4. QED BY <2>1, <2>2, <2>3
<1>8. pos + Len(e) - 1 \in 1 .. Len(text)
  BY <1>2, <1>4, <1>5, <1>7, WrittenInside
<1> DEFINE Behind(k) == [i \in 1 .. n - k |-> chars[k + i]]
           Right(k) == from[pos + ends[k]] = Got(Behind(k), pos + Len(e))
           Good(m) == m <= n => ends[n - m] <= ends[n] /\ Right(n - m)
           N == {m \in Nat : Good(m)}
<1> HIDE DEF n
<1>9. 0 \in N
  <2>1. Behind(n) = <<>> BY <1>2
  <2>2. At(text, pos + ends[n]) = "quote"
    <3> DEFINE len == Len(e)
               z == ends[n]
    <3>1. z \in Nat /\ len = z + 1 /\ pos \in Nat BY <1>5, <1>7
    <3> HIDE DEF len, z
    <3>2. len \in 1 .. len /\ pos + len - 1 = pos + z BY <3>1
    <3>3. QED BY <1>4, <1>5, <3>2 DEF Written, len, z
  <2>3. pos + ends[n] \in 1 .. Len(text) + 1 BY <1>5, <1>7, <1>8
  <2>4. from[pos + ends[n]] = Got(<<>>, pos + ends[n] + 1)
    <3>1. from[pos + ends[n]] = ReadFrom(text, pos + ends[n], from)
      BY <1>3, <2>3
    <3> DEFINE q == pos + ends[n]
    <3> HIDE DEF q
    <3>2. ReadFrom(text, q, from) = Got(<<>>, q + 1)
      <4>1. At(text, q) = "quote" BY <2>2 DEF q
      <4>2. QED BY <4>1, TurnEnds
    <3>3. QED BY <3>1, <3>2 DEF q
  <2>5. pos + ends[n] + 1 = pos + Len(e) BY <1>5, <1>7
  <2>6. Right(n)
    <3> HIDE DEF Behind
    <3> QED BY <2>1, <2>4, <2>5
  <2>7. n - 0 = n BY <1>2
  <2> HIDE DEF Right
  <2>8. QED BY <1>7, <2>6, <2>7
<1>10. ASSUME NEW m \in N PROVE m + 1 \in N
  <2> SUFFICES ASSUME m + 1 <= n
               PROVE  ends[n - (m + 1)] <= ends[n] /\ Right(n - (m + 1))
    BY DEF N
  <2> DEFINE k == n - m
  <2>1. k \in 1 .. n /\ n - (m + 1) = k - 1 /\ k - 1 \in 0 .. n BY <1>2
  <2>2. ends[k] <= ends[n] /\ Right(k) BY <1>2
  <2> HIDE DEF k, N, Good
  <2> DEFINE c == chars[k]
             len == Len(Escape(c))
             p == pos + ends[k - 1]
  <2>3. len \in 1 .. 3 /\ c \in C /\ c # "end" BY <1>6, <2>1
  <2>4. ends[k - 1] \in Nat /\ ends[k] \in Nat /\ ends[k] = ends[k - 1] + len
    BY <1>5, <2>1, SMTT(30)
  <2>5. p \in Nat /\ p \in 1 .. Len(text) + 1 /\ p + len = pos + ends[k]
    <3> DEFINE a == ends[k - 1]
               z == ends[n]
               size == Len(text)
    <3>1. ends[k] = a + len /\ a \in Nat /\ z \in Nat /\ a + len <= z
      BY <1>7, <2>2, <2>4
    <3>2. pos + z \in 1 .. size /\ size \in Nat
      BY <1>5, <1>7, <1>8
    <3> HIDE DEF len, a, z, size
    <3>3. pos + a \in Nat /\ pos + a \in 1 .. size + 1 /\ pos + a + len = pos + (a + len)
      BY <2>3, <3>1, <3>2
    <3>4. QED BY <3>1, <3>3 DEF a, size
  <2>6. Stands(text, p, c, len)
    <3>1. ends[k - 1] + len <= Len(e)
      <4> HIDE DEF len
      <4> QED BY <1>5, <1>7, <2>2, <2>3, <2>4, SMTT(30)
    <3>2. \A i \in 1 .. len : e[ends[k - 1] + i] = Escape(c)[i]
      BY <1>1, <2>1 DEF Layout, n
    <3> HIDE DEF len, c
    <3>3. len \in Nat /\ pos \in Nat BY <2>3
    <3>4. QED BY <1>4, <1>7, <2>4, <3>1, <3>2, <3>3, LayoutStands
  <2>7. ReadFrom(text, p, from) = Prefixed(<<c>>, from, p + len)
    <3> HIDE DEF p, c
    <3> QED BY <2>3, <2>5, <2>6, TurnReads
  <2>8. from[p] = Got(<<c>> \o Behind(k), pos + Len(e))
    <3> HIDE DEF Behind, len, p, c
    <3>1. from[p] = Prefixed(<<c>>, from, pos + ends[k]) BY <1>3, <2>5, <2>7
    <3>2. from[pos + ends[k]] = Got(Behind(k), pos + Len(e)) BY <2>2
    <3>3. QED BY <3>1, <3>2 DEF Prefixed, Got
  <2>9. <<c>> \o Behind(k) = Behind(k - 1)
    <3>1. Behind(k) \in Seq(C) /\ Len(Behind(k)) = n - k /\ n - k \in Nat
      BY <1>2, <1>6, <2>1
    <3>2. Behind(k - 1) \in Seq(C) /\ Len(Behind(k - 1)) = n - k + 1
      BY <1>2, <1>6, <2>1
    <3>3. \A i \in 1 .. n - k : Behind(k)[i] = chars[k + i] OBVIOUS
    <3>4. \A i \in 1 .. n - k + 1 : Behind(k - 1)[i] = chars[k - 1 + i]
      BY <1>2, <2>1
    <3> HIDE DEF Behind
    <3> DEFINE s == <<c>> \o Behind(k)
    <3>5. /\ s \in Seq(C) /\ Len(s) = n - k + 1 /\ s[1] = c
          /\ \A i \in 1 .. n - k : s[1 + i] = chars[k + i]
      <4>1. c \in C BY <2>3
      <4> HIDE DEF c
      <4>2. /\ s \in Seq(C) /\ Len(s) = 1 + Len(Behind(k)) /\ s[1] = c
            /\ \A i \in 1 .. Len(Behind(k)) : s[1 + i] = Behind(k)[i]
        BY <3>1, <4>1, ConsParts
      <4> HIDE DEF s
      <4>3. QED BY <3>1, <3>3, <4>2
    <3> HIDE DEF s
    <3>6. ASSUME NEW i \in 1 .. n - k + 1 PROVE s[i] = Behind(k - 1)[i]
      <4>1. CASE i = 1 BY <2>1, <3>1, <3>4, <3>5, <4>1
      <4>2. CASE i # 1
        <5> DEFINE j == i - 1
        <5>1. j \in 1 .. n - k /\ 1 + j = i /\ k + j = k - 1 + i BY <2>1, <3>1, <4>2
        <5>2. QED BY <3>4, <3>5, <5>1
      <4>3. QED BY <4>1, <4>2
    <3>7. s = Behind(k - 1) BY <3>1, <3>2, <3>5, <3>6
    <3>8. QED BY <3>7 DEF s
  <2>10. Right(k - 1)
    <3> HIDE DEF Behind, c
    <3> QED BY <2>8, <2>9
  <2>11. ends[k - 1] <= ends[n]
    <3> HIDE DEF len
    <3> QED BY <1>7, <2>2, <2>3, <2>4, SMTT(30)
  <2> HIDE DEF Right
  <2>12. QED BY <2>1, <2>10, <2>11
<1> HIDE DEF Good
<1>11. N = Nat BY <1>9, <1>10, NatSetInduction
<1>12. Good(n) BY <1>2, <1>11
<1>13. Right(0)
  <2>1. n - n = 0 /\ n <= n BY <1>2
  <2> HIDE DEF Right
  <2>2. QED BY <1>12, <2>1 DEF Good
<1>14. Behind(0) = chars BY <1>2 DEF n
<1>15. At(text, pos) = "quote"
  <2>1. 1 \in 1 .. Len(e) /\ pos + 1 - 1 = pos BY <1>5, <1>7
  <2>2. QED BY <1>4, <1>5, <2>1 DEF Written
<1> HIDE DEF Behind
<1>16. StringFrom(text, pos + 1) = Got(chars, pos + Len(e))
  BY <1>3, <1>5, <1>13, <1>14
<1>17. QED BY <1>15, <1>16 DEF ParseString, e

\* What the places a layout gives have in common.
LEMMA LayoutPlaces ==
    ASSUME NEW C, NEW chars \in Seq(C), NEW e \in Seq(Tokens(C)),
           NEW ends, Layout(ends, chars, e)
    PROVE  /\ ends[0] = 1 /\ e[1] = "quote" /\ Len(e) = ends[Len(chars)] + 1
           /\ \A k \in 0 .. Len(chars) : ends[k] \in Nat
           /\ \A k \in 1 .. Len(chars) :
                 /\ chars[k] \in C /\ Len(Escape(chars[k])) \in 1 .. 3
                 /\ ends[k] = ends[k - 1] + Len(Escape(chars[k]))
                 /\ \A i \in 1 .. Len(Escape(chars[k])) :
                       e[ends[k - 1] + i] = Escape(chars[k])[i]
<1> DEFINE n == Len(chars)
<1>1. /\ ends \in [0 .. n -> Nat] /\ ends[0] = 1 /\ Len(e) = ends[n] + 1
      /\ e[1] = "quote"
      /\ \A k \in 1 .. n : ends[k] = ends[k - 1] + Len(Escape(chars[k]))
      /\ \A k \in 1 .. n : \A i \in 1 .. Len(Escape(chars[k])) :
            e[ends[k - 1] + i] = Escape(chars[k])[i]
  BY DEF Layout
<1>2. \A k \in 1 .. n : chars[k] \in C OBVIOUS
<1>3. \A k \in 1 .. n : Len(Escape(chars[k])) \in 1 .. 3 BY <1>2, EscapeType
<1> HIDE DEF n
<1>4. \A k \in 0 .. n : ends[k] \in Nat BY <1>1
<1>5. QED BY <1>1, <1>2, <1>3, <1>4 DEF n

(* A string whose text ends before its closing quote is refused, wherever  *)
(* it is cut: between two characters, inside an escape, or inside the      *)
(* digits of one (json.cpp:83-174).                                        *)
THEOREM TornStringsAreRefused ==
    ASSUME NEW C, "end" \notin C, NEW chars \in Seq(C),
           NEW T, NEW text \in Seq(T), NEW pos \in Nat \ {0},
           NEW cut \in Nat, cut < Len(EscapeString(chars)),
           Written(text, pos, EscapeString(chars), cut),
           Torn(text, pos + cut)
    PROVE  ParseString(text, pos) = Failed
<1> DEFINE n == Len(chars)
           e == EscapeString(chars)
<1>1. PICK ends : Layout(ends, chars, e) BY LayoutExists
<1>2. e \in Seq(Tokens(C)) /\ n \in Nat BY LayoutExists
<1>3. PICK from :
        /\ \A q \in 1 .. Len(text) + 1 : from[q] = ReadFrom(text, q, from)
        /\ \A start : StringFrom(text, start) = from[start]
  BY StringFromIs
<1>4. Written(text, pos, e, cut) /\ cut < Len(e) OBVIOUS
<1> HIDE DEF e
<1>5. /\ ends[0] = 1 /\ e[1] = "quote" /\ Len(e) = ends[n] + 1
      /\ \A k \in 0 .. n : ends[k] \in Nat
      /\ \A k \in 1 .. n :
            /\ chars[k] \in C /\ Len(Escape(chars[k])) \in 1 .. 3
            /\ ends[k] = ends[k - 1] + Len(Escape(chars[k]))
            /\ \A i \in 1 .. Len(Escape(chars[k])) :
                  e[ends[k - 1] + i] = Escape(chars[k])[i]
  BY <1>1, <1>2, LayoutPlaces
<1> HIDE DEF n
<1>6. Len(e) \in Nat BY <1>2
<1>7. CASE cut = 0
  <2>1. At(text, pos) # "quote" BY <1>7 DEF Torn
  <2>2. QED BY <2>1 DEF ParseString
<1>8. CASE cut # 0
  <2>1. cut \in 1 .. Len(e) BY <1>4, <1>6, <1>8
  <2>2. pos + cut - 1 \in 1 .. Len(text)
    BY <1>2, <1>4, <2>1, WrittenInside
  <2> DEFINE Refused(k) == ends[k] <= cut => from[pos + ends[k]] = Failed
             Good(m) == m <= n => Refused(n - m)
             N == {m \in Nat : Good(m)}
  <2>3. ASSUME NEW k \in 0 .. n, ends[k] <= cut
        PROVE  /\ pos + ends[k] \in Nat
               /\ pos + ends[k] \in 1 .. Len(text) + 1
               /\ from[pos + ends[k]] = ReadFrom(text, pos + ends[k], from)
    <3>1. ends[k] \in Nat BY <1>5
    <3>2. pos + ends[k] \in Nat /\ pos + ends[k] \in 1 .. Len(text) + 1
      <4> DEFINE a == ends[k]
                 size == Len(text)
      <4>1. a \in Nat /\ a <= cut /\ size \in Nat /\ pos + cut - 1 \in 1 .. size
        BY <2>2, <2>3, <3>1
      <4> HIDE DEF a, size
      <4>2. pos + a \in Nat /\ pos + a \in 1 .. size + 1 BY <4>1
      <4>3. QED BY <4>2 DEF a, size
    <3>3. QED BY <1>3, <3>2
  <2>4. 0 \in N
    <3> SUFFICES ASSUME ends[n] <= cut PROVE from[pos + ends[n]] = Failed
      <4>1. n - 0 = n BY <1>2
      <4>2. QED BY <4>1
    <3>1. n \in 0 .. n /\ ends[n] = cut
      <4>1. n \in 0 .. n BY <1>2
      <4>2. ends[n] \in Nat BY <1>5, <4>1
      <4>3. QED BY <1>4, <1>5, <4>1, <4>2
    <3> DEFINE q == pos + ends[n]
    <3>2. Torn(text, q) /\ q \in 1 .. Len(text) + 1 BY <2>3, <3>1
    <3> HIDE DEF q
    <3>3. from[q] = Failed BY <1>3, <3>2, TearFails
    <3>4. QED BY <3>3 DEF q
  <2>5. ASSUME NEW m \in N PROVE m + 1 \in N
    <3> SUFFICES ASSUME m + 1 <= n, ends[n - (m + 1)] <= cut
                 PROVE  from[pos + ends[n - (m + 1)]] = Failed
      OBVIOUS
    <3> DEFINE k == n - m
    <3>1. k \in 1 .. n /\ n - (m + 1) = k - 1 /\ k - 1 \in 0 .. n /\ k \in 0 .. n
      BY <1>2
    <3>2. Refused(k) BY <1>2
    <3> HIDE DEF k, N, Good
    <3>3. ends[k - 1] <= cut BY <3>1
    <3> DEFINE c == chars[k]
               len == Len(Escape(c))
               a == ends[k - 1]
               p == pos + a
    <3>4. /\ c \in C /\ c # "end" /\ len \in 1 .. 3 /\ a \in Nat
          /\ ends[k] = a + len
          /\ \A i \in 1 .. len : e[a + i] = Escape(c)[i]
      BY <1>5, <3>1
    <3>5. p \in Nat /\ from[p] = ReadFrom(text, p, from) BY <2>3, <3>1, <3>3
    <3>6. ReadFrom(text, p, from) = Failed
      <4>1. CASE ends[k] <= cut
        <5>1. from[pos + ends[k]] = Failed BY <3>2, <4>1
        <5>2. pos + ends[k] = p + len
          <6> HIDE DEF len
          <6> QED BY <3>4
        <5>3. Stands(text, p, c, len)
          <6> HIDE DEF len, c, a
          <6>1. a + len <= cut /\ len \in Nat BY <3>4, <4>1
          <6>2. QED BY <1>4, <3>4, <6>1, LayoutStands DEF len
        <5>4. from[p + len] = Failed BY <5>1, <5>2
        <5>5. p \in Nat /\ c # "end" /\ len = Len(Escape(c)) BY <3>4, <3>5
        <5> HIDE DEF len, p, c
        <5>6. QED BY <5>3, <5>4, <5>5, FailureIsPassedOn
      <4>2. CASE ~ (ends[k] <= cut)
        <5> DEFINE left == cut - a
        <5>1. /\ left \in Nat /\ left < len /\ a + left <= cut /\ len \in Nat
              /\ pos + cut = p + left
          <6>1. a <= cut BY <3>3
          <6> HIDE DEF len
          <6>2. cut < a + len BY <3>4, <4>2
          <6> HIDE DEF a
          <6>3. QED BY <3>4, <6>1, <6>2
        <5>2. Stands(text, p, c, left)
          <6> HIDE DEF len, c, a, left
          <6>1. ASSUME NEW i \in 1 .. left PROVE e[a + i] = Escape(c)[i]
            <7>1. i \in 1 .. len BY <5>1
            <7>2. QED BY <3>4, <7>1
          <6>2. QED BY <1>4, <3>4, <5>1, <6>1, LayoutStands
        <5>3. Torn(text, p + left) BY <5>1
        <5>4. CASE left = 0
          <6>1. Torn(text, p) /\ p \in 1 .. Len(text) + 1
            <7>1. p + 0 = p BY <3>5
            <7>2. QED BY <2>3, <3>1, <3>3, <5>3, <5>4, <7>1
          <6> HIDE DEF p
          <6>2. from[p] = Failed BY <1>3, <6>1, TearFails
          <6>3. QED BY <3>5, <6>2
        <5> HIDE DEF p, c, left
        <5>5. CASE left # 0 BY <3>5, <5>1, <5>2, <5>3, <5>5, TurnFails DEF len
        <5>6. QED BY <5>4, <5>5
      <4>3. QED BY <4>1, <4>2
    <3>7. QED BY <3>1, <3>5, <3>6
  <2> HIDE DEF Good
  <2>6. N = Nat BY <2>4, <2>5, NatSetInduction
  <2>7. Refused(0)
    <3>1. n - n = 0 /\ n <= n BY <1>2
    <3> HIDE DEF Refused
    <3>2. QED BY <1>2, <2>6, <3>1 DEF Good
  <2>8. from[pos + 1] = Failed BY <1>5, <1>8, <2>7
  <2>9. QED BY <1>3, <2>8 DEF ParseString
<1>9. QED BY <1>7, <1>8

-----------------------------------------------------------------------------
(* Documents: where the parts of what is written stand.                    *)

\* A text stands at a place of another.
Spelt(text, pos, s) == Written(text, pos, s, Len(s))

\* Parts of a text stand one behind the other.
LEMMA SpeltConcat ==
    ASSUME NEW S, NEW s \in Seq(S), NEW t \in Seq(S), NEW text, NEW pos \in Nat,
           Spelt(text, pos, s \o t)
    PROVE  Spelt(text, pos, s) /\ Spelt(text, pos + Len(s), t)
<1> DEFINE st == s \o t
           a == Len(s)
           b == Len(t)
<1>1. /\ Len(st) = a + b /\ a \in Nat /\ b \in Nat
      /\ \A i \in 1 .. a : st[i] = s[i]
      /\ \A i \in 1 .. b : st[a + i] = t[i]
  BY ConcatParts
<1>2. \A k \in 1 .. Len(st) : At(text, pos + k - 1) = st[k] BY DEF Spelt, Written
<1> HIDE DEF st, a, b
<1>3. ASSUME NEW i \in 1 .. a PROVE At(text, pos + i - 1) = s[i]
  <2>1. i \in 1 .. Len(st) /\ st[i] = s[i] BY <1>1
  <2>2. QED BY <1>2, <2>1
<1>4. ASSUME NEW i \in 1 .. b PROVE At(text, pos + a + i - 1) = t[i]
  <2> DEFINE k == a + i
  <2>1. k \in 1 .. Len(st) /\ pos + a + i - 1 = pos + k - 1 BY <1>1
  <2>2. st[k] = t[i] BY <1>1
  <2> HIDE DEF k
  <2>3. QED BY <1>2, <2>1, <2>2
<1>5. QED BY <1>3, <1>4 DEF Spelt, Written, a, b

LEMMA SpeltFirst ==
    ASSUME NEW text, NEW pos \in Nat, NEW s, Len(s) \in Nat \ {0}, Spelt(text, pos, s)
    PROVE  At(text, pos) = s[1]
<1>1. 1 \in 1 .. Len(s) /\ pos + 1 - 1 = pos OBVIOUS
<1>2. QED BY <1>1 DEF Spelt, Written

\* Where the parts of a flattened sequence end.
PartsLayout(ends, parts, flat) ==
    /\ ends \in [0 .. Len(parts) -> Nat]
    /\ ends[0] = 0 /\ Len(flat) = ends[Len(parts)]
    /\ \A k \in 1 .. Len(parts) :
          /\ ends[k] = ends[k - 1] + Len(parts[k])
          /\ \A i \in 1 .. Len(parts[k]) : flat[ends[k - 1] + i] = parts[k][i]

\* Where the parts of a concatenation begin and end.
LEMMA FlattenLayout ==
    ASSUME NEW S, NEW parts \in Seq(Seq(S))
    PROVE  /\ FlattenSeq(parts) \in Seq(S)
           /\ \E ends : PartsLayout(ends, parts, FlattenSeq(parts))
<1> DEFINE n == Len(parts)
           P(w, k) == w[k] = IF k = 1 THEN parts[k] ELSE w[k - 1] \o parts[k]
           Is(g) == g = [i \in 1 .. n |-> IF i = 1 THEN parts[i] ELSE g[i - 1] \o parts[i]]
           flatten == CHOOSE g : Is(g)
           Done(m) == m <= n => \E w \in [1 .. m -> Seq(S)] : \A k \in 1 .. m : P(w, k)
           N == {m \in Nat : Done(m)}
<1>0. n \in Nat /\ \A k \in 1 .. n : parts[k] \in Seq(S) /\ Len(parts[k]) \in Nat
  OBVIOUS
<1>1. FlattenSeq(parts) = IF n = 0 THEN parts ELSE flatten[n] BY DEF FlattenSeq
<1> HIDE DEF n, flatten
<1>2. 0 \in N
  <2> DEFINE w == [k \in 1 .. 0 |-> <<>>]
  <2>1. w \in [1 .. 0 -> Seq(S)] /\ \A k \in 1 .. 0 : P(w, k)
    <3> HIDE DEF P
    <3>1. QED OBVIOUS
  <2>2. Done(0)
    <3> HIDE DEF P, w
    <3>1. QED BY <2>1
  <2> HIDE DEF Done
  <2>3. QED BY <2>2
<1>3. ASSUME NEW m \in N PROVE m + 1 \in N
  <2> SUFFICES ASSUME m + 1 <= n
               PROVE  \E w \in [1 .. m + 1 -> Seq(S)] : \A k \in 1 .. m + 1 : P(w, k)
    <3> HIDE DEF P
    <3>1. QED OBVIOUS
  <2>1. PICK v \in [1 .. m -> Seq(S)] : \A k \in 1 .. m : P(v, k) BY <1>0
  <2> DEFINE last == IF m = 0 THEN parts[1] ELSE v[m] \o parts[m + 1]
             w == [k \in 1 .. m + 1 |-> IF k = m + 1 THEN last ELSE v[k]]
  <2>2. last \in Seq(S)
    <3>1. parts[m + 1] \in Seq(S) BY <1>0
    <3>2. CASE m = 0 BY <3>1, <3>2
    <3>3. CASE m # 0
      <4>1. v[m] \in Seq(S) BY <2>1, <3>3
      <4>2. QED BY <3>1, <3>3, <4>1
    <3>4. QED BY <3>2, <3>3
  <2> HIDE DEF last
  <2>3. w \in [1 .. m + 1 -> Seq(S)] BY <2>2
  <2>4. ASSUME NEW k \in 1 .. m + 1 PROVE P(w, k)
    <3>1. CASE k = m + 1
      <4>1. w[k] = last /\ (m # 0 => w[k - 1] = v[m]) BY <3>1
      <4>2. QED BY <3>1, <4>1 DEF last
    <3>2. CASE k # m + 1
      <4>1. k \in 1 .. m BY <3>2
      <4>2. w[k] = v[k] /\ (k # 1 => w[k - 1] = v[k - 1]) BY <4>1
      <4>3. P(v, k) BY <2>1, <4>1
      <4>4. QED BY <4>2, <4>3
    <3>3. QED BY <3>1, <3>2
  <2>5. QED BY <2>3, <2>4
<1> HIDE DEF Done
<1>4. N = Nat BY <1>2, <1>3, NatSetInduction
<1>5. PICK v \in [1 .. n -> Seq(S)] : \A k \in 1 .. n : P(v, k)
  <2>1. Done(n) BY <1>0, <1>4
  <2>2. QED BY <1>0, <2>1 DEF Done
<1>6. Is(v)
  <2>1. v = [i \in 1 .. n |-> v[i]] BY <1>5
  <2>2. QED BY <1>5, <2>1
<1>7. Is(flatten) BY <1>6 DEF flatten
<1>8. \A k \in 1 .. n : P(flatten, k) BY <1>7
<1> HIDE DEF Is
\* The lengths, and what is flattened of a beginning.
<1> DEFINE all(k) == IF k = 0 THEN <<>> ELSE flatten[k]
           Typed(k) == k <= n => all(k) \in Seq(S)
           M == {k \in Nat : Typed(k)}
<1>9. 0 \in M OBVIOUS
<1>10. ASSUME NEW k \in 1 .. n PROVE all(k) = all(k - 1) \o parts[k]
  <2>1. parts[k] \in Seq(S) BY <1>0
  <2>2. CASE k = 1
    <3>1. all(k) = parts[k] /\ all(k - 1) = <<>> BY <1>8, <2>2
    <3>2. <<>> \o parts[k] = parts[k] BY <2>1
    <3>3. QED BY <3>1, <3>2
  <2>3. CASE k # 1
    <3>1. flatten[k] = flatten[k - 1] \o parts[k] BY <1>8, <2>3
    <3>2. k # 0 /\ k - 1 # 0 BY <2>3
    <3>3. QED BY <3>1, <3>2
  <2>4. QED BY <2>2, <2>3
<1> HIDE DEF all
<1>11. ASSUME NEW k \in M PROVE k + 1 \in M
  <2>1. ASSUME k + 1 <= n PROVE all(k + 1) \in Seq(S)
    <3>1. k + 1 \in 1 .. n /\ (k + 1) - 1 = k /\ k <= n BY <1>0, <2>1
    <3> DEFINE p == all(k)
               x == parts[k + 1]
    <3>2. all(k + 1) = p \o x BY <1>10, <3>1
    <3>3. p \in Seq(S) /\ x \in Seq(S) BY <1>0, <3>1
    <3> HIDE DEF p, x
    <3>4. p \o x \in Seq(S) BY <3>3
    <3>5. QED BY <3>2, <3>4
  <2>2. QED BY <2>1
<1>12. M = Nat
  <2> HIDE DEF Typed
  <2>1. QED BY <1>9, <1>11, NatSetInduction
<1>13. \A k \in 0 .. n : all(k) \in Seq(S) BY <1>0, <1>12, SMTT(30)
<1> HIDE DEF M, Typed
<1>14. all(0) = <<>> BY DEF all
<1>15. FlattenSeq(parts) = all(n)
  <2>1. n = 0 => parts = <<>> BY DEF n
  <2>2. QED BY <1>1, <2>1 DEF all
\* all(k) begins all(n).
<1>16. ASSUME NEW k \in 0 .. n
       PROVE  /\ Len(all(k)) <= Len(all(n))
              /\ \A i \in 1 .. Len(all(k)) : all(n)[i] = all(k)[i]
  <2> DEFINE Begins(m) ==
                 k + m <= n => /\ Len(all(k)) <= Len(all(k + m))
                               /\ \A i \in 1 .. Len(all(k)) : all(k + m)[i] = all(k)[i]
             B == {m \in Nat : Begins(m)}
  <2>1. 0 \in B
    <3>1. k + 0 = k /\ all(k) \in Seq(S) BY <1>13
    <3>2. QED BY <3>1
  <2>2. ASSUME NEW m \in B PROVE m + 1 \in B
    <3> SUFFICES ASSUME k + (m + 1) <= n PROVE Begins(m + 1) OBVIOUS
    <3>1. /\ k + (m + 1) \in 1 .. n /\ k + (m + 1) - 1 = k + m
          /\ k + m \in 0 .. n
      BY <1>0
    <3>2. all(k + (m + 1)) = all(k + m) \o parts[k + (m + 1)]
      <4> DEFINE j == k + (m + 1)
      <4>1. j \in 1 .. n /\ j - 1 = k + m BY <3>1
      <4> HIDE DEF j
      <4>2. all(j) = all(j - 1) \o parts[j] BY <1>10, <4>1
      <4>3. QED BY <4>1, <4>2 DEF j
    <3> DEFINE x == parts[k + (m + 1)]
               p == all(k + m)
               q == all(k)
    <3>3. x \in Seq(S) /\ p \in Seq(S) /\ q \in Seq(S) BY <1>0, <1>13, <3>1
    <3>4. Len(q) <= Len(p) /\ \A i \in 1 .. Len(q) : p[i] = q[i] BY <3>1
    <3> HIDE DEF x, p, q, B, Begins
    <3>5. /\ Len(p \o x) = Len(p) + Len(x)
          /\ \A i \in 1 .. Len(p) : (p \o x)[i] = p[i]
      BY <3>3, ConcatParts
    <3>6. Len(x) \in Nat /\ Len(p) \in Nat /\ Len(q) \in Nat BY <3>3
    <3> DEFINE px == p \o x
    <3>7. Len(q) <= Len(px) /\ \A i \in 1 .. Len(q) : px[i] = q[i]
      <4> HIDE DEF px
      <4> QED BY <3>4, <3>5, <3>6 DEF px
    <3>8. QED BY <3>2, <3>7 DEF Begins, p, q, x
  <2> HIDE DEF Begins
  <2>3. B = Nat BY <2>1, <2>2, NatSetInduction
  <2>4. n - k \in Nat /\ k + (n - k) = n /\ n <= n BY <1>0
  <2>5. QED BY <2>3, <2>4 DEF Begins
<1> DEFINE ends == [k \in 0 .. n |-> Len(all(k))]
<1>17. PartsLayout(ends, parts, FlattenSeq(parts))
  <2>1. ends \in [0 .. n -> Nat] BY <1>13
  <2>2. ends[0] = 0 BY <1>0, <1>14
  <2>3. Len(FlattenSeq(parts)) = ends[n] BY <1>0, <1>15
  <2>4. ASSUME NEW k \in 1 .. n
        PROVE  /\ ends[k] = ends[k - 1] + Len(parts[k])
               /\ \A i \in 1 .. Len(parts[k]) :
                     FlattenSeq(parts)[ends[k - 1] + i] = parts[k][i]
    <3>1. k - 1 \in 0 .. n /\ k \in 0 .. n BY <1>0
    <3>2. ends[k] = Len(all(k)) /\ ends[k - 1] = Len(all(k - 1)) BY <3>1
    <3> DEFINE p == all(k - 1)
               x == parts[k]
    <3>3. p \in Seq(S) /\ x \in Seq(S) BY <1>0, <1>13, <3>1
    <3>4. all(k) = p \o x BY <1>10
    <3> HIDE DEF p, x, ends
    <3>5. /\ Len(all(k)) = Len(p) + Len(x)
          /\ \A i \in 1 .. Len(x) : all(k)[Len(p) + i] = x[i]
      BY <3>3, <3>4, ConcatParts
    <3>6. \A i \in 1 .. Len(all(k)) : FlattenSeq(parts)[i] = all(k)[i]
      BY <1>15, <1>16, <3>1
    <3>7. Len(p) \in Nat /\ Len(x) \in Nat BY <3>3
    <3>8. \A i \in 1 .. Len(x) : FlattenSeq(parts)[Len(p) + i] = x[i]
      BY <3>5, <3>6, <3>7
    <3>9. QED BY <3>2, <3>5, <3>8 DEF p, x
  <2> HIDE DEF ends
  <2>5. QED BY <2>1, <2>2, <2>3, <2>4 DEF PartsLayout, n
<1>18. FlattenSeq(parts) \in Seq(S) BY <1>0, <1>13, <1>15
<1>19. QED BY <1>17, <1>18

-----------------------------------------------------------------------------
(* Skipping characters, and numbers.                                       *)

\* Past is the first place with another character.
LEMMA PastIs ==
    ASSUME NEW text, Len(text) \in Nat, NEW chars, NEW pos \in Nat,
           NEW p \in pos .. pos + Len(text), At(text, p) \notin chars,
           \A q \in pos .. p - 1 : At(text, q) \in chars
    PROVE  Past(text, pos, chars) = p
<1> DEFINE Is(x) == At(text, x) \notin chars /\ \A q \in pos .. x - 1 : At(text, q) \in chars
           R == pos .. pos + Len(text)
           c == CHOOSE x \in R : Is(x)
<1>1. p \in R /\ Is(p) OBVIOUS
<1>2. c \in R /\ Is(c) BY <1>1
<1>3. Past(text, pos, chars) = c BY DEF Past
<1> HIDE DEF c
<1>4. ~(p < c)
  <2>1. p < c => p \in pos .. c - 1 BY <1>2
  <2>2. QED BY <1>2, <2>1
<1>5. ~(c < p)
  <2>1. c < p => c \in pos .. p - 1 BY <1>2
  <2>2. QED BY <1>2, <2>1
<1>6. c \in Int /\ p \in Int BY <1>2
<1>7. QED BY <1>3, <1>4, <1>5, <1>6

\* A text ends, so that skipping does.
LEMMA PastStops ==
    ASSUME NEW T, NEW text \in Seq(T), NEW chars, "end" \notin chars,
           NEW pos \in 1 .. Len(text) + 1
    PROVE  /\ Past(text, pos, chars) \in pos .. Len(text) + 1
           /\ At(text, Past(text, pos, chars)) \notin chars
           /\ \A q \in pos .. Past(text, pos, chars) - 1 : At(text, q) \in chars
<1> DEFINE n == Len(text)
           Stop(x) == At(text, x) \notin chars
           Clear(m) == \A q \in pos .. pos + m - 1 : ~Stop(q)
           N == {m \in Nat : Clear(m)}
<1>0. n \in Nat /\ Stop(n + 1) BY DEF At
<1>1. 0 \in N
  <2>1. pos .. pos + 0 - 1 = {} OBVIOUS
  <2>2. QED BY <2>1
<1>2. \E m \in N : m + 1 \notin N
  <2> SUFFICES ASSUME \A m \in N : m + 1 \in N PROVE FALSE OBVIOUS
  <2>1. N = Nat
    <3> HIDE DEF Clear
    <3>1. N \subseteq Nat OBVIOUS
    <3> HIDE DEF N
    <3>2. QED BY <1>1, <3>1, NatSetInduction
  <2> DEFINE m == n + 2 - pos
  <2>2. m \in Nat /\ n + 1 \in pos .. pos + m - 1 BY <1>0
  <2>3. Clear(m) BY <2>1, <2>2
  <2> HIDE DEF m, Stop
  <2>4. QED BY <1>0, <2>2, <2>3
<1>3. PICK m \in N : m + 1 \notin N BY <1>2
<1> DEFINE p == pos + m
<1>4. m \in Nat /\ Clear(m) /\ ~Clear(m + 1) BY <1>3
<1>5. Stop(p)
  <2> HIDE DEF Stop
  <2>1. PICK q \in pos .. pos + (m + 1) - 1 : Stop(q) BY <1>4
  <2>2. q \notin pos .. pos + m - 1 BY <1>4, <2>1
  <2>3. q = p BY <1>4, <2>1, <2>2
  <2>4. QED BY <2>1, <2>3
<1>6. p \in pos .. n + 1
  <2> HIDE DEF Stop
  <2>1. ~(n + 1 < p)
    <3>1. n + 1 < p => n + 1 \in pos .. pos + m - 1 BY <1>0, <1>4
    <3>2. QED BY <1>0, <1>4, <3>1
  <2>2. QED BY <1>0, <1>4, <2>1
<1>7. \A q \in pos .. p - 1 : At(text, q) \in chars BY <1>4
<1>8. p \in pos .. pos + Len(text) /\ pos \in Nat /\ Len(text) \in Nat BY <1>0, <1>6
<1> HIDE DEF p
<1>9. Past(text, pos, chars) = p BY <1>5, <1>7, <1>8, PastIs
<1>10. QED BY <1>5, <1>6, <1>7, <1>9

\* Nothing to skip.
LEMMA PastHere ==
    ASSUME NEW text, Len(text) \in Nat, NEW chars, NEW pos \in Nat, At(text, pos) \notin chars
    PROVE  Past(text, pos, chars) = pos
<1>1. pos \in pos .. pos + Len(text) /\ \A q \in pos .. pos - 1 : At(text, q) \in chars
  OBVIOUS
<1>2. QED BY <1>1, PastIs

\* Skipping may begin further on.
LEMMA PastAhead ==
    ASSUME NEW T, NEW text \in Seq(T), NEW chars, "end" \notin chars,
           NEW pos \in Nat \ {0}, NEW p \in Nat, pos <= p, p <= Len(text) + 1,
           \A q \in pos .. p - 1 : At(text, q) \in chars
    PROVE  Past(text, pos, chars) = Past(text, p, chars)
<1> DEFINE r == Past(text, p, chars)
<1>1. p \in 1 .. Len(text) + 1 /\ Len(text) \in Nat OBVIOUS
<1>2. /\ r \in p .. Len(text) + 1 /\ At(text, r) \notin chars
      /\ \A q \in p .. r - 1 : At(text, q) \in chars
  BY <1>1, PastStops
<1> HIDE DEF r
<1>3. \A q \in pos .. r - 1 : q \in pos .. p - 1 \/ q \in p .. r - 1 BY <1>1, <1>2
<1>4. \A q \in pos .. r - 1 : At(text, q) \in chars BY <1>2, <1>3
<1>5. r \in pos .. pos + Len(text) BY <1>1, <1>2
<1>6. Past(text, pos, chars) = r BY <1>1, <1>2, <1>4, <1>5, PastIs
<1>7. QED BY <1>6 DEF r

\* Where the parts of a number end, by the place where each begins.
NumberBy(text, pos, signed, whole, point, fraction, exponent, sign, end) ==
    /\ signed = IF At(text, pos) = "-" THEN pos + 1 ELSE pos
    /\ whole = Past(text, signed, Digits)
    /\ point = IF At(text, whole) = "." THEN whole + 1 ELSE whole
    /\ fraction = IF point = whole THEN whole ELSE Past(text, point, Digits)
    /\ exponent = IF At(text, fraction) = "e" THEN fraction + 1 ELSE fraction
    /\ sign = IF exponent # fraction /\ At(text, exponent) \in {"+", "-"}
              THEN exponent + 1 ELSE exponent
    /\ end = IF exponent = fraction THEN fraction ELSE Past(text, sign, Digits)

\* What ParseNumber makes of its parts (json.cpp:340-381).
LEMMA ParseNumberIs ==
    ASSUME NEW T, NEW text \in Seq(T), NEW pos \in 1 .. Len(text) + 1,
           NEW signed, NEW whole, NEW point, NEW fraction, NEW exponent, NEW sign, NEW end,
           NumberBy(text, pos, signed, whole, point, fraction, exponent, sign, end),
           "end" \notin Digits
    PROVE  ParseNumber(text, pos) =
             IF whole = signed /\ fraction = point THEN Failed
             ELSE Got(Number(SubSeq(text, pos, end - 1)), end)
<1> DEFINE high == Len(text) + 1
<1>1. \A q \in 1 .. high : At(text, q) # "end" => q + 1 \in 1 .. high BY AtEnds
<1>2. \A q \in 1 .. high : Past(text, q, Digits) \in q .. high BY PastStops
<1>3. high \in Nat /\ pos \in 1 .. high OBVIOUS
<1> HIDE DEF high
<1>4. signed \in 1 .. high BY <1>1, <1>3 DEF NumberBy
<1>5. whole \in 1 .. high
  <2>1. whole \in signed .. high BY <1>2, <1>4 DEF NumberBy
  <2>2. QED BY <1>3, <1>4, <2>1
<1>6. point \in 1 .. high BY <1>1, <1>5 DEF NumberBy
<1>7. fraction \in 1 .. high
  <2> DEFINE p == Past(text, point, Digits)
  <2>1. p \in point .. high BY <1>2, <1>6
  <2>2. fraction \in {whole, p} BY DEF NumberBy
  <2> HIDE DEF p
  <2>3. QED BY <1>3, <1>5, <1>6, <2>1, <2>2
<1>8. PastOne(text, pos, {"-"}) = signed BY DEF PastOne, NumberBy
<1>9. PastOne(text, whole, {"."}) = point BY DEF PastOne, NumberBy
<1>10. PastMarked(text, whole, ".", {}) = fraction
  <2>1. PastOne(text, whole + 1, {}) = whole + 1 BY DEF PastOne
  <2>2. whole + 1 # whole BY <1>5
  <2>3. QED BY <2>1, <2>2 DEF PastMarked, NumberBy
<1>11. PastMarked(text, fraction, "e", {"+", "-"}) = end
  <2>1. fraction + 1 # fraction BY <1>7
  <2>2. CASE At(text, fraction) = "e"
    <3>1. exponent = fraction + 1 /\ exponent # fraction BY <2>1, <2>2 DEF NumberBy
    <3>2. PastOne(text, fraction + 1, {"+", "-"}) = sign BY <3>1 DEF PastOne, NumberBy
    <3>3. end = Past(text, sign, Digits) BY <3>1 DEF NumberBy
    <3>4. QED BY <2>2, <3>2, <3>3 DEF PastMarked
  <2>3. CASE At(text, fraction) # "e" BY <2>3 DEF PastMarked, NumberBy
  <2>4. QED BY <2>2, <2>3
<1>12. whole = Past(text, PastOne(text, pos, {"-"}), Digits) BY <1>8 DEF NumberBy
<1>13. QED BY <1>8, <1>9, <1>10, <1>11, <1>12 DEF ParseNumber

\* Punctuation, blanks and words are all different.
Punctuation == {Comma, Colon, OpenBracket, CloseBracket, OpenBrace, CloseBrace}

Words == {"end", "torn", "quote", "newline", "true", "false", "null", "-", ".", "e"}

LEMMA PunctuationDiffers ==
    /\ Comma \notin {Colon, OpenBracket, CloseBracket, OpenBrace, CloseBrace}
    /\ Colon \notin {OpenBracket, CloseBracket, OpenBrace, CloseBrace}
    /\ OpenBracket \notin {CloseBracket, OpenBrace, CloseBrace}
    /\ CloseBracket \notin {OpenBrace, CloseBrace}
    /\ OpenBrace # CloseBrace
BY DEF Comma, Colon, OpenBracket, CloseBracket, OpenBrace, CloseBrace

LEMMA PunctuationIsNoWord ==
    /\ Punctuation \cap Words = {} /\ Punctuation \cap Digits = {}
    /\ Punctuation \cap {Blank, Backslash} = {}
    /\ Blank \notin Words /\ Blank \notin Digits /\ Backslash \notin Words
BY DEF Punctuation, Words, Digits, Comma, Colon, OpenBracket, CloseBracket, OpenBrace,
       CloseBrace, Blank, Backslash

LEMMA WordsDiffer ==
    /\ "end" \notin Digits /\ "end" \notin Whitespace /\ "end" \notin NumberChars
    /\ "torn" \notin NumberChars /\ "torn" \notin Whitespace
    /\ "-" \notin Digits /\ "." \notin Digits /\ "e" \notin Digits
    /\ "+" \notin Digits
    /\ Words \cap Digits = {}
<1>1. "end" # Blank /\ "torn" # Blank BY PunctuationIsNoWord DEF Words
<1>2. QED BY <1>1 DEF Digits, Whitespace, NumberChars, Words

LEMMA SameSequence ==
    ASSUME NEW S, NEW R, NEW s \in Seq(S), NEW t \in Seq(R), Len(s) = Len(t),
           \A i \in 1 .. Len(s) : s[i] = t[i]
    PROVE  s = t
OBVIOUS

\* What stands in a text is cut out of it again.
LEMMA CutOut ==
    ASSUME NEW T, NEW text \in Seq(T), NEW S, "end" \notin S, NEW s \in Seq(S),
           NEW pos \in Nat \ {0}, Spelt(text, pos, s)
    PROVE  SubSeq(text, pos, (pos + Len(s)) - 1) = s
<1> DEFINE n == Len(s)
           cut == SubSeq(text, pos, (pos + n) - 1)
<1>1. n \in Nat /\ Len(text) \in Nat OBVIOUS
<1>2. ASSUME NEW i \in 1 .. n
      PROVE  pos + i - 1 \in 1 .. Len(text) /\ text[pos + i - 1] = s[i]
  <2>1. At(text, pos + i - 1) = s[i] BY DEF Spelt, Written
  <2>2. s[i] # "end" OBVIOUS
  <2>3. pos + i - 1 \in Nat \ {0} BY <1>1
  <2>4. pos + i - 1 \in 1 .. Len(text) BY <2>1, <2>2, <2>3, AtEnds
  <2>5. QED BY <2>1, <2>4 DEF At
<1>3. CASE n = 0
  <2>1. cut = <<>> BY <1>3
  <2>2. QED BY <1>3, <2>1
<1>4. CASE n # 0
  <2>1. n \in 1 .. n BY <1>1, <1>4
  <2>2. pos + n - 1 \in 1 .. Len(text) BY <1>2, <2>1
  <2> HIDE DEF n
  <2>3. cut \in Seq(T) /\ Len(cut) = n /\ \A i \in 1 .. n : cut[i] = text[pos + i - 1]
    BY <1>1, <2>2
  <2> HIDE DEF cut
  <2>4. \A i \in 1 .. n : cut[i] = s[i] BY <1>2, <2>3
  <2>5. cut = s BY <2>3, <2>4, SameSequence DEF n
  <2>6. QED BY <2>5 DEF cut, n
<1>5. QED BY <1>3, <1>4

\* How far each stretch of a numeral reaches.
Numeral(token, sign, whole, fraction) ==
    /\ sign \in 0 .. 1 /\ whole \in 1 .. Len(token) /\ fraction \in whole .. Len(token)
    /\ sign + 1 <= whole
    /\ sign = 1 => token[1] = "-"
    /\ \A i \in sign + 1 .. whole : token[i] \in Digits
    /\ fraction # whole =>
          /\ whole + 2 <= fraction /\ token[whole + 1] = "."
          /\ \A i \in whole + 2 .. fraction : token[i] \in Digits
    /\ fraction # Len(token) =>
          /\ fraction + 3 <= Len(token) /\ token[fraction + 1] = "e"
          /\ token[fraction + 2] \in {"+", "-"}
          /\ \A i \in fraction + 3 .. Len(token) : token[i] \in Digits

\* Where the parts of a printed number end.
LEMMA NumeralParts ==
    ASSUME NEW token \in Numbers
    PROVE  \E sign, whole, fraction : Numeral(token, sign, whole, fraction)
<1> DEFINE digits(a, b) == a <= b /\ \A i \in a .. b : token[i] \in Digits
           n == Len(token)
<1>1. token \in Seq(NumberChars) /\ IsNumeral(token) BY JsonAssumption
<1>2. n \in Nat BY <1>1
<1>3. PICK sign \in 0 .. 1, whole \in 1 .. n : \E f \in whole .. n :
        /\ sign = 1 => token[1] = "-"
        /\ digits(sign + 1, whole)
        /\ f = whole \/ (token[whole + 1] = "." /\ digits(whole + 2, f))
        /\ f = n \/ (/\ f + 2 < n /\ token[f + 1] = "e"
                     /\ token[f + 2] \in {"+", "-"}
                     /\ digits(f + 3, n))
  BY <1>1 DEF IsNumeral
<1>4. PICK fraction \in whole .. n :
        /\ sign = 1 => token[1] = "-"
        /\ digits(sign + 1, whole)
        /\ fraction = whole \/ (token[whole + 1] = "." /\ digits(whole + 2, fraction))
        /\ fraction = n \/ (/\ fraction + 2 < n /\ token[fraction + 1] = "e"
                            /\ token[fraction + 2] \in {"+", "-"}
                            /\ digits(fraction + 3, n))
  BY <1>3
<1> HIDE DEF n
<1>5. fraction # n => fraction + 3 <= n BY <1>2, <1>4
<1>6. Numeral(token, sign, whole, fraction) BY <1>4, <1>5 DEF Numeral, n
<1>7. QED BY <1>6

\* A number is read as far as it was written.
LEMMA NumberIsRead ==
    ASSUME NEW token \in Numbers, NEW T, NEW text \in Seq(T), NEW pos \in Nat \ {0},
           Spelt(text, pos, token),
           At(text, pos + Len(token)) \notin Digits \cup {".", "e"}
    PROVE  /\ At(text, pos) \in Digits \cup {"-"}
           /\ ParseNumber(text, pos) = Got(Number(token), pos + Len(token))
<1> DEFINE n == Len(token)
           size == Len(text)
<1>1. token \in Seq(NumberChars) /\ n \in Nat /\ size \in Nat BY JsonAssumption
<1>2. PICK sign, whole, fraction : Numeral(token, sign, whole, fraction)
  BY NumeralParts
<1>3. /\ sign \in 0 .. 1 /\ whole \in 1 .. n /\ fraction \in whole .. n
      /\ sign + 1 <= whole
      /\ sign = 1 => token[1] = "-"
      /\ \A i \in sign + 1 .. whole : token[i] \in Digits
      /\ fraction # whole =>
            /\ whole + 2 <= fraction /\ token[whole + 1] = "."
            /\ \A i \in whole + 2 .. fraction : token[i] \in Digits
      /\ fraction # n =>
            /\ fraction + 3 <= n /\ token[fraction + 1] = "e"
            /\ token[fraction + 2] \in {"+", "-"}
            /\ \A i \in fraction + 3 .. n : token[i] \in Digits
  BY <1>2 DEF Numeral
<1>4. SubSeq(text, pos, (pos + n) - 1) = token BY <1>1, WordsDiffer, CutOut
<1>5. \A i \in 1 .. n : token[i] # "end" BY <1>1, WordsDiffer
<1> HIDE DEF n, size
\* The text by distance from pos.
<1>6. ASSUME NEW i \in 0 .. n - 1
      PROVE  At(text, pos + i) = token[i + 1] /\ pos + i \in 1 .. size
  <2>1. i + 1 \in 1 .. n /\ pos + (i + 1) - 1 = pos + i BY <1>1
  <2>2. At(text, pos + i) = token[i + 1] BY <2>1 DEF Spelt, Written, n
  <2>3. pos + i \in Nat \ {0} OBVIOUS
  <2>4. QED BY <1>5, <2>1, <2>2, <2>3, AtEnds DEF size
<1>7. pos + n <= size + 1 /\ n # 0
  <2>1. n - 1 \in 0 .. n - 1 BY <1>1, <1>3
  <2>2. pos + (n - 1) \in 1 .. size BY <1>6, <2>1
  <2>3. QED BY <1>1, <1>3, <2>2
<1>8. At(text, pos + n) \notin Digits /\ At(text, pos + n) \notin {".", "e"} BY DEF n
\* A stretch of digits is passed.
<1>9. ASSUME NEW a \in 0 .. n, NEW b \in a .. n, \A i \in a + 1 .. b : token[i] \in Digits,
             At(text, pos + b) \notin Digits
      PROVE  Past(text, pos + a, Digits) = pos + b
  <2>1. ASSUME NEW q \in pos + a .. pos + b - 1 PROVE At(text, q) \in Digits
    <3> DEFINE i == q - pos
    <3>1. i \in 0 .. n - 1 /\ i + 1 \in a + 1 .. b /\ pos + i = q BY <1>1
    <3> HIDE DEF i
    <3>2. QED BY <1>6, <1>9, <3>1
  <2>2. pos + a \in Nat /\ pos + b \in pos + a .. pos + a + size BY <1>1, <1>7
  <2>3. QED BY <1>1, <1>9, <2>1, <2>2, PastIs DEF size
<1>10. At(text, pos) = token[1]
  <2>1. 0 \in 0 .. n - 1 /\ pos + 0 = pos /\ 0 + 1 = 1 BY <1>1, <1>7
  <2>2. QED BY <1>6, <2>1
<1> DEFINE signed == IF At(text, pos) = "-" THEN pos + 1 ELSE pos
<1>11. signed = pos + sign
  <2>1. CASE sign = 1 BY <1>3, <1>10, <2>1
  <2>2. CASE sign = 0
    <3>1. 1 \in sign + 1 .. whole BY <1>3, <2>2
    <3>2. token[1] # "-" BY <1>3, <3>1, WordsDiffer
    <3>3. QED BY <1>10, <2>2, <3>2
  <2>3. QED BY <1>3, <2>1, <2>2
<1> HIDE DEF signed
<1>12. /\ fraction # whole => At(text, pos + whole) = "."
       /\ fraction = whole => At(text, pos + whole) # "."
       /\ At(text, pos + whole) \notin Digits
  <2>1. CASE fraction # whole
    <3>1. whole \in 0 .. n - 1 BY <1>1, <1>3, <2>1
    <3>2. At(text, pos + whole) = "." BY <1>3, <1>6, <2>1, <3>1
    <3>3. QED BY <2>1, <3>2, WordsDiffer
  <2>2. CASE fraction = whole /\ fraction # n
    <3>1. whole \in 0 .. n - 1 BY <1>1, <1>3, <2>2
    <3>2. At(text, pos + whole) = "e" BY <1>3, <1>6, <2>2, <3>1
    <3>3. QED BY <2>2, <3>2, WordsDiffer
  <2>3. CASE fraction = whole /\ fraction = n BY <1>8, <2>3
  <2>4. QED BY <2>1, <2>2, <2>3
<1>13. /\ fraction # n => At(text, pos + fraction) = "e"
       /\ fraction = n => At(text, pos + fraction) # "e"
       /\ At(text, pos + fraction) \notin Digits
  <2>1. CASE fraction # n
    <3>1. fraction \in 0 .. n - 1 BY <1>1, <1>3, <2>1
    <3>2. At(text, pos + fraction) = "e" BY <1>3, <1>6, <2>1, <3>1
    <3>3. QED BY <2>1, <3>2, WordsDiffer
  <2>2. CASE fraction = n BY <1>8, <2>2
  <2>3. QED BY <2>1, <2>2
<1> DEFINE w == Past(text, signed, Digits)
           point == IF At(text, w) = "." THEN w + 1 ELSE w
           f == IF point = w THEN w ELSE Past(text, point, Digits)
           exponent == IF At(text, f) = "e" THEN f + 1 ELSE f
           s == IF exponent # f /\ At(text, exponent) \in {"+", "-"}
                THEN exponent + 1 ELSE exponent
           end == IF exponent = f THEN f ELSE Past(text, s, Digits)
<1>14. w = pos + whole
  <2>1. sign \in 0 .. n /\ whole \in sign .. n BY <1>1, <1>3
  <2>2. QED BY <1>3, <1>9, <1>11, <1>12, <2>1
<1> HIDE DEF w
<1>15. point = IF fraction = whole THEN w ELSE w + 1
  BY <1>12, <1>14
<1>16. w \in Int BY <1>3, <1>14
<1> HIDE DEF point
<1>17. f = pos + fraction
  <2>1. CASE fraction = whole BY <1>14, <1>15, <2>1
  <2>2. CASE fraction # whole
    <3>1. point = pos + (whole + 1) /\ point # w BY <1>3, <1>14, <1>15, <1>16, <2>2
    <3>2. whole + 1 \in 0 .. n /\ fraction \in whole + 1 .. n BY <1>1, <1>3, <2>2
    <3>3. \A i \in whole + 1 + 1 .. fraction : token[i] \in Digits
      <4>1. whole + 1 + 1 = whole + 2 BY <1>3
      <4>2. QED BY <1>3, <2>2, <4>1
    <3>4. Past(text, point, Digits) = pos + fraction BY <1>9, <1>13, <3>1, <3>2, <3>3
    <3>5. QED BY <3>1, <3>4
  <2>3. QED BY <2>1, <2>2
<1> HIDE DEF f
<1>18. f \in Int BY <1>3, <1>17
<1>19. exponent = IF fraction = n THEN f ELSE f + 1 BY <1>13, <1>17
<1> HIDE DEF exponent
<1>20. end = pos + n
  <2>1. CASE fraction = n BY <1>17, <1>19, <2>1
  <2>2. CASE fraction # n
    <3>1. exponent = pos + (fraction + 1) /\ exponent # f
      BY <1>3, <1>17, <1>18, <1>19, <2>2
    <3>2. fraction + 1 \in 0 .. n - 1 /\ fraction + 1 + 1 = fraction + 2
      BY <1>1, <1>3, <2>2
    <3>3. At(text, exponent) \in {"+", "-"}
      <4>1. At(text, pos + (fraction + 1)) = token[fraction + 1 + 1] BY <1>6, <3>2
      <4>2. QED BY <1>3, <2>2, <3>1, <3>2, <4>1
    <3>4. s = pos + (fraction + 2) BY <1>3, <3>1, <3>3
    <3>5. fraction + 2 \in 0 .. n /\ n \in fraction + 2 .. n /\ fraction + 2 + 1 = fraction + 3
      BY <1>1, <1>3, <2>2
    <3>6. \A i \in fraction + 2 + 1 .. n : token[i] \in Digits BY <1>3, <2>2, <3>5
    <3>7. Past(text, s, Digits) = pos + n BY <1>8, <1>9, <3>4, <3>5, <3>6
    <3>8. QED BY <3>1, <3>7
  <2>3. QED BY <2>1, <2>2
<1> HIDE DEF end
<1>21. ~(w = signed /\ f = point)
  <2>1. w # signed BY <1>3, <1>11, <1>14
  <2>2. QED BY <2>1
<1>22. ParseNumber(text, pos) = Got(Number(SubSeq(text, pos, end - 1)), end)
  <2>1. ParseNumber(text, pos) =
          IF w = signed /\ f = point THEN Failed
          ELSE Got(Number(SubSeq(text, pos, end - 1)), end)
    <3>1. pos \in 1 .. Len(text) + 1 BY <1>1, <1>7 DEF size
    <3>2. NumberBy(text, pos, signed, w, point, f, exponent, s, end)
      BY DEF NumberBy, w, signed, f, point, end, exponent
    <3>3. QED BY <3>1, <3>2, WordsDiffer, ParseNumberIs
  <2>2. QED BY <1>21, <2>1
<1>23. ParseNumber(text, pos) = Got(Number(token), pos + n)
  <2> DEFINE cut(x) == SubSeq(text, pos, x - 1)
  <2>1. cut(pos + n) = token BY <1>4
  <2>2. ParseNumber(text, pos) = Got(Number(cut(end)), end) BY <1>22
  <2> HIDE DEF cut
  <2>3. QED BY <1>20, <2>1, <2>2
<1>24. At(text, pos) \in Digits \cup {"-"}
  <2>1. CASE sign = 1 BY <1>3, <1>10, <2>1
  <2>2. CASE sign = 0
    <3>1. 1 \in sign + 1 .. whole BY <1>3, <2>2
    <3>2. QED BY <1>3, <1>10, <3>1
  <2>3. QED BY <1>3, <2>1, <2>2
<1>25. QED BY <1>23, <1>24 DEF n

-----------------------------------------------------------------------------
(* Documents and their texts by depth.                                     *)

\* What is nested n deep, over what is nested less deep.
DocumentsOver(n, values) ==
    IF n = 0 THEN Scalars
    ELSE Scalars \cup {value \in Containers(values) : HasKeysOnce(value)}

\* Documents and texts by depth are functions that exist.
LEMMA DocumentsExist ==
    \E f : f = [n \in Nat |-> DocumentsOver(n, f[n - 1])]
<1> DEFINE Upto(f, m) == \A k \in 0 .. m : f[k] = DocumentsOver(k, f[k - 1])
           Done(m) == \E f : Upto(f, m)
           N == {m \in Nat : Done(m)}
<1>1. 0 \in N
  <2> DEFINE f == [k \in Nat |-> Scalars]
  <2>1. f[0] = Scalars OBVIOUS
  <2> HIDE DEF f
  <2>2. f[0] = DocumentsOver(0, f[0 - 1]) BY <2>1 DEF DocumentsOver
  <2>3. \A k \in 0 .. 0 : k = 0 OBVIOUS
  <2>4. Upto(f, 0) BY <2>2, <2>3
  <2> HIDE DEF Upto
  <2>5. Done(0) BY <2>4
  <2>6. QED BY <2>5
<1>2. ASSUME NEW m \in N PROVE m + 1 \in N
  <2>1. m \in Nat /\ Done(m) OBVIOUS
  <2>2. PICK f : Upto(f, m) BY <2>1
  <2> DEFINE g == [k \in 0 .. m + 1 |-> IF k = m + 1 THEN DocumentsOver(k, f[m]) ELSE f[k]]
  <2>3. \A k \in 0 .. m : g[k] = f[k] BY <2>1
  <2>4. g[m + 1] = DocumentsOver(m + 1, f[m]) BY <2>1
  <2> HIDE DEF g
  <2>5. ASSUME NEW k \in 0 .. m + 1 PROVE g[k] = DocumentsOver(k, g[k - 1])
    <3>1. CASE k = m + 1
      <4>1. m \in 0 .. m /\ (m + 1) - 1 = m BY <2>1
      <4>2. g[m + 1] = DocumentsOver(m + 1, g[(m + 1) - 1]) BY <2>3, <2>4, <4>1
      <4>3. QED BY <3>1, <4>2
    <3>2. CASE k = 0
      <4>1. 0 \in 0 .. m BY <2>1
      <4>2. g[0] = DocumentsOver(0, f[0 - 1]) BY <2>2, <2>3, <4>1
      <4>3. QED BY <3>2, <4>2 DEF DocumentsOver
    <3>3. CASE k # 0 /\ k # m + 1
      <4>1. k \in 0 .. m /\ k - 1 \in 0 .. m BY <2>1, <3>3
      <4>2. QED BY <2>2, <2>3, <4>1
    <3>4. QED BY <3>1, <3>2, <3>3
  <2>6. Upto(g, m + 1) BY <2>5
  <2> HIDE DEF Upto
  <2>7. Done(m + 1) BY <2>6
  <2>8. QED BY <2>1, <2>7
<1>3. N = Nat
  <2> HIDE DEF Done
  <2>1. QED BY <1>1, <1>2, NatSetInduction
<1> DEFINE upto(m) == CHOOSE f : Upto(f, m)
           d == [n \in Nat |-> upto(n)[n]]
<1>4. ASSUME NEW m \in Nat PROVE Upto(upto(m), m)
  <2>1. Done(m) BY <1>3
  <2> HIDE DEF Upto
  <2>2. QED BY <2>1
<1> HIDE DEF upto
\* Any two agree as far as both go.
<1>5. ASSUME NEW a \in Nat, NEW b \in Nat
      PROVE  \A k \in Nat : k <= a /\ k <= b => upto(a)[k] = upto(b)[k]
  <2> DEFINE f == upto(a)
             g == upto(b)
             K == {k \in Nat : k <= a /\ k <= b => f[k] = g[k]}
  <2>1. Upto(f, a) /\ Upto(g, b) BY <1>4
  <2> HIDE DEF f, g
  <2>2. 0 \in K
    <3>1. 0 \in 0 .. a /\ 0 \in 0 .. b OBVIOUS
    <3>2. f[0] = DocumentsOver(0, f[0 - 1]) /\ g[0] = DocumentsOver(0, g[0 - 1])
      BY <2>1, <3>1
    <3>3. f[0] = g[0] BY <3>2 DEF DocumentsOver
    <3>4. QED BY <3>3
  <2>3. ASSUME NEW k \in K PROVE k + 1 \in K
    <3>1. ASSUME k + 1 <= a, k + 1 <= b PROVE f[k + 1] = g[k + 1]
      <4>1. k + 1 \in 0 .. a /\ k + 1 \in 0 .. b /\ (k + 1) - 1 = k BY <3>1
      <4>2. f[k] = g[k] BY <3>1
      <4>3. /\ f[k + 1] = DocumentsOver(k + 1, f[(k + 1) - 1])
            /\ g[k + 1] = DocumentsOver(k + 1, g[(k + 1) - 1])
        BY <2>1, <4>1
      <4> HIDE DEF K
      <4>4. QED BY <4>1, <4>2, <4>3
    <3>2. QED BY <3>1
  <2>4. K = Nat BY <2>2, <2>3, NatSetInduction
  <2>5. QED BY <2>4 DEF f, g
<1>6. ASSUME NEW n \in Nat PROVE d[n] = DocumentsOver(n, d[n - 1])
  <2>1. d[n] = DocumentsOver(n, upto(n)[n - 1])
    <3>1. Upto(upto(n), n) /\ n \in 0 .. n BY <1>4
    <3>2. upto(n)[n] = DocumentsOver(n, upto(n)[n - 1]) BY <3>1
    <3>3. QED BY <3>2
  <2>2. CASE n = 0 BY <2>1, <2>2 DEF DocumentsOver
  <2>3. CASE n # 0
    <3>1. n - 1 \in Nat /\ n - 1 <= n /\ n - 1 <= n - 1 BY <2>3
    <3>2. upto(n)[n - 1] = upto(n - 1)[n - 1] BY <1>5, <3>1
    <3>3. d[n - 1] = upto(n - 1)[n - 1] BY <3>1
    <3> HIDE DEF d
    <3>4. QED BY <2>1, <3>2, <3>3
  <2>4. QED BY <2>2, <2>3
<1>7. d = [n \in Nat |-> DocumentsOver(n, d[n - 1])]
  <2>1. d = [n \in Nat |-> d[n]] OBVIOUS
  <2> HIDE DEF d
  <2>2. QED BY <1>6, <2>1
<1>8. QED BY <1>7

LEMMA DocumentsAre ==
    /\ Documents[0] = Scalars
    /\ \A n \in Nat :
          Documents[n + 1] = Scalars \cup {value \in Containers(Documents[n]) : HasKeysOnce(value)}
<1> DEFINE Is(f) == f = [n \in Nat |-> DocumentsOver(n, f[n - 1])]
           d == CHOOSE f : Is(f)
<1>1. Is(d) BY DocumentsExist
<1>2. Documents = d BY DEF Documents, DocumentsOver
<1> HIDE DEF d
<1>3. \A n \in Nat : Documents[n] = DocumentsOver(n, Documents[n - 1]) BY <1>1, <1>2
<1>4. Documents[0] = Scalars BY <1>3 DEF DocumentsOver
<1>5. ASSUME NEW n \in Nat
      PROVE  Documents[n + 1] = Scalars \cup {value \in Containers(Documents[n]) : HasKeysOnce(value)}
  <2>1. n + 1 \in Nat /\ (n + 1) - 1 = n /\ n + 1 # 0 OBVIOUS
  <2>2. Documents[n + 1] = DocumentsOver(n + 1, Documents[n]) BY <1>3, <2>1
  <2>3. QED BY <2>1, <2>2 DEF DocumentsOver
<1>6. QED BY <1>4, <1>5

\* What a value nested n deep is written as, over the texts of those less deep.
TextsOver(n, inner) ==
    [at \in (Scalars \cup (IF n = 0 THEN {} ELSE Containers(Documents[n - 1])))
               \X Nat \X BOOLEAN |->
        AppendSerialized(at[1], at[2], at[3], IF n = 0 THEN <<>> ELSE inner)]

\* The first stage has nothing below it.
LEMMA TextsOverNothing ==
    ASSUME NEW x, NEW y
    PROVE  TextsOver(0, x) = TextsOver(0, y)
BY DEF TextsOver

LEMMA TextsExist ==
    \E f : f = [n \in Nat |-> TextsOver(n, f[n - 1])]
<1> DEFINE Upto(f, m) == \A k \in 0 .. m : f[k] = TextsOver(k, f[k - 1])
           Done(m) == \E f : Upto(f, m)
           N == {m \in Nat : Done(m)}
<1>1. 0 \in N
  <2> DEFINE f == [k \in Nat |-> TextsOver(0, <<>>)]
  <2>1. f[0] = TextsOver(0, <<>>) OBVIOUS
  <2> HIDE DEF f
  <2>2. f[0] = TextsOver(0, f[0 - 1]) BY <2>1, TextsOverNothing
  <2>3. \A k \in 0 .. 0 : k = 0 OBVIOUS
  <2>4. Upto(f, 0) BY <2>2, <2>3
  <2> HIDE DEF Upto
  <2>5. Done(0) BY <2>4
  <2>6. QED BY <2>5
<1>2. ASSUME NEW m \in N PROVE m + 1 \in N
  <2>1. m \in Nat /\ Done(m) OBVIOUS
  <2>2. PICK f : Upto(f, m) BY <2>1
  <2> DEFINE g == [k \in 0 .. m + 1 |-> IF k = m + 1 THEN TextsOver(k, f[m]) ELSE f[k]]
  <2>3. \A k \in 0 .. m : g[k] = f[k] BY <2>1
  <2>4. g[m + 1] = TextsOver(m + 1, f[m]) BY <2>1
  <2> HIDE DEF g
  <2>5. ASSUME NEW k \in 0 .. m + 1 PROVE g[k] = TextsOver(k, g[k - 1])
    <3>1. CASE k = m + 1
      <4>1. m \in 0 .. m /\ (m + 1) - 1 = m BY <2>1
      <4>2. g[m + 1] = TextsOver(m + 1, g[(m + 1) - 1]) BY <2>3, <2>4, <4>1
      <4>3. QED BY <3>1, <4>2
    <3>2. CASE k = 0
      <4>1. 0 \in 0 .. m BY <2>1
      <4>2. g[0] = TextsOver(0, f[0 - 1]) BY <2>2, <2>3, <4>1
      <4>3. QED BY <3>2, <4>2, TextsOverNothing
    <3>3. CASE k # 0 /\ k # m + 1
      <4>1. k \in 0 .. m /\ k - 1 \in 0 .. m BY <2>1, <3>3
      <4>2. QED BY <2>2, <2>3, <4>1
    <3>4. QED BY <3>1, <3>2, <3>3
  <2>6. Upto(g, m + 1) BY <2>5
  <2> HIDE DEF Upto
  <2>7. Done(m + 1) BY <2>6
  <2>8. QED BY <2>1, <2>7
<1>3. N = Nat
  <2> HIDE DEF Done
  <2>1. QED BY <1>1, <1>2, NatSetInduction
<1> DEFINE upto(m) == CHOOSE f : Upto(f, m)
           d == [n \in Nat |-> upto(n)[n]]
<1>4. ASSUME NEW m \in Nat PROVE Upto(upto(m), m)
  <2>1. Done(m) BY <1>3
  <2> HIDE DEF Upto
  <2>2. QED BY <2>1
<1> HIDE DEF upto
\* Any two agree as far as both go.
<1>5. ASSUME NEW a \in Nat, NEW b \in Nat
      PROVE  \A k \in Nat : k <= a /\ k <= b => upto(a)[k] = upto(b)[k]
  <2> DEFINE f == upto(a)
             g == upto(b)
             K == {k \in Nat : k <= a /\ k <= b => f[k] = g[k]}
  <2>1. Upto(f, a) /\ Upto(g, b) BY <1>4
  <2> HIDE DEF f, g
  <2>2. 0 \in K
    <3>1. 0 \in 0 .. a /\ 0 \in 0 .. b OBVIOUS
    <3>2. f[0] = TextsOver(0, f[0 - 1]) /\ g[0] = TextsOver(0, g[0 - 1])
      BY <2>1, <3>1
    <3>3. f[0] = g[0] BY <3>2, TextsOverNothing
    <3>4. QED BY <3>3
  <2>3. ASSUME NEW k \in K PROVE k + 1 \in K
    <3>1. ASSUME k + 1 <= a, k + 1 <= b PROVE f[k + 1] = g[k + 1]
      <4>1. k + 1 \in 0 .. a /\ k + 1 \in 0 .. b /\ (k + 1) - 1 = k BY <3>1
      <4>2. f[k] = g[k] BY <3>1
      <4>3. /\ f[k + 1] = TextsOver(k + 1, f[(k + 1) - 1])
            /\ g[k + 1] = TextsOver(k + 1, g[(k + 1) - 1])
        BY <2>1, <4>1
      <4> HIDE DEF K
      <4>4. QED BY <4>1, <4>2, <4>3
    <3>2. QED BY <3>1
  <2>4. K = Nat BY <2>2, <2>3, NatSetInduction
  <2>5. QED BY <2>4 DEF f, g
<1>6. ASSUME NEW n \in Nat PROVE d[n] = TextsOver(n, d[n - 1])
  <2>1. d[n] = TextsOver(n, upto(n)[n - 1])
    <3>1. Upto(upto(n), n) /\ n \in 0 .. n BY <1>4
    <3>2. upto(n)[n] = TextsOver(n, upto(n)[n - 1]) BY <3>1
    <3>3. QED BY <3>2
  <2>2. CASE n = 0 BY <2>1, <2>2, TextsOverNothing
  <2>3. CASE n # 0
    <3>1. n - 1 \in Nat /\ n - 1 <= n /\ n - 1 <= n - 1 BY <2>3
    <3>2. upto(n)[n - 1] = upto(n - 1)[n - 1] BY <1>5, <3>1
    <3>3. d[n - 1] = upto(n - 1)[n - 1] BY <3>1
    <3> HIDE DEF d
    <3>4. QED BY <2>1, <3>2, <3>3
  <2>4. QED BY <2>2, <2>3
<1>7. d = [n \in Nat |-> TextsOver(n, d[n - 1])]
  <2>1. d = [n \in Nat |-> d[n]] OBVIOUS
  <2> HIDE DEF d
  <2>2. QED BY <1>6, <2>1
<1>8. QED BY <1>7

\* Texts is the function its equation describes.
LEMMA TextsAre ==
    \A n \in Nat : Texts[n] = TextsOver(n, Texts[n - 1])
<1> DEFINE Is(f) == f = [n \in Nat |-> TextsOver(n, f[n - 1])]
           d == CHOOSE f : Is(f)
<1>1. Is(d) BY TextsExist
<1>2. Texts = d BY DEF Texts, TextsOver
<1> HIDE DEF d
<1>3. QED BY <1>1, <1>2

\* A shallow document is one of every greater depth too.
LEMMA DocumentsGrow ==
    ASSUME NEW n \in Nat
    PROVE  /\ Scalars \subseteq Documents[n]
           /\ Documents[n] \subseteq Documents[n + 1]
           /\ \A m \in 0 .. n : Documents[m] \subseteq Documents[n]
<1> DEFINE Grows(m) == Documents[m] \subseteq Documents[m + 1]
           N == {m \in Nat : Grows(m)}
<1>1. 0 \in N
  <2>1. Documents[0 + 1] = Scalars \cup {value \in Containers(Documents[0]) : HasKeysOnce(value)}
    BY DocumentsAre
  <2>2. Documents[0] = Scalars BY DocumentsAre
  <2>3. Grows(0) BY <2>1, <2>2
  <2>4. QED BY <2>3
<1>2. ASSUME NEW m \in N PROVE m + 1 \in N
  <2>1. m \in Nat /\ Documents[m] \subseteq Documents[m + 1] OBVIOUS
  <2> DEFINE d == Documents[m]
             e == Documents[m + 1]
  <2>2. e = Scalars \cup {value \in Containers(d) : HasKeysOnce(value)} BY <2>1, DocumentsAre
  <2>3. Documents[m + 1 + 1] = Scalars \cup {value \in Containers(e) : HasKeysOnce(value)}
    BY <2>1, DocumentsAre
  <2>4. d \subseteq e BY <2>1
  <2> HIDE DEF d, e
  <2>5. Containers(d) \subseteq Containers(e)
    <3>1. Seq(d) \subseteq Seq(e) BY <2>4
    <3>2. Seq(MemberKeys \X d) \subseteq Seq(MemberKeys \X e)
      <4>1. MemberKeys \X d \subseteq MemberKeys \X e BY <2>4
      <4> DEFINE x == MemberKeys \X d
                 y == MemberKeys \X e
      <4> HIDE DEF x, y
      <4>2. x \subseteq y => Seq(x) \subseteq Seq(y) OBVIOUS
      <4>3. QED BY <4>1, <4>2 DEF x, y
    <3>3. QED BY <3>1, <3>2 DEF Containers
  <2>6. Grows(m + 1) BY <2>2, <2>3, <2>5 DEF e
  <2> HIDE DEF Grows
  <2>7. QED BY <2>1, <2>6
<1> HIDE DEF Grows
<1>3. N = Nat BY <1>1, <1>2, NatSetInduction
<1>4. \A m \in Nat : Documents[m] \subseteq Documents[m + 1] BY <1>3 DEF Grows
<1> DEFINE Below(k) == \A m \in 0 .. k : Documents[m] \subseteq Documents[k]
           B == {k \in Nat : Below(k)}
<1>5. 0 \in B
  <2>1. \A m \in 0 .. 0 : m = 0 OBVIOUS
  <2>2. QED BY <2>1
<1>6. ASSUME NEW k \in B PROVE k + 1 \in B
  <2>1. k \in Nat /\ Below(k) OBVIOUS
  <2>2. ASSUME NEW m \in 0 .. k + 1 PROVE Documents[m] \subseteq Documents[k + 1]
    <3>1. m \in 0 .. k \/ m = k + 1 BY <2>1
    <3>2. QED BY <1>4, <2>1, <3>1
  <2>3. Below(k + 1) BY <2>2
  <2> HIDE DEF Below
  <2>4. QED BY <2>1, <2>3
<1> HIDE DEF Below
<1>7. B = Nat BY <1>5, <1>6, NatSetInduction
<1>8. Below(n) BY <1>7
<1>9. Documents[0] \subseteq Documents[n] BY <1>8 DEF Below
<1>10. QED BY <1>4, <1>8, <1>9, DocumentsAre DEF Below

LEMMA TypesDiffer ==
    /\ \A value \in Scalars : value.type \in {"null", "bool", "number", "string"}
    /\ \A items : Array(items).type = "array" /\ Array(items).array = items
    /\ \A members : Object(members).type = "object" /\ Object(members).object = members
BY DEF Scalars, Null, Bool, Number, String, Array, Object

LEMMA ContainersAre ==
    ASSUME NEW values
    PROVE  /\ \A items : Array(items) \in Containers(values) <=> items \in Seq(values)
           /\ \A members : Object(members) \in Containers(values)
                              <=> members \in Seq(MemberKeys \X values)
           /\ \A value \in Containers(values) :
                 \/ \E items \in Seq(values) : value = Array(items)
                 \/ \E members \in Seq(MemberKeys \X values) : value = Object(members)
BY DEF Containers, Array, Object

\* How deep an array and an object are.
LEMMA ArrayDepth ==
    ASSUME NEW n \in Nat, NEW V, NEW items \in Seq(V)
    PROVE  Array(items) \in Documents[n]
               <=> n # 0 /\ \A k \in 1 .. Len(items) : items[k] \in Documents[n - 1]
<1>1. Array(items) \notin Scalars BY TypesDiffer
<1>2. CASE n = 0 BY <1>1, <1>2, DocumentsAre
<1>3. CASE n # 0
  <2> DEFINE d == Documents[n - 1]
  <2>1. n - 1 \in Nat /\ (n - 1) + 1 = n BY <1>3
  <2>2. Documents[(n - 1) + 1] = Scalars \cup {value \in Containers(d) : HasKeysOnce(value)}
    BY <2>1, DocumentsAre
  <2>3. Documents[n] = Scalars \cup {value \in Containers(d) : HasKeysOnce(value)}
    BY <2>1, <2>2
  <2> HIDE DEF d
  <2>4. HasKeysOnce(Array(items)) BY TypesDiffer DEF HasKeysOnce
  <2>5. Array(items) \in Documents[n] <=> items \in Seq(d) BY <1>1, <2>3, <2>4, ContainersAre
  <2>6. items \in Seq(d) <=> \A k \in 1 .. Len(items) : items[k] \in d OBVIOUS
  <2>7. QED BY <1>3, <2>5, <2>6 DEF d
<1>4. QED BY <1>2, <1>3

\* An object is one deeper than the deepest of its members.
LEMMA ObjectDepth ==
    ASSUME NEW n \in Nat, NEW V, NEW members \in Seq(MemberKeys \X V)
    PROVE  Object(members) \in Documents[n]
               <=> /\ n # 0 /\ HasKeysOnce(Object(members))
                   /\ \A k \in 1 .. Len(members) : members[k][2] \in Documents[n - 1]
<1>1. Object(members) \notin Scalars BY TypesDiffer
<1>2. CASE n = 0 BY <1>1, <1>2, DocumentsAre
<1>3. CASE n # 0
  <2> DEFINE d == Documents[n - 1]
  <2>1. n - 1 \in Nat /\ (n - 1) + 1 = n BY <1>3
  <2>2. Documents[(n - 1) + 1] = Scalars \cup {value \in Containers(d) : HasKeysOnce(value)}
    BY <2>1, DocumentsAre
  <2>3. Documents[n] = Scalars \cup {value \in Containers(d) : HasKeysOnce(value)}
    BY <2>1, <2>2
  <2> HIDE DEF d
  <2>4. Object(members) \in Documents[n]
          <=> members \in Seq(MemberKeys \X d) /\ HasKeysOnce(Object(members))
    BY <1>1, <2>3, ContainersAre
  <2>5. members \in Seq(MemberKeys \X d) <=> \A k \in 1 .. Len(members) : members[k][2] \in d
    <3>1. ASSUME \A k \in 1 .. Len(members) : members[k][2] \in d
          PROVE  members \in Seq(MemberKeys \X d)
      <4>1. ASSUME NEW k \in 1 .. Len(members) PROVE members[k] \in MemberKeys \X d
        <5>1. members[k] \in MemberKeys \X V OBVIOUS
        <5>2. QED BY <3>1, <5>1
      <4> DEFINE x == MemberKeys \X d
      <4> HIDE DEF x
      <4>2. (\A k \in 1 .. Len(members) : members[k] \in x) => members \in Seq(x)
        OBVIOUS
      <4>3. QED BY <4>1, <4>2 DEF x
    <3>2. ASSUME members \in Seq(MemberKeys \X d), NEW k \in 1 .. Len(members)
          PROVE  members[k][2] \in d
      <4>1. members[k] \in MemberKeys \X d BY <3>2
      <4>2. QED BY <4>1
    <3>3. QED BY <3>1, <3>2
  <2>6. QED BY <1>3, <2>4, <2>5 DEF d
<1>4. QED BY <1>2, <1>3

\* What a value is written as.
LEMMA TextIs ==
    ASSUME NEW n \in Nat, NEW level \in Nat, NEW compact \in BOOLEAN
    PROVE  /\ \A value \in Scalars :
                 Texts[n][<<value, level, compact>>] =
                     CASE value.type = "null" -> <<"null">>
                       [] value.type = "bool" -> <<IF value.bool THEN "true" ELSE "false">>
                       [] value.type = "number" -> value.number
                       [] value.type = "string" -> EscapeString(value.string)
           /\ \A items \in Seq(Documents[n]) :
                 Texts[n + 1][<<Array(items), level, compact>>] =
                     Bracketed(OpenBracket, [k \in DOMAIN items |-> Texts[n][<<items[k], level + 1, compact>>]],
                               level, compact, CloseBracket)
           /\ \A members \in Seq(MemberKeys \X Documents[n]) :
                 Texts[n + 1][<<Object(members), level, compact>>] =
                     Bracketed(OpenBrace, [k \in DOMAIN members |->
                                        EscapeString(members[k][1])
                                        \o (IF compact THEN <<Colon>> ELSE <<Colon, Blank>>)
                                        \o Texts[n][<<members[k][2], level + 1, compact>>]],
                               level, compact, CloseBrace)
<1>1. ASSUME NEW value \in Scalars
      PROVE  Texts[n][<<value, level, compact>>] =
               CASE value.type = "null" -> <<"null">>
                 [] value.type = "bool" -> <<IF value.bool THEN "true" ELSE "false">>
                 [] value.type = "number" -> value.number
                 [] value.type = "string" -> EscapeString(value.string)
  <2>1. Texts[n] = TextsOver(n, Texts[n - 1]) BY TextsAre
  <2> DEFINE inner == IF n = 0 THEN <<>> ELSE Texts[n - 1]
  <2>2. TextsOver(n, Texts[n - 1])[<<value, level, compact>>]
          = AppendSerialized(value, level, compact, inner)
    BY DEF TextsOver
  <2> HIDE DEF inner
  <2>3. value.type \in {"null", "bool", "number", "string"} BY TypesDiffer
  <2>4. QED BY <2>1, <2>2, <2>3 DEF AppendSerialized
<1> DEFINE inner == Texts[n]
           d == Documents[n]
<1>2. ASSUME NEW value \in Containers(d)
      PROVE  Texts[n + 1][<<value, level, compact>>] = AppendSerialized(value, level, compact, inner)
  <2>1. n + 1 \in Nat /\ (n + 1) - 1 = n /\ n + 1 # 0 OBVIOUS
  <2>2. Texts[n + 1] = TextsOver(n + 1, inner) BY <2>1, TextsAre
  <2>3. TextsOver(n + 1, inner) =
          [at \in (Scalars \cup Containers(d)) \X Nat \X BOOLEAN |->
              AppendSerialized(at[1], at[2], at[3], inner)]
    BY <2>1 DEF TextsOver
  <2> HIDE DEF inner, d
  <2>4. TextsOver(n + 1, inner)[<<value, level, compact>>]
          = AppendSerialized(value, level, compact, inner)
    BY <2>3
  <2>5. QED BY <2>2, <2>4
<1> HIDE DEF inner, d
<1>3. ASSUME NEW items \in Seq(d)
      PROVE  Texts[n + 1][<<Array(items), level, compact>>] =
               Bracketed(OpenBracket, [k \in DOMAIN items |-> inner[<<items[k], level + 1, compact>>]],
                         level, compact, CloseBracket)
  <2>1. Array(items) \in Containers(d) BY ContainersAre
  <2>2. Texts[n + 1][<<Array(items), level, compact>>]
          = AppendSerialized(Array(items), level, compact, inner)
    BY <1>2, <2>1
  <2>3. QED BY <2>2, TypesDiffer DEF AppendSerialized
<1>4. ASSUME NEW members \in Seq(MemberKeys \X d)
      PROVE  Texts[n + 1][<<Object(members), level, compact>>] =
               Bracketed(OpenBrace, [k \in DOMAIN members |->
                                  EscapeString(members[k][1])
                                  \o (IF compact THEN <<Colon>> ELSE <<Colon, Blank>>)
                                  \o inner[<<members[k][2], level + 1, compact>>]],
                         level, compact, CloseBrace)
  <2>1. Object(members) \in Containers(d) BY ContainersAre
  <2>2. Texts[n + 1][<<Object(members), level, compact>>]
          = AppendSerialized(Object(members), level, compact, inner)
    BY <1>2, <2>1
  <2>3. QED BY <2>2, TypesDiffer, ZenonT(30) DEF AppendSerialized
<1>5. QED BY <1>1, <1>3, <1>4 DEF inner, d

-----------------------------------------------------------------------------
(* Where the items of an array or an object stand in its text.             *)

TextTokens ==
    Tokens(Characters) \cup NumberChars \cup Literals \cup Whitespace
        \cup Punctuation

\* What a value's text can begin with.
Opening == Literals \cup Digits \cup {"-", "quote", OpenBracket, OpenBrace}

LEMMA TokensDiffer ==
    /\ "end" \notin TextTokens /\ "end" \notin Opening
    /\ Opening \cap Whitespace = {} /\ Punctuation \cap Whitespace = {}
    /\ "end" \notin Tokens(Characters) /\ "end" \notin Punctuation
<1>1. "end" \notin Tokens(Characters)
  <2>1. "end" \notin Characters BY JsonAssumption
  <2>2. QED BY <2>1, SpecialsDiffer DEF Tokens
<1>2. "end" \notin Punctuation /\ "newline" \notin Punctuation /\ Blank \notin Punctuation
  BY PunctuationIsNoWord DEF Words
<1>3. Opening \cap Whitespace = {}
  <2>1. Blank \notin Literals \cup Digits \cup {"-", "quote"}
    BY PunctuationIsNoWord DEF Words, Literals
  <2>2. "newline" \notin Literals \cup Digits \cup {"-", "quote"}
    BY DEF Literals, Digits
  <2>3. QED BY <1>2, <2>1, <2>2 DEF Opening, Whitespace, Punctuation
<1>4. "end" \notin TextTokens
  BY <1>1, <1>2, WordsDiffer DEF TextTokens, Literals
<1>5. "end" \notin Opening BY <1>2, WordsDiffer DEF Opening, Literals, Punctuation
<1>6. QED BY <1>1, <1>2, <1>3, <1>4, <1>5 DEF Whitespace

LEMMA IndentIs ==
    ASSUME NEW compact \in BOOLEAN, NEW level \in Nat
    PROVE  /\ Indent(compact, level) \in Seq(Whitespace)
           /\ Len(Indent(compact, level)) # 0 => Indent(compact, level)[1] = "newline"
<1> DEFINE line == <<"newline">>
           spaces == [k \in 1 .. 2 * level |-> Blank]
<1>1. line \in Seq(Whitespace) /\ Len(line) = 1 /\ line[1] = "newline" BY DEF Whitespace
<1>2. spaces \in Seq(Whitespace)
  <2> DEFINE n == 2 * level
  <2>1. n \in Nat OBVIOUS
  <2> HIDE DEF n
  <2>2. [k \in 1 .. n |-> Blank] \in Seq(Whitespace) BY <2>1 DEF Whitespace
  <2>3. QED BY <2>2 DEF n
<1> HIDE DEF line, spaces
<1>3. /\ line \o spaces \in Seq(Whitespace)
      /\ \A i \in 1 .. Len(line) : (line \o spaces)[i] = line[i]
  BY <1>1, <1>2, ConcatParts
<1>4. (line \o spaces)[1] = "newline"
  <2>1. 1 \in 1 .. Len(line) BY <1>1
  <2>2. QED BY <1>1, <1>3, <2>1
<1>5. Indent(compact, level) = IF compact THEN <<>> ELSE line \o spaces
  BY DEF Indent, line, spaces
<1>6. QED BY <1>3, <1>4, <1>5

\* Where the items begin, and what is around them.
Laid(s, begin, items, open, close) ==
    /\ begin \in [1 .. Len(items) -> Nat]
    /\ s[1] = open /\ s[Len(s)] = close
    /\ \A k \in 1 .. Len(items) :
          /\ begin[k] > 1 /\ begin[k] + Len(items[k]) <= Len(s)
          /\ \A i \in 1 .. Len(items[k]) : s[begin[k] + i - 1] = items[k][i]
    /\ \A q \in 2 .. begin[1] - 1 : s[q] \in Whitespace
    /\ \A k \in 1 .. Len(items) - 1 :
          /\ begin[k] + Len(items[k]) < begin[k + 1]
          /\ s[begin[k] + Len(items[k])] = Comma
          /\ \A q \in begin[k] + Len(items[k]) + 1 .. begin[k + 1] - 1 : s[q] \in Whitespace
    /\ s[begin[Len(items)] + Len(items[Len(items)])] \in {"newline", close}
    /\ \A q \in begin[Len(items)] + Len(items[Len(items)]) .. Len(s) - 1 : s[q] \in Whitespace

\* Where the bracket, the items and what separates them stand (json.cpp:630-649).
LEMMA BracketedLaid ==
    ASSUME NEW S, Whitespace \subseteq S, Comma \in S, NEW items \in Seq(Seq(S)), items # <<>>,
           NEW open \in S, NEW close \in S, NEW level \in Nat, NEW compact \in BOOLEAN
    PROVE  /\ Bracketed(open, items, level, compact, close) \in Seq(S)
           /\ \E begin : Laid(Bracketed(open, items, level, compact, close), begin, items,
                              open, close)
<1> DEFINE m == Len(items)
           size(k) == Len(items[k])
           inner == Indent(compact, level + 1)
           outer == Indent(compact, level)
           sep(k) == (IF k > 1 THEN <<Comma>> ELSE <<>>) \o inner
           parts == [k \in DOMAIN items |->
                        (IF k > 1 THEN <<Comma>> ELSE <<>>) \o Indent(compact, level + 1) \o items[k]]
           flat == FlattenSeq(parts)
           lines == flat \o outer
           s == <<open>> \o lines \o <<close>>
<1>1. Bracketed(open, items, level, compact, close) = s BY DEF Bracketed, Lines
<1>2. /\ m \in Nat \ {0} /\ \A k \in 1 .. m : items[k] \in Seq(S) /\ size(k) \in Nat
      /\ DOMAIN items = 1 .. m
  OBVIOUS
<1>3. /\ inner \in Seq(Whitespace) /\ outer \in Seq(Whitespace)
      /\ Len(outer) # 0 => outer[1] = "newline"
  BY IndentIs
<1>4. inner \in Seq(S) /\ outer \in Seq(S) /\ Len(inner) \in Nat /\ Len(outer) \in Nat
  <2> HIDE DEF inner, outer
  <2>1. QED BY <1>3
<1> HIDE DEF inner, outer, size, m
<1>5. ASSUME NEW k \in 1 .. m
      PROVE  /\ sep(k) \in Seq(S)
             /\ Len(sep(k)) = IF k > 1 THEN 1 + Len(inner) ELSE Len(inner)
             /\ k > 1 => sep(k)[1] = Comma
             /\ \A i \in 1 .. Len(sep(k)) : k = 1 \/ i > 1 => sep(k)[i] \in Whitespace
  <2>1. CASE k > 1
    <3>1. sep(k) = <<Comma>> \o inner BY <2>1
    <3>2. /\ sep(k) \in Seq(S) /\ Len(sep(k)) = 1 + Len(inner) /\ sep(k)[1] = Comma
          /\ \A i \in 1 .. Len(inner) : sep(k)[1 + i] = inner[i]
      BY <1>4, <3>1, ConsParts
    <3> HIDE DEF sep
    <3>3. ASSUME NEW i \in 1 .. Len(sep(k)), i > 1 PROVE sep(k)[i] \in Whitespace
      <4> DEFINE j == i - 1
      <4>1. j \in 1 .. Len(inner) /\ 1 + j = i BY <1>4, <3>2, <3>3
      <4> HIDE DEF j
      <4>2. inner[j] \in Whitespace
        <5>1. inner \in Seq(Whitespace) BY <1>3
        <5>2. QED BY <4>1, <5>1
      <4>3. sep(k)[1 + j] = inner[j] BY <3>2, <4>1
      <4>4. QED BY <4>1, <4>2, <4>3
    <3>4. QED BY <2>1, <3>2, <3>3
  <2>2. CASE ~(k > 1)
    <3>1. sep(k) = <<>> \o inner BY <2>2
    <3>2. <<>> \o inner = inner BY <1>4
    <3> HIDE DEF sep
    <3>3. k = 1 BY <2>2
    <3>4. QED BY <1>3, <1>4, <2>2, <3>1, <3>2
  <2>3. QED BY <2>1, <2>2
<1>6. parts = [k \in 1 .. m |-> sep(k) \o items[k]] BY <1>2 DEF inner
<1> HIDE DEF sep, parts
<1>7. ASSUME NEW k \in 1 .. m
      PROVE  /\ parts[k] \in Seq(S) /\ Len(parts[k]) = Len(sep(k)) + size(k)
             /\ \A i \in 1 .. Len(sep(k)) : parts[k][i] = sep(k)[i]
             /\ \A i \in 1 .. size(k) : parts[k][Len(sep(k)) + i] = items[k][i]
  <2>1. parts[k] = sep(k) \o items[k] BY <1>6
  <2> DEFINE x == sep(k)
             y == items[k]
  <2>2. x \in Seq(S) /\ y \in Seq(S) BY <1>2, <1>5
  <2> HIDE DEF x, y
  <2>3. /\ x \o y \in Seq(S) /\ Len(x \o y) = Len(x) + Len(y)
        /\ \A i \in 1 .. Len(x) : (x \o y)[i] = x[i]
        /\ \A i \in 1 .. Len(y) : (x \o y)[Len(x) + i] = y[i]
    BY <2>2, ConcatParts
  <2>4. QED BY <2>1, <2>3 DEF x, y, size
<1>8. parts \in Seq(Seq(S)) /\ Len(parts) = m
  <2>1. \A k \in 1 .. m : sep(k) \o items[k] \in Seq(S) BY <1>6, <1>7
  <2>2. QED BY <1>2, <1>6, <2>1
<1>9. flat \in Seq(S) /\ \E ends : PartsLayout(ends, parts, flat) BY <1>8, FlattenLayout
<1>10. PICK ends : PartsLayout(ends, parts, flat) BY <1>9
<1> HIDE DEF flat
<1>11. /\ ends \in [0 .. m -> Nat] /\ ends[0] = 0 /\ Len(flat) = ends[m]
       /\ \A k \in 1 .. m :
             /\ ends[k] = ends[k - 1] + Len(parts[k])
             /\ \A i \in 1 .. Len(parts[k]) : flat[ends[k - 1] + i] = parts[k][i]
  BY <1>8, <1>10 DEF PartsLayout
<1> DEFINE f == Len(flat)
           o == Len(outer)
<1>12. f \in Nat /\ o \in Nat /\ f = ends[m] BY <1>4, <1>9, <1>11
<1>13. /\ lines \in Seq(S) /\ Len(lines) = f + o
       /\ \A i \in 1 .. f : lines[i] = flat[i]
       /\ \A i \in 1 .. o : lines[f + i] = outer[i]
  BY <1>4, <1>9, ConcatParts
<1> HIDE DEF lines
<1> DEFINE head == <<open>> \o lines
<1>14. /\ head \in Seq(S) /\ Len(head) = 1 + Len(lines) /\ head[1] = open
       /\ \A i \in 1 .. Len(lines) : head[1 + i] = lines[i]
  <2>1. lines \in Seq(S) /\ open \in S BY <1>13
  <2>2. QED BY <2>1, ConsParts
<1> HIDE DEF head
<1> DEFINE n == Len(s)
<1>15. /\ s \in Seq(S) /\ n = Len(head) + 1 /\ s[n] = close
       /\ \A i \in 1 .. Len(head) : s[i] = head[i]
  <2> DEFINE end == <<close>>
             t == head \o end
  <2>1. end \in Seq(S) /\ Len(end) = 1 /\ end[1] = close /\ 1 \in 1 .. Len(end) OBVIOUS
  <2> HIDE DEF end
  <2>2. /\ t \in Seq(S) /\ Len(t) = Len(head) + Len(end)
        /\ \A i \in 1 .. Len(head) : t[i] = head[i]
        /\ \A i \in 1 .. Len(end) : t[Len(head) + i] = end[i]
    <3>1. head \in Seq(S) BY <1>14
    <3>2. end \in Seq(S) BY <2>1
    <3> DEFINE x == head
    <3> HIDE DEF x
    <3>3. /\ x \o end \in Seq(S) /\ Len(x \o end) = Len(x) + Len(end)
          /\ \A i \in 1 .. Len(x) : (x \o end)[i] = x[i]
          /\ \A i \in 1 .. Len(end) : (x \o end)[Len(x) + i] = end[i]
      <4>1. x \in Seq(S) BY <3>1 DEF x
      <4>2. x \o end \in Seq(S) BY <3>2, <4>1
      <4>3. QED BY <3>2, <4>1, <4>2, ConcatParts
    <3>4. QED BY <3>3 DEF x
  <2>3. s = t BY DEF head, end
  <2> HIDE DEF t
  <2>4. t[Len(head) + 1] = close BY <2>1, <2>2
  <2>5. QED BY <2>1, <2>2, <2>3, <2>4
<1> HIDE DEF s, n
\* All of it by distance from the bracket.
<1>16. /\ n = f + o + 2 /\ s[1] = open
       /\ \A i \in 1 .. f : s[1 + i] = flat[i]
       /\ \A i \in 1 .. o : s[1 + f + i] = outer[i]
  <2>1. Len(head) = 1 + (f + o) BY <1>13, <1>14
  <2>2. n = f + o + 2 BY <1>12, <1>15, <2>1
  <2>3. s[1] = open
    <3>1. 1 \in 1 .. Len(head) BY <1>12, <2>1
    <3>2. QED BY <1>14, <1>15, <3>1
  <2>4. ASSUME NEW i \in 1 .. f + o PROVE s[1 + i] = lines[i]
    <3>1. 1 + i \in 1 .. Len(head) /\ i \in 1 .. Len(lines) BY <1>12, <1>13, <2>1
    <3>2. QED BY <1>14, <1>15, <3>1
  <2>5. ASSUME NEW i \in 1 .. f PROVE s[1 + i] = flat[i]
    <3>1. i \in 1 .. f + o BY <1>12
    <3>2. QED BY <1>13, <2>4, <3>1
  <2>6. ASSUME NEW i \in 1 .. o PROVE s[1 + f + i] = outer[i]
    <3> DEFINE j == f + i
    <3>1. j \in 1 .. f + o /\ 1 + f + i = 1 + j BY <1>12
    <3> HIDE DEF j
    <3>2. s[1 + j] = lines[j] BY <2>4, <3>1
    <3>3. lines[j] = outer[i] BY <1>13 DEF j
    <3>4. QED BY <3>1, <3>2, <3>3
  <2>7. QED BY <2>2, <2>3, <2>5, <2>6
<1> DEFINE begin == [k \in 1 .. m |-> 2 + ends[k - 1] + Len(sep(k))]
<1>17. ASSUME NEW k \in 1 .. m
       PROVE  /\ ends[k - 1] \in Nat /\ ends[k] \in Nat /\ Len(sep(k)) \in Nat /\ size(k) \in Nat
              /\ ends[k] = ends[k - 1] + Len(sep(k)) + size(k)
              /\ begin[k] = 2 + ends[k - 1] + Len(sep(k)) /\ begin[k] \in Nat
              /\ begin[k] + size(k) = 2 + ends[k]
  <2>1. k - 1 \in 0 .. m /\ k \in 0 .. m BY <1>2
  <2>2. ends[k - 1] \in Nat /\ ends[k] \in Nat BY <1>11, <2>1
  <2>3. Len(sep(k)) \in Nat /\ size(k) \in Nat BY <1>2, <1>5
  <2>4. ends[k] = ends[k - 1] + (Len(sep(k)) + size(k)) BY <1>7, <1>11
  <2>5. begin[k] = 2 + ends[k - 1] + Len(sep(k)) OBVIOUS
  <2> HIDE DEF begin
  <2> DEFINE a == ends[k - 1]
             b == ends[k]
             l == Len(sep(k))
             z == size(k)
             p == begin[k]
  <2>6. /\ a \in Nat /\ b \in Nat /\ l \in Nat /\ z \in Nat
        /\ b = a + (l + z) /\ p = 2 + a + l
    BY <2>2, <2>3, <2>4, <2>5
  <2> HIDE DEF a, b, l, z, p
  <2>7. b = a + l + z /\ p \in Nat /\ p + z = 2 + b BY <2>6
  <2>8. QED BY <2>6, <2>7 DEF a, b, l, z, p
<1> HIDE DEF begin
\* Ends do not decrease.
<1>18. \A k \in 1 .. m : ends[k] <= f
  <2> DEFINE Good(j) == j < m => ends[m - j] <= f
             J == {j \in Nat : Good(j)}
  <2>1. 0 \in J
    <3>1. m - 0 = m BY <1>2
    <3>2. QED BY <1>12, <3>1
  <2>2. ASSUME NEW j \in J PROVE j + 1 \in J
    <3>1. ASSUME j + 1 < m PROVE ends[m - (j + 1)] <= f
      <4> DEFINE k == m - j
      <4>1. k \in 1 .. m /\ m - (j + 1) = k - 1 BY <1>2, <3>1
      <4>2. ends[k] <= f BY <1>2, <3>1
      <4> HIDE DEF k, J, Good
      <4>3. /\ ends[k - 1] \in Nat /\ Len(sep(k)) \in Nat /\ size(k) \in Nat
            /\ ends[k] = ends[k - 1] + Len(sep(k)) + size(k)
        BY <1>17, <4>1
      <4> DEFINE a == ends[k - 1]
                 b == ends[k]
                 l == Len(sep(k))
                 z == size(k)
      <4>4. a \in Nat /\ l \in Nat /\ z \in Nat /\ b = a + l + z /\ b <= f /\ f \in Nat
        BY <1>12, <4>2, <4>3
      <4> HIDE DEF a, b, l, z, f
      <4>5. a <= f BY <4>4
      <4>6. QED BY <4>1, <4>5 DEF a
    <3>2. QED BY <3>1
  <2> HIDE DEF Good
  <2>3. J = Nat BY <2>1, <2>2, NatSetInduction
  <2>4. ASSUME NEW k \in 1 .. m PROVE ends[k] <= f
    <3>1. m - k \in Nat /\ m - k < m /\ m - (m - k) = k BY <1>2
    <3>2. QED BY <2>3, <3>1 DEF Good
  <2>5. QED BY <2>4
<1>19. ASSUME NEW k \in 1 .. m, NEW i \in 1 .. Len(sep(k)) + size(k)
       PROVE  s[1 + (ends[k - 1] + i)] = parts[k][i]
  <2> DEFINE j == ends[k - 1] + i
  <2>1. j \in 1 .. f
    <3> DEFINE a == ends[k - 1]
               b == ends[k]
               l == Len(sep(k))
               z == size(k)
    <3>1. a \in Nat /\ l \in Nat /\ z \in Nat /\ b = a + l + z /\ b <= f BY <1>17, <1>18
    <3>2. i \in 1 .. l + z /\ f \in Nat BY <1>12
    <3> HIDE DEF a, b, l, z, f
    <3>3. a + i \in 1 .. f BY <3>1, <3>2
    <3>4. QED BY <3>3 DEF a
  <2>2. flat[j] = parts[k][i] BY <1>7, <1>11
  <2> HIDE DEF j
  <2>3. s[1 + j] = flat[j] BY <1>16, <2>1
  <2>4. QED BY <2>2, <2>3 DEF j
<1>20. ASSUME NEW k \in 1 .. m, NEW i \in 1 .. size(k)
       PROVE  s[begin[k] + i - 1] = items[k][i]
  <2> DEFINE j == Len(sep(k)) + i
  <2>1. j \in 1 .. Len(sep(k)) + size(k) /\ begin[k] + i - 1 = 1 + (ends[k - 1] + j)
    <3> DEFINE a == ends[k - 1]
               b == begin[k]
               l == Len(sep(k))
               z == size(k)
    <3>1. a \in Nat /\ l \in Nat /\ z \in Nat /\ b = 2 + a + l BY <1>17
    <3>2. i \in 1 .. z OBVIOUS
    <3> HIDE DEF a, b, l, z
    <3>3. l + i \in 1 .. l + z /\ b + i - 1 = 1 + (a + (l + i)) BY <3>1, <3>2
    <3>4. QED BY <3>3 DEF a, b, l, z
  <2>2. parts[k][j] = items[k][i] BY <1>7
  <2> HIDE DEF j
  <2>3. QED BY <1>19, <2>1, <2>2
\* What is between the items.
<1>21. ASSUME NEW k \in 1 .. m, NEW q \in 2 + ends[k - 1] .. begin[k] - 1
       PROVE  /\ k = 1 \/ q > 2 + ends[k - 1] => s[q] \in Whitespace
              /\ k > 1 /\ q = 2 + ends[k - 1] => s[q] = Comma
  <2> DEFINE i == q - 1 - ends[k - 1]
  <2>1. i \in 1 .. Len(sep(k)) /\ q = 1 + (ends[k - 1] + i) /\ i = q - 1 - ends[k - 1]
    <3> DEFINE a == ends[k - 1]
               l == Len(sep(k))
    <3>1. a \in Nat /\ l \in Nat /\ begin[k] = 2 + a + l BY <1>17
    <3>2. q \in 2 + a .. 2 + a + l - 1 BY <3>1
    <3> HIDE DEF a, l
    <3>3. q - 1 - a \in 1 .. l /\ q = 1 + (a + (q - 1 - a)) BY <3>1, <3>2
    <3>4. QED BY <3>3 DEF a, l
  <2> HIDE DEF i
  <2>2. i \in 1 .. Len(sep(k)) + size(k)
    <3> DEFINE l == Len(sep(k))
               z == size(k)
    <3>1. l \in Nat /\ z \in Nat /\ i \in 1 .. l BY <1>17, <2>1
    <3> HIDE DEF l, z
    <3>2. i \in 1 .. l + z BY <3>1
    <3>3. QED BY <3>2 DEF l, z
  <2>3. /\ q > 2 + ends[k - 1] => i > 1
        /\ q = 2 + ends[k - 1] => i = 1
    <3> DEFINE a == ends[k - 1]
    <3>1. a \in Nat /\ i = q - 1 - a /\ q \in Int BY <1>17, <2>1
    <3> HIDE DEF a
    <3>2. (q > 2 + a => i > 1) /\ (q = 2 + a => i = 1) BY <3>1
    <3>3. QED BY <3>2 DEF a
  <2>4. s[q] = parts[k][i] BY <1>19, <2>1, <2>2
  <2>5. parts[k][i] = sep(k)[i] BY <1>7, <2>1
  <2>6. QED BY <1>5, <2>1, <2>3, <2>4, <2>5
<1>22. \A q \in 2 .. begin[1] - 1 : s[q] \in Whitespace
  <2>1. 1 \in 1 .. m /\ 1 - 1 = 0 BY <1>2
  <2>2. 2 + ends[1 - 1] = 2 BY <1>11
  <2>3. QED BY <1>21, <2>1, <2>2
<1>23. ASSUME NEW k \in 1 .. m - 1
       PROVE  /\ begin[k] + size(k) < begin[k + 1]
              /\ s[begin[k] + size(k)] = Comma
              /\ \A q \in begin[k] + size(k) + 1 .. begin[k + 1] - 1 : s[q] \in Whitespace
  <2> DEFINE j == k + 1
  <2>1. j \in 1 .. m /\ j - 1 = k /\ j > 1 /\ k \in 1 .. m BY <1>2
  <2> HIDE DEF j
  <2>2. Len(sep(j)) = 1 + Len(inner) BY <1>5, <2>1
  <2>3. /\ begin[j] = 2 + ends[k] + Len(sep(j)) /\ begin[k] + size(k) = 2 + ends[k]
        /\ ends[k] \in Nat
    BY <1>17, <2>1
  <2>4. begin[k] + size(k) < begin[j] BY <1>4, <2>2, <2>3
  <2>5. 2 + ends[k] \in 2 + ends[j - 1] .. begin[j] - 1 BY <1>4, <2>1, <2>2, <2>3
  <2>6. s[2 + ends[k]] = Comma BY <1>21, <2>1, <2>5
  <2>7. ASSUME NEW q \in 2 + ends[k] + 1 .. begin[j] - 1 PROVE s[q] \in Whitespace
    <3>1. q \in 2 + ends[j - 1] .. begin[j] - 1 /\ q > 2 + ends[j - 1] BY <2>1, <2>3
    <3>2. QED BY <1>21, <2>1, <3>1
  <2>8. QED BY <2>3, <2>4, <2>6, <2>7 DEF j
<1>24. begin[m] + size(m) = 2 + f
  <2>1. m \in 1 .. m BY <1>2
  <2>2. QED BY <1>12, <1>17, <2>1
<1>25. s[2 + f] \in {"newline", close}
  <2>1. CASE o = 0
    <3>1. 2 + f = n BY <1>12, <1>16, <2>1
    <3>2. QED BY <1>15, <3>1
  <2>2. CASE o # 0
    <3>1. 1 \in 1 .. o /\ 1 + f + 1 = 2 + f BY <1>12, <2>2
    <3>2. s[1 + f + 1] = outer[1] BY <1>16, <3>1
    <3>3. QED BY <1>3, <2>2, <3>1, <3>2
  <2>3. QED BY <2>1, <2>2
<1>26. ASSUME NEW q \in 2 + f .. n - 1 PROVE s[q] \in Whitespace
  <2> DEFINE i == q - 1 - f
  <2>1. i \in 1 .. o /\ q = 1 + f + i
    <3>1. f \in Nat /\ o \in Nat /\ q \in 2 + f .. f + o + 2 - 1 BY <1>12, <1>16
    <3> HIDE DEF f, o
    <3>2. QED BY <3>1
  <2> HIDE DEF i
  <2>2. s[1 + f + i] = outer[i] BY <1>16, <2>1
  <2>3. outer[i] \in Whitespace BY <1>3, <2>1
  <2>4. QED BY <2>1, <2>2, <2>3
<1>27. begin \in [1 .. m -> Nat]
  <2>1. \A k \in 1 .. m : begin[k] \in Nat BY <1>17
  <2>2. begin = [k \in 1 .. m |-> begin[k]] BY DEF begin
  <2>3. QED BY <2>1, <2>2
<1>28. ASSUME NEW k \in 1 .. m PROVE begin[k] > 1 /\ begin[k] + size(k) <= n
  <2> DEFINE a == ends[k - 1]
             b == ends[k]
             l == Len(sep(k))
             x == begin[k]
             z == begin[k] + size(k)
  <2>1. a \in Nat /\ b \in Nat /\ l \in Nat /\ b <= f /\ x = 2 + a + l /\ z = 2 + b
    BY <1>17, <1>18
  <2>2. f \in Nat /\ o \in Nat /\ n = f + o + 2 BY <1>12, <1>16
  <2> HIDE DEF a, b, l, x, z, f, o
  <2>3. x > 1 /\ z <= n BY <2>1, <2>2
  <2>4. QED BY <2>3 DEF x, z
<1>29. Laid(s, begin, items, open, close)
  BY <1>15, <1>16, <1>20, <1>22, <1>23, <1>24, <1>25, <1>26, <1>27, <1>28
  DEF Laid, m, size, n
<1>30. QED BY <1>1, <1>15, <1>29

TextOk(text) == text \in Seq(TextTokens) /\ Len(text) # 0 /\ text[1] \in Opening

\* A string's text.
LEMMA EscapedOk ==
    ASSUME NEW chars \in Strings \cup MemberKeys
    PROVE  /\ chars \in Seq(Characters) /\ EscapeString(chars) \in Seq(Tokens(Characters))
           /\ TextOk(EscapeString(chars)) /\ EscapeString(chars)[1] = "quote"
<1> DEFINE e == EscapeString(chars)
<1>1. chars \in Seq(Characters) BY JsonAssumption
<1>2. e \in Seq(Tokens(Characters)) BY <1>1, LayoutExists
<1>3. PICK ends : Layout(ends, chars, e) BY <1>1, LayoutExists
<1>4. /\ e[1] = "quote" /\ Len(e) = ends[Len(chars)] + 1
      /\ ends[Len(chars)] \in Nat
  <2>1. /\ e[1] = "quote" /\ Len(e) = ends[Len(chars)] + 1
        /\ \A k \in 0 .. Len(chars) : ends[k] \in Nat
    BY <1>1, <1>2, <1>3, LayoutPlaces
  <2>2. Len(chars) \in 0 .. Len(chars) BY <1>1
  <2>3. QED BY <2>1, <2>2
<1> HIDE DEF e
<1>5. Len(e) # 0 BY <1>4
<1>6. e \in Seq(TextTokens)
  <2> DEFINE t == Tokens(Characters)
  <2>1. t \subseteq TextTokens BY DEF TextTokens
  <2>2. e \in Seq(t) BY <1>2
  <2> HIDE DEF t
  <2>3. QED BY <2>1, <2>2
<1>7. QED BY <1>1, <1>2, <1>4, <1>5, <1>6 DEF TextOk, Opening, e

\* The text of a value begins with what tells its type and is made of tokens.
LEMMA ScalarText ==
    ASSUME NEW n \in Nat, NEW value \in Scalars, NEW level \in Nat, NEW compact \in BOOLEAN
    PROVE  TextOk(Texts[n][<<value, level, compact>>])
<1> DEFINE t == Texts[n][<<value, level, compact>>]
<1>1. t = CASE value.type = "null" -> <<"null">>
            [] value.type = "bool" -> <<IF value.bool THEN "true" ELSE "false">>
            [] value.type = "number" -> value.number
            [] value.type = "string" -> EscapeString(value.string)
  BY TextIs
<1> HIDE DEF t
<1>2. ASSUME NEW c \in Literals PROVE TextOk(<<c>>)
  <2>1. c \in TextTokens /\ c \in Opening BY DEF TextTokens, Opening
  <2>2. QED BY <2>1 DEF TextOk
<1>3. CASE value = Null
  <2>1. t = <<"null">> BY <1>1, <1>3 DEF Null
  <2>2. QED BY <1>2, <2>1 DEF t, Literals
<1>4. CASE value \in {Bool(TRUE), Bool(FALSE)}
  <2>1. t = <<"true">> \/ t = <<"false">> BY <1>1, <1>4 DEF Bool
  <2>2. QED BY <1>2, <2>1 DEF t, Literals
<1>5. ASSUME NEW token \in Numbers, value = Number(token) PROVE TextOk(t)
  <2>1. t = token BY <1>1, <1>5 DEF Number
  <2>2. token \in Seq(NumberChars) BY JsonAssumption
  <2>3. token \in Seq(TextTokens)
    <3>1. NumberChars \subseteq TextTokens BY DEF TextTokens
    <3>2. QED BY <2>2, <3>1
  <2>4. PICK sign, whole, fraction : Numeral(token, sign, whole, fraction) BY NumeralParts
  <2>5. /\ sign \in 0 .. 1 /\ whole \in 1 .. Len(token) /\ sign + 1 <= whole
        /\ sign = 1 => token[1] = "-"
        /\ \A i \in sign + 1 .. whole : token[i] \in Digits
    BY <2>4 DEF Numeral
  <2>6. Len(token) \in Nat /\ Len(token) # 0 BY <2>2, <2>5
  <2>7. token[1] \in Digits \cup {"-"}
    <3>1. sign # 1 => 1 \in sign + 1 .. whole BY <2>5
    <3>2. QED BY <2>5, <3>1
  <2>8. QED BY <2>1, <2>3, <2>6, <2>7 DEF TextOk, Opening
<1>6. ASSUME NEW chars \in Strings, value = String(chars) PROVE TextOk(t)
  <2>1. t = EscapeString(chars) BY <1>1, <1>6 DEF String
  <2>2. QED BY <2>1, EscapedOk
<1>7. QED BY <1>3, <1>4, <1>5, <1>6 DEF Scalars, t

\* The items between the brackets.
ArrayItems(n, items, level, compact) ==
    [k \in DOMAIN items |-> Texts[n][<<items[k], level + 1, compact>>]]

ColonText(compact) == IF compact THEN <<Colon>> ELSE <<Colon, Blank>>

ObjectItems(n, members, level, compact) ==
    [k \in DOMAIN members |-> EscapeString(members[k][1]) \o ColonText(compact)
                                  \o Texts[n][<<members[k][2], level + 1, compact>>]]

ItemsOk(items) ==
    /\ items \in Seq(Seq(TextTokens))
    /\ \A k \in 1 .. Len(items) : TextOk(items[k])

\* The items of an array are written as texts of values,
LEMMA ArrayItemsOk ==
    ASSUME NEW n \in Nat, NEW level \in Nat, NEW compact \in BOOLEAN,
           \A value \in Documents[n] : TextOk(Texts[n][<<value, level + 1, compact>>]),
           NEW items \in Seq(Documents[n])
    PROVE  /\ ItemsOk(ArrayItems(n, items, level, compact))
           /\ Len(ArrayItems(n, items, level, compact)) = Len(items)
<1> DEFINE d == Documents[n]
           t(k) == Texts[n][<<items[k], level + 1, compact>>]
           s == [k \in DOMAIN items |-> t(k)]
           m == Len(items)
<1>1. DOMAIN items = 1 .. m /\ m \in Nat /\ \A k \in 1 .. m : items[k] \in d OBVIOUS
<1>2. \A k \in 1 .. m : TextOk(t(k)) BY <1>1
<1>3. ArrayItems(n, items, level, compact) = s BY DEF ArrayItems
<1> HIDE DEF t, m
<1>4. \A k \in 1 .. m : t(k) \in Seq(TextTokens) BY <1>2 DEF TextOk
<1>5. s \in Seq(Seq(TextTokens)) /\ Len(s) = m /\ \A k \in 1 .. m : s[k] = t(k)
  BY <1>1, <1>4
<1> HIDE DEF s
<1>6. QED BY <1>2, <1>3, <1>5 DEF ItemsOk, m

\* The three parts of a member's text.
LEMMA MemberText ==
    ASSUME NEW key \in MemberKeys, NEW compact \in BOOLEAN, NEW text, TextOk(text)
    PROVE  /\ TextOk(EscapeString(key) \o ColonText(compact) \o text)
           /\ ColonText(compact) \in Seq(TextTokens)
           /\ EscapeString(key) \o ColonText(compact) \in Seq(TextTokens)
           /\ (EscapeString(key) \o ColonText(compact) \o text)[1] = "quote"
           /\ Len(EscapeString(key) \o ColonText(compact) \o text)
                = Len(EscapeString(key)) + Len(ColonText(compact)) + Len(text)
<1> DEFINE e == EscapeString(key)
           c == ColonText(compact)
<1>1. e \in Seq(TextTokens) /\ Len(e) # 0 /\ e[1] = "quote" BY EscapedOk DEF TextOk
<1>2. c \in Seq(TextTokens)
  <2>1. Colon \in TextTokens /\ Blank \in TextTokens
    BY DEF TextTokens, Punctuation, Whitespace
  <2>2. QED BY <2>1 DEF ColonText
<1>3. text \in Seq(TextTokens) BY DEF TextOk
<1> HIDE DEF e, c
<1> DEFINE ec == e \o c
<1>4. /\ ec \in Seq(TextTokens) /\ Len(ec) = Len(e) + Len(c)
      /\ \A i \in 1 .. Len(e) : ec[i] = e[i]
  BY <1>1, <1>2, ConcatParts
<1> HIDE DEF ec
<1>5. /\ ec \o text \in Seq(TextTokens) /\ Len(ec \o text) = Len(ec) + Len(text)
      /\ \A i \in 1 .. Len(ec) : (ec \o text)[i] = ec[i]
  <2>1. ec \in Seq(TextTokens) BY <1>4
  <2>2. ec \o text \in Seq(TextTokens) BY <1>3, <2>1
  <2>3. QED BY <1>3, <2>1, <2>2, ConcatParts
<1>6. Len(e) \in Nat \ {0} /\ Len(c) \in Nat /\ Len(text) \in Nat BY <1>1, <1>2, <1>3
<1>7. 1 \in 1 .. Len(e) /\ 1 \in 1 .. Len(ec) BY <1>4, <1>6
<1> DEFINE t == ec \o text
<1>8. t[1] = "quote" BY <1>1, <1>4, <1>5, <1>7
<1>9. Len(t) = Len(e) + Len(c) + Len(text) /\ Len(t) # 0 BY <1>4, <1>5, <1>6
<1>10. t \in Seq(TextTokens) BY <1>5
<1> HIDE DEF t
<1>11. TextOk(t) BY <1>8, <1>9, <1>10 DEF TextOk, Opening
<1>12. QED BY <1>2, <1>4, <1>8, <1>9, <1>11 DEF t, ec, e, c

\* and the members of an object as a key, a colon and a text,
LEMMA ObjectItemsOk ==
    ASSUME NEW n \in Nat, NEW level \in Nat, NEW compact \in BOOLEAN,
           \A value \in Documents[n] : TextOk(Texts[n][<<value, level + 1, compact>>]),
           NEW members \in Seq(MemberKeys \X Documents[n])
    PROVE  /\ ItemsOk(ObjectItems(n, members, level, compact))
           /\ Len(ObjectItems(n, members, level, compact)) = Len(members)
<1> DEFINE d == Documents[n]
           x(k) == Texts[n][<<members[k][2], level + 1, compact>>]
           t(k) == EscapeString(members[k][1]) \o ColonText(compact) \o x(k)
           s == [k \in DOMAIN members |-> t(k)]
           m == Len(members)
<1>1. /\ DOMAIN members = 1 .. m /\ m \in Nat
      /\ \A k \in 1 .. m : members[k][1] \in MemberKeys /\ members[k][2] \in d
  <2>1. \A k \in 1 .. m : members[k] \in MemberKeys \X d OBVIOUS
  <2> HIDE DEF d
  <2>2. \A k \in 1 .. m : members[k][1] \in MemberKeys /\ members[k][2] \in d BY <2>1
  <2>3. QED BY <2>2
<1>2. \A k \in 1 .. m : TextOk(x(k)) BY <1>1
<1>3. \A k \in 1 .. m : TextOk(t(k))
  <2> HIDE DEF x
  <2>1. QED BY <1>1, <1>2, MemberText
<1>4. ObjectItems(n, members, level, compact) = s BY DEF ObjectItems
<1> HIDE DEF t, m
<1>5. \A k \in 1 .. m : t(k) \in Seq(TextTokens) BY <1>3 DEF TextOk
<1>6. s \in Seq(Seq(TextTokens)) /\ Len(s) = m /\ \A k \in 1 .. m : s[k] = t(k)
  <2>1. DOMAIN members = 1 .. m /\ m \in Nat BY <1>1
  <2>2. s = [k \in 1 .. m |-> t(k)] BY <2>1
  <2> HIDE DEF s
  <2>3. QED BY <1>5, <2>1, <2>2
<1> HIDE DEF s
<1>7. QED BY <1>3, <1>4, <1>6 DEF ItemsOk, m

\* Brackets around items.
LEMMA BracketedOk ==
    ASSUME NEW open \in {OpenBracket, OpenBrace}, NEW close \in {CloseBracket, CloseBrace},
           NEW items, ItemsOk(items), NEW level \in Nat, NEW compact \in BOOLEAN
    PROVE  TextOk(Bracketed(open, items, level, compact, close))
<1>1. open \in TextTokens /\ open \in Opening /\ close \in TextTokens /\ Comma \in TextTokens
  BY DEF TextTokens, Opening, Punctuation
<1>2. CASE items = <<>>
  <2>1. Bracketed(open, items, level, compact, close) = <<open, close>>
    BY <1>2 DEF Bracketed
  <2>2. QED BY <1>1, <2>1 DEF TextOk
<1>3. CASE items # <<>>
  <2>1. items \in Seq(Seq(TextTokens)) /\ Whitespace \subseteq TextTokens
    BY DEF ItemsOk, TextTokens
  <2> DEFINE s == Bracketed(open, items, level, compact, close)
  <2>2. s \in Seq(TextTokens) /\ \E begin : Laid(s, begin, items, open, close)
    BY <1>1, <1>3, <2>1, BracketedLaid
  <2>3. PICK begin : Laid(s, begin, items, open, close) BY <2>2
  <2> HIDE DEF s
  <2>4. /\ s[1] = open
        /\ \A k \in 1 .. Len(items) : begin[k] > 1 /\ begin[k] + Len(items[k]) <= Len(s)
    BY <2>3 DEF Laid
  <2>5. Len(s) # 0
    <3>1. Len(items) \in Nat \ {0} BY <1>3, <2>1
    <3>2. 1 \in 1 .. Len(items) /\ items[1] \in Seq(TextTokens) BY <2>1, <3>1
    <3>3. begin[1] \in Nat BY <2>3, <3>2 DEF Laid
    <3>4. begin[1] > 1 /\ begin[1] + Len(items[1]) <= Len(s) /\ Len(items[1]) \in Nat
      BY <2>4, <3>2
    <3>5. Len(s) \in Nat BY <2>2
    <3>6. QED BY <3>3, <3>4, <3>5
  <2>6. QED BY <1>1, <2>2, <2>4, <2>5 DEF TextOk, s
<1>4. QED BY <1>2, <1>3

\* so the text of every document is one.
LEMMA TextsAreOk ==
    ASSUME NEW n \in Nat
    PROVE  \A value \in Documents[n], level \in Nat, compact \in BOOLEAN :
               TextOk(Texts[n][<<value, level, compact>>])
<1> DEFINE Good(j) == \A value \in Documents[j], level \in Nat, compact \in BOOLEAN :
                          TextOk(Texts[j][<<value, level, compact>>])
           N == {j \in Nat : Good(j)}
<1>1. 0 \in N
  <2>1. Good(0) BY ScalarText, DocumentsAre
  <2> HIDE DEF Good
  <2>2. QED BY <2>1
<1>2. ASSUME NEW j \in N PROVE j + 1 \in N
  <2>1. j \in Nat /\ Good(j) OBVIOUS
  <2>2. ASSUME NEW value \in Documents[j + 1], NEW level \in Nat, NEW compact \in BOOLEAN
        PROVE  TextOk(Texts[j + 1][<<value, level, compact>>])
    <3> DEFINE d == Documents[j]
               t == Texts[j + 1][<<value, level, compact>>]
    <3>1. Documents[j + 1] = Scalars \cup {v \in Containers(d) : HasKeysOnce(v)}
      BY <2>1, DocumentsAre
    <3>2. \A v \in d : TextOk(Texts[j][<<v, level + 1, compact>>])
      <4>1. level + 1 \in Nat OBVIOUS
      <4>2. QED BY <2>1, <4>1
    <3>3. CASE value \in Scalars
      <4>1. j + 1 \in Nat BY <2>1
      <4>2. QED BY <3>3, <4>1, ScalarText
    <3>4. ASSUME NEW items \in Seq(d), value = Array(items) PROVE TextOk(t)
      <4>1. ItemsOk(ArrayItems(j, items, level, compact)) BY <2>1, <3>2, ArrayItemsOk
      <4>2. t = Bracketed(OpenBracket, ArrayItems(j, items, level, compact), level, compact,
                          CloseBracket)
        BY <2>1, <3>4, TextIs, ZenonT(30) DEF ArrayItems
      <4>3. QED BY <4>1, <4>2, BracketedOk
    <3>5. ASSUME NEW members \in Seq(MemberKeys \X d), value = Object(members) PROVE TextOk(t)
      <4>1. ItemsOk(ObjectItems(j, members, level, compact)) BY <2>1, <3>2, ObjectItemsOk
      <4>2. t = Bracketed(OpenBrace, ObjectItems(j, members, level, compact), level, compact,
                          CloseBrace)
        BY <2>1, <3>5, TextIs, ZenonT(30) DEF ObjectItems, ColonText
      <4>3. QED BY <4>1, <4>2, BracketedOk
    <3> HIDE DEF d
    <3>6. value \in Containers(d) =>
            \/ \E items \in Seq(d) : value = Array(items)
            \/ \E members \in Seq(MemberKeys \X d) : value = Object(members)
      BY ContainersAre
    <3> HIDE DEF t
    <3>7. value \in Scalars \/ value \in Containers(d) BY <3>1
    <3>8. TextOk(t) BY <3>3, <3>4, <3>5, <3>6, <3>7 DEF t
    <3>9. QED BY <3>8 DEF t
  <2>3. Good(j + 1) BY <2>2
  <2> HIDE DEF Good
  <2>4. QED BY <2>1, <2>3
<1> HIDE DEF Good
<1>3. N = Nat BY <1>1, <1>2, NatSetInduction
<1>4. Good(n) BY <1>3
<1>5. QED BY <1>4 DEF Good

-----------------------------------------------------------------------------
(* Members added one after the other.                                      *)

\* SetAll is one Set after the other (json.cpp:234-271).
LEMMA SetAllIs ==
    ASSUME NEW members, Len(members) \in Nat, NEW w, w[0] = Object(<<>>),
           \A k \in 1 .. Len(members) : w[k] = Set(w[k - 1], members[k][1], members[k][2])
    PROVE  SetAll(members) = w[Len(members)]
<1> DEFINE n == Len(members)
           Is(f) == f = [k \in 0 .. n |-> IF k = 0 THEN Object(<<>>)
                                          ELSE Set(f[k - 1], members[k][1], members[k][2])]
           kept == CHOOSE f : Is(f)
           g == [k \in 0 .. n |-> w[k]]
<1>1. SetAll(members) = kept[n] BY DEF SetAll
<1>2. Is(g)
  <2>1. \A k \in 0 .. n : g[k] = w[k] OBVIOUS
  <2>2. \A k \in 0 .. n : k # 0 => k - 1 \in 0 .. n /\ k \in 1 .. n OBVIOUS
  <2>3. g = [k \in 0 .. n |-> g[k]] OBVIOUS
  <2> HIDE DEF g
  <2>4. \A k \in 0 .. n : g[k] = IF k = 0 THEN Object(<<>>)
                                 ELSE Set(g[k - 1], members[k][1], members[k][2])
    BY <2>1, <2>2
  <2>5. QED BY <2>3, <2>4
<1> HIDE DEF g
<1>3. Is(kept)
  <2> HIDE DEF Is
  <2>1. QED BY <1>2
<1> HIDE DEF kept
<1> DEFINE Same(k) == k <= n => kept[k] = w[k]
           N == {k \in Nat : Same(k)}
<1>4. 0 \in N
  <2>1. 0 \in 0 .. n OBVIOUS
  <2>2. kept[0] = w[0] BY <1>3, <2>1
  <2>3. QED BY <2>2
<1>5. ASSUME NEW k \in N PROVE k + 1 \in N
  <2>1. ASSUME k + 1 <= n PROVE kept[k + 1] = w[k + 1]
    <3> DEFINE j == k + 1
    <3>1. j \in 0 .. n /\ j # 0 /\ j - 1 = k /\ j \in 1 .. n BY <2>1
    <3>2. kept[k] = w[k] BY <2>1
    <3> HIDE DEF j, N, Same
    <3>3. kept[j] = Set(kept[j - 1], members[j][1], members[j][2]) BY <1>3, <3>1
    <3>4. kept[j] = w[j] BY <3>1, <3>2, <3>3
    <3>5. QED BY <3>4 DEF j
  <2>2. QED BY <2>1
<1> HIDE DEF Same
<1>6. N = Nat BY <1>4, <1>5, NatSetInduction
<1>7. Same(n) BY <1>6
<1>8. QED BY <1>1, <1>7 DEF Same

\* The first k of a sequence.
Beginning(s, k) == [i \in 1 .. k |-> s[i]]

\* A beginning and the next element are the next beginning.
LEMMA PrefixGrows ==
    ASSUME NEW S, NEW s \in Seq(S), NEW k \in 1 .. Len(s)
    PROVE  Append(Beginning(s, k - 1), s[k]) = Beginning(s, k)
<1> DEFINE p == Beginning(s, k - 1)
           q == Beginning(s, k)
<1>1. /\ p \in Seq(S) /\ Len(p) = k - 1
      /\ \A i \in 1 .. k - 1 : p[i] = s[i]
  BY DEF Beginning
<1>2. q \in Seq(S) /\ Len(q) = k /\ \A i \in 1 .. k : q[i] = s[i] BY DEF Beginning
<1>3. s[k] \in S OBVIOUS
<1> HIDE DEF p, q
<1> DEFINE a == Append(p, s[k])
<1>4. /\ a \in Seq(S) /\ Len(a) = k
      /\ \A i \in 1 .. k : a[i] = IF i = k THEN s[k] ELSE p[i]
  BY <1>1, <1>3
<1> HIDE DEF a
<1>5. \A i \in 1 .. k : a[i] = q[i] BY <1>1, <1>2, <1>4
<1>6. a = q BY <1>2, <1>4, <1>5, SameSequence
<1>7. QED BY <1>6 DEF a, p, q

LEMMA KeysOnce ==
    ASSUME NEW members, HasKeysOnce(Object(members))
    PROVE  \A i, j \in DOMAIN members : members[i][1] = members[j][1] => i = j
<1> DEFINE o == Object(members)
<1>1. o.type = "object" /\ o.object = members BY TypesDiffer
<1> HIDE DEF o
<1>2. HasKeysOnce(o) BY DEF o
<1>3. QED BY <1>1, <1>2 DEF HasKeysOnce

\* Set adds a key that is not there yet at the end (json.cpp:514-530).
LEMMA NewKeyIsAdded ==
    ASSUME NEW S, NEW members \in Seq(S), HasKeysOnce(Object(members)),
           NEW k \in 1 .. Len(members), members[k] = <<members[k][1], members[k][2]>>
    PROVE  Set(Object(Beginning(members, k - 1)), members[k][1], members[k][2])
             = Object(Beginning(members, k))
<1> DEFINE p == Beginning(members, k - 1)
           n == Len(members)
<1>1. \A i, j \in 1 .. n : members[i][1] = members[j][1] => i = j
  <2>1. DOMAIN members = 1 .. n OBVIOUS
  <2>2. QED BY <2>1, KeysOnce
<1>2. Position(p, members[k][1]) = {}
  <2>1. ASSUME NEW i \in 1 .. k - 1 PROVE p[i][1] # members[k][1]
    <3>1. p[i] = members[i] /\ i \in 1 .. n /\ i # k BY DEF Beginning
    <3> HIDE DEF p
    <3>2. QED BY <1>1, <3>1
  <2>2. DOMAIN p = 1 .. k - 1 BY DEF Beginning
  <2> HIDE DEF p
  <2>3. QED BY <2>1, <2>2 DEF Position
<1>3. Append(p, members[k]) = Beginning(members, k) BY PrefixGrows
<1> HIDE DEF p
<1>4. Object(p).type = "object" /\ Object(p).object = p BY TypesDiffer
<1>5. Set(Object(p), members[k][1], members[k][2])
        = Object(Append(p, <<members[k][1], members[k][2]>>))
  BY <1>2, <1>4 DEF Set
<1>6. QED BY <1>3, <1>5 DEF p

\* Members whose keys differ stay as they are.
LEMMA SetAllKeeps ==
    ASSUME NEW K, NEW V, NEW members \in Seq(K \X V), HasKeysOnce(Object(members))
    PROVE  SetAll(members) = Object(members)
<1> DEFINE n == Len(members)
           w == [k \in 0 .. n |-> Object(Beginning(members, k))]
<1>1. n \in Nat OBVIOUS
<1>2. w[0] = Object(<<>>)
  <2>1. 0 \in 0 .. n /\ Beginning(members, 0) = <<>> BY DEF Beginning
  <2>2. QED BY <2>1
<1>3. ASSUME NEW k \in 1 .. n PROVE w[k] = Set(w[k - 1], members[k][1], members[k][2])
  <2>1. k \in 0 .. n /\ k - 1 \in 0 .. n OBVIOUS
  <2>2. w[k] = Object(Beginning(members, k)) /\ w[k - 1] = Object(Beginning(members, k - 1))
    BY <2>1
  <2> HIDE DEF w
  <2>3. members[k] = <<members[k][1], members[k][2]>>
    <3>1. members[k] \in K \X V OBVIOUS
    <3>2. QED BY <3>1
  <2>4. QED BY <2>2, <2>3, NewKeyIsAdded
<1>4. Beginning(members, n) = members BY DEF Beginning
<1>5. w[n] = Object(members)
  <2>1. n \in 0 .. n BY <1>1
  <2>2. w[n] = Object(Beginning(members, n)) BY <2>1
  <2>3. QED BY <1>4, <2>2
<1> HIDE DEF w
<1>6. SetAll(members) = w[n] BY <1>1, <1>2, <1>3, SetAllIs
<1>7. QED BY <1>5, <1>6

\* A key that comes again takes the place of the first.
Replaced(members, k, member) == [members EXCEPT ![k] = member]

\* A member that takes the place of one of the members.
Replaces(members, k, member) ==
    \E K, V : /\ members \in Seq(K \X V) /\ HasKeysOnce(Object(members))
              /\ k \in 1 .. Len(members) /\ member \in K \X V
              /\ member[1] = members[k][1]

\* A last member with an earlier key replaces that one in place.
LEMMA SetAllReplaces ==
    ASSUME NEW members, NEW k, NEW member, Replaces(members, k, member)
    PROVE  SetAll(Append(members, member)) = Object(Replaced(members, k, member))
<1>0. PICK K, V : /\ members \in Seq(K \X V) /\ HasKeysOnce(Object(members))
                  /\ k \in 1 .. Len(members) /\ member \in K \X V
                  /\ member[1] = members[k][1]
  BY DEF Replaces
<1> DEFINE more == Append(members, member)
<1> DEFINE n == Len(members)
           last == Object([members EXCEPT ![k] = member])
           w == [j \in 0 .. n + 1 |-> IF j = n + 1 THEN last
                                      ELSE Object(Beginning(members, j))]
<1>1. n \in Nat /\ DOMAIN members = 1 .. n BY <1>0
<1>2. member \in K \X V /\ member[1] = members[k][1] /\ member = <<member[1], member[2]>>
  BY <1>0
<1>3. Len(more) = n + 1 /\ more[n + 1] = member /\ \A i \in 1 .. n : more[i] = members[i]
  BY <1>2
<1>4. w[0] = Object(<<>>)
  <2>1. 0 \in 0 .. n + 1 /\ 0 # n + 1 /\ Beginning(members, 0) = <<>> BY <1>1 DEF Beginning
  <2> HIDE DEF last
  <2>2. QED BY <2>1
<1>5. ASSUME NEW j \in 1 .. n PROVE w[j] = Object(Beginning(members, j))
  <2>1. j \in 0 .. n + 1 /\ j # n + 1 BY <1>1
  <2> HIDE DEF last
  <2>2. QED BY <2>1
<1>6. w[n + 1] = last BY <1>1
<1>7. w[n] = Object(members)
  <2>1. n \in 1 .. n BY <1>0, <1>1
  <2>2. Beginning(members, n) = members BY <1>0 DEF Beginning
  <2> HIDE DEF w
  <2>3. QED BY <1>5, <2>1, <2>2
<1>8. ASSUME NEW j \in 1 .. n PROVE w[j] = Set(w[j - 1], more[j][1], more[j][2])
  <2>1. w[j - 1] = Object(Beginning(members, j - 1))
    <3>1. CASE j = 1
      <4>1. j - 1 = 0 /\ Beginning(members, 0) = <<>> BY <3>1 DEF Beginning
      <4> HIDE DEF w
      <4>2. QED BY <1>4, <4>1
    <3>2. CASE j # 1
      <4>1. j - 1 \in 1 .. n BY <3>2
      <4> HIDE DEF w
      <4>2. QED BY <1>5, <4>1
    <3>3. QED BY <3>1, <3>2
  <2> HIDE DEF w
  <2>2. more[j] = members[j] BY <1>3
  <2>3. members[j] = <<members[j][1], members[j][2]>>
    <3>1. members[j] \in K \X V BY <1>0
    <3>2. QED BY <3>1
  <2>4. QED BY <1>0, <1>5, <2>1, <2>2, <2>3, NewKeyIsAdded
<1>9. w[n + 1] = Set(w[n], more[n + 1][1], more[n + 1][2])
  <2>1. more[n + 1][1] = members[k][1] /\ more[n + 1][2] = member[2] BY <1>2, <1>3
  <2>2. k \in Position(members, members[k][1]) BY <1>0 DEF Position
  <2> DEFINE changed == [i \in DOMAIN members |->
                            IF members[i][1] = members[k][1]
                            THEN <<members[k][1], member[2]>> ELSE members[i]]
  <2>3. Set(Object(members), members[k][1], member[2]) = Object(changed)
    <3>1. Object(members).type = "object" /\ Object(members).object = members
      BY TypesDiffer
    <3>2. QED BY <2>2, <3>1 DEF Set
  <2>4. changed = [members EXCEPT ![k] = member]
    <3>1. \A i, j \in 1 .. n : members[i][1] = members[j][1] => i = j
      BY <1>0, <1>1, KeysOnce
    <3>2. \A i \in 1 .. n : members[i][1] = members[k][1] <=> i = k BY <1>0, <3>1
    <3>3. QED BY <1>1, <1>2, <3>2
  <2> HIDE DEF w, changed
  <2>5. QED BY <1>6, <1>7, <2>1, <2>3, <2>4
<1>10. SetAll(more) = w[n + 1]
  <2> HIDE DEF w
  <2>1. ASSUME NEW j \in 1 .. n + 1 PROVE w[j] = Set(w[j - 1], more[j][1], more[j][2])
    <3>1. CASE j = n + 1
      <4>1. (n + 1) - 1 = n BY <1>1
      <4>2. QED BY <1>9, <3>1, <4>1
    <3>2. CASE j # n + 1
      <4>1. j \in 1 .. n BY <1>1, <3>2
      <4>2. QED BY <1>8, <4>1
    <3>3. QED BY <3>1, <3>2
  <2>2. Len(more) = n + 1 /\ n + 1 \in Nat BY <1>1, <1>3
  <2> HIDE DEF n
  <2>3. QED BY <1>4, <2>1, <2>2, SetAllIs
<1>11. last = Object(Replaced(members, k, member)) BY DEF Replaced
<1>12. QED BY <1>6, <1>10, <1>11


-----------------------------------------------------------------------------
(* The reader goes forward, so that there is such a reader.                *)

\* It fails or stands at a place from low to high.
Outcome(r, low, high) ==
    r = Failed \/ \E value : \E p \in low .. high : r = Got(value, p)

LEMMA OutcomeIs ==
    ASSUME NEW r, NEW low \in Int, NEW high \in Int, Outcome(r, low, high)
    PROVE  /\ r.ok \in BOOLEAN
           /\ r.ok => r.pos \in low .. high
           /\ ~r.ok => r = Failed
<1>1. CASE r = Failed BY <1>1 DEF Failed
<1>2. ASSUME NEW value, NEW p \in low .. high, r = Got(value, p)
      PROVE  r.ok = TRUE /\ r.pos = p
  BY <1>2 DEF Got
<1>3. QED BY <1>1, <1>2 DEF Outcome

LEMMA OutcomeWider ==
    ASSUME NEW r, NEW low \in Int, NEW high \in Int, Outcome(r, low, high),
           NEW lower \in Int, lower <= low
    PROVE  Outcome(r, lower, high)
<1>1. low .. high \subseteq lower .. high OBVIOUS
<1>2. QED BY <1>1 DEF Outcome

LEMMA OutcomeGot ==
    ASSUME NEW value, NEW low \in Int, NEW high \in Int, NEW p \in low .. high
    PROVE  Outcome(Got(value, p), low, high)
BY DEF Outcome

LEMMA OutcomePrefixed ==
    ASSUME NEW rest, NEW next, NEW low \in Int, NEW high \in Int,
           Outcome(rest[next], low, high), NEW chars
    PROVE  Outcome(Prefixed(chars, rest, next), low, high)
<1>1. CASE rest[next] = Failed
  <2>1. ~rest[next].ok BY <1>1 DEF Failed
  <2>2. QED BY <2>1 DEF Prefixed, Outcome
<1>2. ASSUME NEW value, NEW p \in low .. high, rest[next] = Got(value, p)
      PROVE  Outcome(Prefixed(chars, rest, next), low, high)
  <2>1. rest[next].ok /\ rest[next].pos = p BY <1>2 DEF Got
  <2>2. Prefixed(chars, rest, next) = Got(chars \o rest[next].value, p)
    BY <2>1 DEF Prefixed
  <2>3. QED BY <2>2, OutcomeGot
<1>3. QED BY <1>1, <1>2 DEF Outcome

\* Reading goes forward: a turn of a string ends behind its place, inside the text,
LEMMA TurnInside ==
    ASSUME NEW T, NEW text \in Seq(T), NEW pos \in 1 .. Len(text) + 1, NEW from,
           \A q \in pos + 1 .. Len(text) + 1 : Outcome(from[q], q + 1, Len(text) + 1)
    PROVE  Outcome(ReadFrom(text, pos, from), pos + 1, Len(text) + 1)
<1> DEFINE high == Len(text) + 1
           In(q) == \A chars : Outcome(Prefixed(chars, from, q), pos + 1, high)
<1>0. high \in Nat OBVIOUS
<1>1. ASSUME NEW q \in pos + 1 .. high PROVE In(q)
  <2>1. Outcome(from[q], q + 1, high) OBVIOUS
  <2> HIDE DEF high
  <2>2. Outcome(from[q], pos + 1, high) BY <1>0, <2>1, OutcomeWider
  <2>3. QED BY <1>0, <2>2, OutcomePrefixed
<1>2. /\ At(text, pos) # "end" => pos + 1 \in pos + 1 .. high
      /\ At(text, pos + 1) # "end" => pos + 2 \in pos + 1 .. high
      /\ At(text, pos + 2) # "end" => pos + 3 \in pos + 1 .. high
      /\ At(text, pos + 5) # "end" => pos + 6 \in pos + 1 .. high
  BY AtEnds
<1> HIDE DEF high, In
<1>3. /\ At(text, pos) # "end" => In(pos + 1)
      /\ At(text, pos + 1) # "end" => In(pos + 2)
      /\ At(text, pos + 2) # "end" => In(pos + 3)
      /\ At(text, pos + 5) # "end" => In(pos + 6)
  BY <1>1, <1>2
<1>4. "end" \notin DOMAIN Unescaped /\ "end" \notin DOMAIN HexChar
  BY SpecialsDiffer DEF Unescaped, HexChar
<1>5. Outcome(Failed, pos + 1, high) BY DEF Outcome
<1> DEFINE e == ReadEscape(text, pos, from)
<1>6. Outcome(e, pos + 1, high)
  <2>1. CASE At(text, pos + 1) \in DOMAIN Unescaped
    <3>1. e = Prefixed(<<Unescaped[At(text, pos + 1)]>>, from, pos + 2)
            \/ At(text, pos + 1) = "u"
      BY <2>1 DEF ReadEscape
    <3>2. "u" \notin DOMAIN Unescaped BY SpecialsDiffer DEF Unescaped
    <3>3. At(text, pos + 1) # "end" BY <1>4, <2>1
    <3>4. QED BY <1>3, <2>1, <3>1, <3>2, <3>3 DEF In
  <2>2. CASE At(text, pos + 1) = "u" /\ At(text, pos + 2) = "hexHigh"
    <3>1. "u" \notin DOMAIN Unescaped BY SpecialsDiffer DEF Unescaped
    <3>2. e = IF /\ At(text, pos + 3) = Backslash /\ At(text, pos + 4) = "u"
                 /\ At(text, pos + 5) = "hexLow"
              THEN Prefixed(<<"high", "low">>, from, pos + 6) ELSE Failed
      BY <2>2, <3>1 DEF ReadEscape
    <3>3. QED BY <1>3, <1>5, <3>2 DEF In
  <2>3. CASE At(text, pos + 1) = "u" /\ At(text, pos + 2) \in DOMAIN HexChar \ {"hexHigh"}
    <3>1. "u" \notin DOMAIN Unescaped BY SpecialsDiffer DEF Unescaped
    <3>2. e = Prefixed(<<HexChar[At(text, pos + 2)]>>, from, pos + 3)
      BY <2>3, <3>1 DEF ReadEscape
    <3>3. At(text, pos + 2) # "end" BY <1>4, <2>3
    <3>4. QED BY <1>3, <3>2, <3>3 DEF In
  <2>4. CASE /\ At(text, pos + 1) \notin DOMAIN Unescaped
             /\ ~(At(text, pos + 1) = "u" /\ At(text, pos + 2) = "hexHigh")
             /\ ~(At(text, pos + 1) = "u" /\ At(text, pos + 2) \in DOMAIN HexChar \ {"hexHigh"})
    <3>1. e = Failed BY <2>4 DEF ReadEscape
    <3>2. QED BY <1>5, <3>1
  <2>5. QED BY <2>1, <2>2, <2>3, <2>4
<1> HIDE DEF e
<1> DEFINE c == At(text, pos)
<1>7. CASE c = "end"
  <2>1. ReadFrom(text, pos, from) = Failed BY <1>7, SpecialsDiffer DEF ReadFrom
  <2>2. QED BY <1>5, <2>1 DEF high
<1>8. CASE c = "quote"
  <2>1. ReadFrom(text, pos, from) = Got(<<>>, pos + 1) BY <1>8, TurnEnds
  <2>2. pos + 1 \in pos + 1 .. high BY <1>2, <1>8
  <2>3. QED BY <1>0, <2>1, <2>2, OutcomeGot DEF high
<1>9. CASE c = Backslash
  <2>1. ReadFrom(text, pos, from) = e BY <1>9, SpecialsDiffer DEF ReadFrom, e
  <2>2. QED BY <1>6, <2>1 DEF high
<1>10. CASE c \notin {"end", "quote", Backslash}
  <2>1. ReadFrom(text, pos, from) = Prefixed(<<c>>, from, pos + 1) BY <1>10 DEF ReadFrom
  <2>2. QED BY <1>3, <1>10, <2>1 DEF In, high
<1>11. QED BY <1>7, <1>8, <1>9, <1>10

\* so does a string,
LEMMA StringInside ==
    ASSUME NEW T, NEW text \in Seq(T), NEW pos \in 1 .. Len(text) + 1
    PROVE  Outcome(ParseString(text, pos), pos + 1, Len(text) + 1)
<1> DEFINE n == Len(text)
<1>0. n \in Nat OBVIOUS
<1>1. PICK from :
        /\ \A q \in 1 .. n + 1 : from[q] = ReadFrom(text, q, from)
        /\ \A start : StringFrom(text, start) = from[start]
  BY StringFromIs
<1> HIDE DEF n
<1> DEFINE In(m) == \A q \in 1 .. n + 1 : q > n + 1 - m => Outcome(from[q], q + 1, n + 1)
           N == {m \in Nat : In(m)}
<1>2. 0 \in N
  <2>1. \A q \in 1 .. n + 1 : ~(q > n + 1 - 0) BY <1>0
  <2>2. QED BY <2>1
<1>3. ASSUME NEW m \in N PROVE m + 1 \in N
  <2>1. m \in Nat /\ In(m) OBVIOUS
  <2>2. ASSUME NEW q \in 1 .. n + 1, q > n + 1 - (m + 1)
        PROVE  Outcome(from[q], q + 1, n + 1)
    <3>1. ASSUME NEW x \in q + 1 .. n + 1 PROVE Outcome(from[x], x + 1, n + 1)
      <4>1. x \in 1 .. n + 1 /\ x > n + 1 - m BY <1>0, <2>1, <2>2
      <4>2. QED BY <2>1, <4>1
    <3>2. Outcome(ReadFrom(text, q, from), q + 1, n + 1) BY <3>1, TurnInside DEF n
    <3>3. QED BY <1>1, <3>2
  <2>3. In(m + 1) BY <2>2
  <2> HIDE DEF In
  <2>4. QED BY <2>1, <2>3
<1> HIDE DEF In
<1>4. N = Nat BY <1>2, <1>3, NatSetInduction
<1>5. In(n + 1) BY <1>0, <1>4
<1>6. CASE At(text, pos) = "quote"
  <2>1. pos + 1 \in 1 .. n + 1 /\ n + 1 \in Nat
    <3>1. pos \in 1 .. n BY <1>6, AtEnds DEF n
    <3>2. QED BY <1>0, <3>1
  <2>2. pos + 1 > n + 1 - (n + 1) BY <1>0, <2>1
  <2>3. Outcome(from[pos + 1], pos + 1 + 1, n + 1) BY <1>5, <2>1, <2>2 DEF In
  <2>4. Outcome(from[pos + 1], pos + 1, n + 1) BY <2>1, <2>3, OutcomeWider
  <2>5. QED BY <1>1, <1>6, <2>4 DEF ParseString, n
<1>7. CASE At(text, pos) # "quote" BY <1>7 DEF ParseString, Outcome
<1>8. QED BY <1>6, <1>7

\* and a number.
LEMMA NumberInside ==
    ASSUME NEW T, NEW text \in Seq(T), NEW pos \in 1 .. Len(text) + 1,
           At(text, pos) \in Digits \cup {"-"}
    PROVE  Outcome(ParseNumber(text, pos), pos + 1, Len(text) + 1)
<1> DEFINE high == Len(text) + 1
<1>0. high \in Nat OBVIOUS
<1>1. \A q \in 1 .. high : At(text, q) # "end" => q + 1 \in 1 .. high BY AtEnds
<1>2. \A q \in 1 .. high :
        /\ Past(text, q, Digits) \in q .. high
        /\ At(text, q) \in Digits => Past(text, q, Digits) # q
  BY WordsDiffer, PastStops
<1>3. At(text, pos) # "end" BY WordsDiffer
<1> HIDE DEF high
<1> DEFINE signed == IF At(text, pos) = "-" THEN pos + 1 ELSE pos
           whole == Past(text, signed, Digits)
           point == IF At(text, whole) = "." THEN whole + 1 ELSE whole
           fraction == IF point = whole THEN whole ELSE Past(text, point, Digits)
           exponent == IF At(text, fraction) = "e" THEN fraction + 1 ELSE fraction
           sign == IF exponent # fraction /\ At(text, exponent) \in {"+", "-"}
                   THEN exponent + 1 ELSE exponent
           end == IF exponent = fraction THEN fraction ELSE Past(text, sign, Digits)
<1>4. pos \in 1 .. high /\ signed \in pos .. high BY <1>0, <1>1, <1>3 DEF high
<1>5. signed \in 1 .. high /\ (signed = pos => At(text, signed) \in Digits) BY <1>0, <1>4
<1> HIDE DEF signed
<1>6. whole \in pos + 1 .. high
  <2>1. whole \in signed .. high /\ (At(text, signed) \in Digits => whole # signed)
    BY <1>2, <1>5
  <2> HIDE DEF whole
  <2>2. QED BY <1>0, <1>4, <1>5, <2>1
<1> HIDE DEF whole
<1>7. point \in pos + 1 .. high BY <1>0, <1>1, <1>4, <1>6
<1> HIDE DEF point
<1>8. fraction \in pos + 1 .. high
  <2>1. point \in 1 .. high BY <1>0, <1>4, <1>7
  <2>2. Past(text, point, Digits) \in point .. high BY <1>2, <2>1
  <2> DEFINE p == Past(text, point, Digits)
  <2> HIDE DEF p
  <2>3. p \in pos + 1 .. high BY <1>0, <1>4, <1>7, <2>2 DEF p
  <2>4. QED BY <1>6, <2>3 DEF p
<1> HIDE DEF fraction
<1>9. exponent \in pos + 1 .. high BY <1>0, <1>1, <1>4, <1>8
<1> HIDE DEF exponent
<1>10. sign \in pos + 1 .. high BY <1>0, <1>1, <1>4, <1>9
<1> HIDE DEF sign
<1>11. end \in pos + 1 .. high
  <2>1. sign \in 1 .. high BY <1>0, <1>4, <1>10
  <2>2. Past(text, sign, Digits) \in sign .. high BY <1>2, <2>1
  <2> DEFINE p == Past(text, sign, Digits)
  <2> HIDE DEF p
  <2>3. p \in pos + 1 .. high BY <1>0, <1>4, <1>10, <2>2 DEF p
  <2>4. QED BY <1>8, <2>3 DEF p
<1> HIDE DEF end
<1>12. ParseNumber(text, pos) =
         IF whole = signed /\ fraction = point THEN Failed
         ELSE Got(Number(SubSeq(text, pos, end - 1)), end)
  <2>1. NumberBy(text, pos, signed, whole, point, fraction, exponent, sign, end)
    BY DEF NumberBy, signed, whole, point, fraction, exponent, sign, end
  <2>2. QED BY <2>1, WordsDiffer, ParseNumberIs
<1>13. Outcome(Got(Number(SubSeq(text, pos, end - 1)), end), pos + 1, high)
  BY <1>0, <1>4, <1>11, OutcomeGot
<1>14. Outcome(Failed, pos + 1, high) BY DEF Outcome
<1>15. QED BY <1>12, <1>13, <1>14 DEF high

Places(text) == {"items", "members"} \X (1 .. Len(text) + 1) \X (1 .. kMaxNestingDepth)

\* Two readers that agree, and go forward, behind a place.
Ahead(text, f, g, pos) ==
    \A place \in Places(text) :
        place[2] > pos => /\ f[place] = g[place]
                          /\ Outcome(f[place], place[2] + 1, Len(text) + 1)

LEMMA AheadAt ==
    ASSUME NEW text, NEW f, NEW g, NEW pos \in Int, Ahead(text, f, g, pos),
           NEW kind \in {"items", "members"}, NEW p \in 1 .. Len(text) + 1, p > pos,
           NEW depth \in 1 .. kMaxNestingDepth
    PROVE  /\ f[<<kind, p, depth>>] = g[<<kind, p, depth>>]
           /\ Outcome(f[<<kind, p, depth>>], p + 1, Len(text) + 1)
<1> DEFINE place == <<kind, p, depth>>
<1>1. place \in Places(text) /\ place[2] = p BY DEF Places
<1> HIDE DEF place
<1>2. f[place] = g[place] /\ Outcome(f[place], place[2] + 1, Len(text) + 1)
  BY <1>1 DEF Ahead
<1>3. QED BY <1>1, <1>2 DEF place

LEMMA SkipInside ==
    ASSUME NEW T, NEW text \in Seq(T), NEW pos \in 1 .. Len(text) + 1
    PROVE  /\ SkipWhitespace(text, pos) \in pos .. Len(text) + 1
           /\ SkipWhitespace(text, pos) \in 1 .. Len(text) + 1
<1>1. Past(text, pos, Whitespace) \in pos .. Len(text) + 1 BY WordsDiffer, PastStops
<1>2. QED BY <1>1 DEF SkipWhitespace

\* What a container reads depends only on what its loop reads further on,
LEMMA ArrayLocal ==
    ASSUME NEW T, NEW text \in Seq(T), NEW f, NEW g, NEW pos \in 1 .. Len(text),
           NEW depth \in Nat \ {0}, Ahead(text, f, g, pos)
    PROVE  /\ ParseArray(text, pos, depth, f) = ParseArray(text, pos, depth, g)
           /\ Outcome(ParseArray(text, pos, depth, f), pos + 1, Len(text) + 1)
<1> DEFINE inside == SkipWhitespace(text, pos + 1)
           high == Len(text) + 1
           place == <<"items", inside, depth>>
<1>1. high \in Nat /\ inside \in pos + 1 .. high /\ inside \in 1 .. high
  <2>1. pos + 1 \in 1 .. Len(text) + 1 OBVIOUS
  <2>2. QED BY <2>1, SkipInside
<1>2. At(text, inside) # "end" => inside + 1 \in pos + 1 .. high BY <1>1, AtEnds
<1>3. ~TooDeep(depth) => f[place] = g[place] /\ Outcome(f[place], inside + 1, high)
  <2> SUFFICES ASSUME ~TooDeep(depth)
               PROVE  f[place] = g[place] /\ Outcome(f[place], inside + 1, high)
    OBVIOUS
  <2>1. depth \in 1 .. kMaxNestingDepth BY JsonAssumption DEF TooDeep
  <2>2. inside \in 1 .. Len(text) + 1 /\ inside > pos BY <1>1
  <2> HIDE DEF inside
  <2>3. QED BY <2>1, <2>2, AheadAt
<1> HIDE DEF inside, high, place
<1>4. /\ ParseArray(text, pos, depth, f) =
           IF TooDeep(depth) THEN Failed
           ELSE IF At(text, inside) = CloseBracket THEN Got(Array(<<>>), inside + 1)
           ELSE IF f[place].ok THEN Got(Array(f[place].value), f[place].pos) ELSE Failed
      /\ ParseArray(text, pos, depth, g) =
           IF TooDeep(depth) THEN Failed
           ELSE IF At(text, inside) = CloseBracket THEN Got(Array(<<>>), inside + 1)
           ELSE IF g[place].ok THEN Got(Array(g[place].value), g[place].pos) ELSE Failed
  BY DEF ParseArray, inside, place
<1>5. Outcome(Failed, pos + 1, high) BY DEF Outcome
<1>6. At(text, inside) = CloseBracket => Outcome(Got(Array(<<>>), inside + 1), pos + 1, high)
  <2>1. CloseBracket # "end" BY PunctuationIsNoWord DEF Punctuation, Words
  <2>2. QED BY <1>1, <1>2, <2>1, OutcomeGot
<1>7. ~TooDeep(depth) /\ f[place].ok
        => Outcome(Got(Array(f[place].value), f[place].pos), pos + 1, high)
  <2> SUFFICES ASSUME ~TooDeep(depth), f[place].ok
               PROVE  Outcome(Got(Array(f[place].value), f[place].pos), pos + 1, high)
    OBVIOUS
  <2>1. f[place].pos \in inside + 1 .. high BY <1>1, <1>3, OutcomeIs
  <2>2. f[place].pos \in pos + 1 .. high BY <1>1, <2>1
  <2>3. QED BY <1>1, <2>2, OutcomeGot
<1>8. QED BY <1>3, <1>4, <1>5, <1>6, <1>7 DEF high

LEMMA ObjectLocal ==
    ASSUME NEW T, NEW text \in Seq(T), NEW f, NEW g, NEW pos \in 1 .. Len(text),
           NEW depth \in Nat \ {0}, Ahead(text, f, g, pos)
    PROVE  /\ ParseObject(text, pos, depth, f) = ParseObject(text, pos, depth, g)
           /\ Outcome(ParseObject(text, pos, depth, f), pos + 1, Len(text) + 1)
<1> DEFINE inside == SkipWhitespace(text, pos + 1)
           high == Len(text) + 1
           place == <<"members", inside, depth>>
<1>1. high \in Nat /\ inside \in pos + 1 .. high /\ inside \in 1 .. high
  <2>1. pos + 1 \in 1 .. Len(text) + 1 OBVIOUS
  <2>2. QED BY <2>1, SkipInside
<1>2. At(text, inside) # "end" => inside + 1 \in pos + 1 .. high BY <1>1, AtEnds
<1>3. ~TooDeep(depth) => f[place] = g[place] /\ Outcome(f[place], inside + 1, high)
  <2> SUFFICES ASSUME ~TooDeep(depth)
               PROVE  f[place] = g[place] /\ Outcome(f[place], inside + 1, high)
    OBVIOUS
  <2>1. depth \in 1 .. kMaxNestingDepth BY JsonAssumption DEF TooDeep
  <2>2. inside \in 1 .. Len(text) + 1 /\ inside > pos BY <1>1
  <2> HIDE DEF inside
  <2>3. QED BY <2>1, <2>2, AheadAt
<1> HIDE DEF inside, high, place
<1>4. /\ ParseObject(text, pos, depth, f) =
           IF TooDeep(depth) THEN Failed
           ELSE IF At(text, inside) = CloseBrace THEN Got(Object(<<>>), inside + 1)
           ELSE IF f[place].ok THEN Got(SetAll(f[place].value), f[place].pos) ELSE Failed
      /\ ParseObject(text, pos, depth, g) =
           IF TooDeep(depth) THEN Failed
           ELSE IF At(text, inside) = CloseBrace THEN Got(Object(<<>>), inside + 1)
           ELSE IF g[place].ok THEN Got(SetAll(g[place].value), g[place].pos) ELSE Failed
  BY DEF ParseObject, inside, place
<1>5. Outcome(Failed, pos + 1, high) BY DEF Outcome
<1>6. At(text, inside) = CloseBrace => Outcome(Got(Object(<<>>), inside + 1), pos + 1, high)
  <2>1. CloseBrace # "end" BY PunctuationIsNoWord DEF Punctuation, Words
  <2>2. QED BY <1>1, <1>2, <2>1, OutcomeGot
<1>7. ~TooDeep(depth) /\ f[place].ok
        => Outcome(Got(SetAll(f[place].value), f[place].pos), pos + 1, high)
  <2> SUFFICES ASSUME ~TooDeep(depth), f[place].ok
               PROVE  Outcome(Got(SetAll(f[place].value), f[place].pos), pos + 1, high)
    OBVIOUS
  <2>1. f[place].pos \in inside + 1 .. high BY <1>1, <1>3, OutcomeIs
  <2>2. f[place].pos \in pos + 1 .. high BY <1>1, <2>1
  <2>3. QED BY <1>1, <2>2, OutcomeGot
<1>8. QED BY <1>3, <1>4, <1>5, <1>6, <1>7 DEF high

\* and so does what a value reads,
LEMMA ValueLocal ==
    ASSUME NEW T, NEW text \in Seq(T), NEW f, NEW g, NEW pos \in 1 .. Len(text) + 1,
           NEW depth \in Nat, Ahead(text, f, g, pos)
    PROVE  /\ ParseValue(text, pos, depth, f) = ParseValue(text, pos, depth, g)
           /\ Outcome(ParseValue(text, pos, depth, f), pos + 1, Len(text) + 1)
<1> DEFINE start == SkipWhitespace(text, pos)
           high == Len(text) + 1
           c == At(text, start)
           read == ParseString(text, start)
<1>1. high \in Nat /\ start \in pos .. high /\ start \in 1 .. high BY SkipInside
<1>2. Ahead(text, f, g, start) BY <1>1 DEF Ahead, Places
<1>3. c # "end" => start \in 1 .. Len(text) /\ start + 1 \in pos + 1 .. high
  BY <1>1, AtEnds
<1> HIDE DEF start, high
<1>4. Outcome(Failed, pos + 1, high) BY DEF Outcome
<1>5. \A r : Outcome(r, start + 1, high) => Outcome(r, pos + 1, high)
  BY <1>1, OutcomeWider
<1> DEFINE value(rest) == ParseValue(text, pos, depth, rest)
<1>6. ASSUME NEW rest
      PROVE  value(rest) =
               CASE c = OpenBrace -> ParseObject(text, start, depth + 1, rest)
                 [] c = OpenBracket -> ParseArray(text, start, depth + 1, rest)
                 [] c = "quote" ->
                       IF read.ok THEN Got(String(read.value), read.pos) ELSE Failed
                 [] c = "true" -> Got(Bool(TRUE), start + 1)
                 [] c = "false" -> Got(Bool(FALSE), start + 1)
                 [] c = "null" -> Got(Null, start + 1)
                 [] c \in Digits \cup {"-"} -> ParseNumber(text, start)
                 [] OTHER -> Failed
  BY DEF ParseValue, start
<1>7. /\ OpenBrace \notin {OpenBracket, "end"} \cup Words \cup Digits
      /\ OpenBracket \notin Words \cup Digits
      /\ {"quote", "true", "false", "null", "end"} \cap (Digits \cup {"-"}) = {}
  BY PunctuationDiffers, PunctuationIsNoWord, WordsDiffer DEF Punctuation, Words
<1>8. depth + 1 \in Nat \ {0} OBVIOUS
<1> HIDE DEF c, read, value
<1>9. CASE c = OpenBrace
  <2>1. start \in 1 .. Len(text) BY <1>3, <1>7, <1>9
  <2>2. /\ value(f) = ParseObject(text, start, depth + 1, f)
        /\ value(g) = ParseObject(text, start, depth + 1, g)
    BY <1>6, <1>7, <1>9 DEF Words
  <2>3. QED BY <1>2, <1>5, <1>8, <2>1, <2>2, ObjectLocal DEF value, high
<1>10. CASE c = OpenBracket
  <2>1. start \in 1 .. Len(text) BY <1>3, <1>7, <1>10 DEF Words
  <2>2. /\ value(f) = ParseArray(text, start, depth + 1, f)
        /\ value(g) = ParseArray(text, start, depth + 1, g)
    BY <1>6, <1>7, <1>10 DEF Words
  <2>3. QED BY <1>2, <1>5, <1>8, <2>1, <2>2, ArrayLocal DEF value, high
<1>11. CASE c = "quote"
  <2>1. \A rest : value(rest) = IF read.ok THEN Got(String(read.value), read.pos) ELSE Failed
    BY <1>6, <1>7, <1>11 DEF Words
  <2>2. Outcome(read, start + 1, high) BY <1>1, StringInside DEF read, high
  <2>3. read.ok => Outcome(Got(String(read.value), read.pos), start + 1, high)
    BY <1>1, <2>2, OutcomeIs, OutcomeGot
  <2>4. QED BY <1>4, <1>5, <2>1, <2>3 DEF value, high
<1>12. CASE c \in {"true", "false", "null"}
  <2>1. \A rest : value(rest) \in {Got(Bool(TRUE), start + 1), Got(Bool(FALSE), start + 1),
                                   Got(Null, start + 1)}
    BY <1>6, <1>7, <1>12 DEF Words
  <2>2. value(f) = value(g) BY <1>6, <1>7, <1>12 DEF Words
  <2>3. start + 1 \in pos + 1 .. high BY <1>3, <1>12
  <2>4. \A v : Outcome(Got(v, start + 1), pos + 1, high) BY <1>1, <2>3, OutcomeGot
  <2>5. QED BY <2>1, <2>2, <2>4 DEF value, high
<1>13. CASE c \in Digits \cup {"-"}
  <2>1. \A rest : value(rest) = ParseNumber(text, start)
    BY <1>6, <1>7, <1>13 DEF Words
  <2>2. Outcome(ParseNumber(text, start), start + 1, high)
    BY <1>1, <1>13, NumberInside DEF c, high
  <2>3. QED BY <1>5, <2>1, <2>2 DEF value, high
<1>14. CASE c \notin {OpenBrace, OpenBracket, "quote", "true", "false", "null", "-"} \cup Digits
  <2>1. \A rest : value(rest) = Failed BY <1>6, <1>14
  <2>2. QED BY <1>4, <2>1 DEF value, high
<1>15. QED BY <1>9, <1>10, <1>11, <1>12, <1>13, <1>14

\* a turn of the loop of an array,
LEMMA ItemsLocal ==
    ASSUME NEW T, NEW text \in Seq(T), NEW f, NEW g, NEW pos \in 1 .. Len(text) + 1,
           NEW depth \in 1 .. kMaxNestingDepth, Ahead(text, f, g, pos)
    PROVE  /\ ParseItems(text, pos, depth, f) = ParseItems(text, pos, depth, g)
           /\ Outcome(ParseItems(text, pos, depth, f), pos + 1, Len(text) + 1)
<1> DEFINE high == Len(text) + 1
           item == ParseValue(text, pos, depth, f)
           after == SkipWhitespace(text, item.pos)
           c == At(text, after)
           next == SkipWhitespace(text, after + 1)
           place == <<"items", next, depth>>
<1>0. high \in Nat /\ depth \in Nat /\ pos \in Nat BY JsonAssumption
<1>1. item = ParseValue(text, pos, depth, g) /\ Outcome(item, pos + 1, high)
  BY <1>0, ValueLocal
<1>2. Outcome(Failed, pos + 1, high) BY DEF Outcome
<1> DEFINE turn(rest) == IF ~item.ok THEN Failed
                         ELSE CASE c = Comma -> Prefixed(<<item.value>>, rest, place)
                                [] Closes(c, CloseBracket) -> Got(<<item.value>>, after + 1)
                                [] OTHER -> Failed
<1>3. ParseItems(text, pos, depth, f) = turn(f) BY DEF ParseItems, ItemTurn
<1>4. ParseItems(text, pos, depth, g) = turn(g) BY <1>1 DEF ParseItems, ItemTurn
<1> HIDE DEF item, high
<1>5. CASE ~item.ok BY <1>2, <1>3, <1>4, <1>5 DEF high
<1>6. CASE item.ok
  <2>1. item.pos \in pos + 1 .. high BY <1>0, <1>1, <1>6, OutcomeIs
  <2>2. item.pos \in 1 .. high BY <1>0, <2>1
  <2>3. after \in item.pos .. high /\ after \in 1 .. high BY <2>2, SkipInside DEF high
  <2> HIDE DEF after
  <2>4. c # "end" => after + 1 \in 1 .. high BY <2>3, AtEnds DEF high
  <2>5. Comma # "end" /\ CloseBracket # "end" /\ Comma # CloseBracket
    BY PunctuationIsNoWord, PunctuationDiffers DEF Punctuation, Words
  <2>6. CASE c = Comma
    <3>1. next \in after + 1 .. high /\ next \in 1 .. high
      BY <2>4, <2>5, <2>6, SkipInside DEF high
    <3> HIDE DEF next, c
    <3>2. next > pos BY <1>0, <2>1, <2>3, <3>1
    <3>3. f[place] = g[place] /\ Outcome(f[place], next + 1, high)
      BY <1>0, <3>1, <3>2, AheadAt DEF high
    <3>4. turn(f) = Prefixed(<<item.value>>, f, place)
          /\ turn(g) = Prefixed(<<item.value>>, g, place)
      BY <1>6, <2>5, <2>6 DEF Closes
    <3> HIDE DEF place, turn
    <3>5. Prefixed(<<item.value>>, f, place) = Prefixed(<<item.value>>, g, place)
      BY <3>3 DEF Prefixed
    <3>6. Outcome(f[place], pos + 1, high)
      <4>1. pos + 1 \in Int /\ next + 1 \in Int /\ pos + 1 <= next + 1 BY <1>0, <3>1, <3>2
      <4>2. QED BY <1>0, <3>3, <4>1, OutcomeWider
    <3>7. Outcome(Prefixed(<<item.value>>, f, place), pos + 1, high)
      BY <1>0, <3>6, OutcomePrefixed
    <3>8. QED BY <1>3, <1>4, <3>4, <3>5, <3>7 DEF high
  <2>7. CASE c = CloseBracket
    <3>1. after + 1 \in pos + 1 .. high BY <1>0, <2>1, <2>3, <2>4, <2>5, <2>7
    <3> HIDE DEF c
    <3>2. turn(f) = Got(<<item.value>>, after + 1) /\ turn(g) = Got(<<item.value>>, after + 1)
      BY <1>6, <2>5, <2>7 DEF Closes
    <3>3. Outcome(Got(<<item.value>>, after + 1), pos + 1, high) BY <1>0, <3>1, OutcomeGot
    <3>4. QED BY <1>3, <1>4, <3>2, <3>3 DEF high
  <2>8. CASE c \notin {Comma, CloseBracket}
    <3>1. turn(f) = Failed /\ turn(g) = Failed BY <1>6, <2>8 DEF Closes
    <3>2. QED BY <1>2, <1>3, <1>4, <3>1 DEF high
  <2>9. QED BY <2>6, <2>7, <2>8
<1>7. QED BY <1>5, <1>6

\* and one of an object.
LEMMA MembersLocal ==
    ASSUME NEW T, NEW text \in Seq(T), NEW f, NEW g, NEW pos \in 1 .. Len(text) + 1,
           NEW depth \in 1 .. kMaxNestingDepth, Ahead(text, f, g, pos)
    PROVE  /\ ParseMembers(text, pos, depth, f) = ParseMembers(text, pos, depth, g)
           /\ Outcome(ParseMembers(text, pos, depth, f), pos + 1, Len(text) + 1)
<1> DEFINE high == Len(text) + 1
           key == ParseString(text, SkipWhitespace(text, pos))
           colon == SkipWhitespace(text, key.pos)
           value == ParseValue(text, colon + 1, depth, f)
           after == SkipWhitespace(text, value.pos)
           c == At(text, after)
           member == <<key.value, value.value>>
           place == <<"members", after + 1, depth>>
<1>0. high \in Nat /\ depth \in Nat /\ pos \in Nat BY JsonAssumption
<1>1. Outcome(key, pos + 1, high)
  <2> DEFINE p == SkipWhitespace(text, pos)
  <2>1. p \in pos .. high /\ p \in 1 .. high BY SkipInside
  <2> HIDE DEF p, high
  <2>2. Outcome(ParseString(text, p), p + 1, high) BY <2>1, StringInside DEF high
  <2>3. p + 1 \in Int /\ pos + 1 \in Int /\ pos + 1 <= p + 1 BY <1>0, <2>1
  <2>4. Outcome(ParseString(text, p), pos + 1, high) BY <1>0, <2>2, <2>3, OutcomeWider
  <2>5. QED BY <2>4 DEF p
<1>2. Outcome(Failed, pos + 1, high) BY DEF Outcome
<1> HIDE DEF key
<1>3. CASE ~key.ok \/ At(text, colon) # Colon
  <2>1. ParseMembers(text, pos, depth, f) = Failed /\ ParseMembers(text, pos, depth, g) = Failed
    BY <1>3 DEF ParseMembers, key
  <2>2. QED BY <1>2, <2>1
<1>4. CASE key.ok /\ At(text, colon) = Colon
  <2> HIDE DEF high
  <2>1. key.pos \in pos + 1 .. high BY <1>0, <1>1, <1>4, OutcomeIs
  <2>2. key.pos \in 1 .. high BY <1>0, <2>1
  <2>3. colon \in key.pos .. high /\ colon \in 1 .. high BY <2>2, SkipInside DEF high
  <2> HIDE DEF colon
  <2>4. colon + 1 \in 1 .. high /\ colon + 1 > pos
    <3>1. Colon # "end" BY PunctuationIsNoWord DEF Punctuation, Words
    <3>2. colon + 1 \in 1 .. high BY <1>4, <2>3, <3>1, AtEnds DEF high
    <3>3. QED BY <1>0, <2>1, <2>3, <3>2
  <2>5. Ahead(text, f, g, colon + 1) BY <1>0, <2>4 DEF Ahead, Places
  <2>6. value = ParseValue(text, colon + 1, depth, g) /\ Outcome(value, colon + 1 + 1, high)
    BY <1>0, <2>4, <2>5, ValueLocal DEF high
  <2> DEFINE turn(rest) ==
                 IF ~key.ok \/ At(text, colon) # Colon \/ ~value.ok THEN Failed
                 ELSE CASE c = Comma -> Prefixed(<<member>>, rest, place)
                        [] Closes(c, CloseBrace) -> Got(<<member>>, after + 1)
                        [] OTHER -> Failed
  <2>7. ParseMembers(text, pos, depth, f) = turn(f) BY DEF ParseMembers, MemberTurn, key, colon
  <2>8. ParseMembers(text, pos, depth, g) = turn(g) BY <2>6 DEF ParseMembers, MemberTurn, key, colon
  <2> HIDE DEF value, member
  <2>9. CASE ~value.ok BY <1>2, <2>7, <2>8, <2>9 DEF high
  <2>10. CASE value.ok
    <3>1. value.pos \in colon + 1 + 1 .. high BY <1>0, <2>3, <2>6, <2>10, OutcomeIs
    <3>2. value.pos \in 1 .. high /\ value.pos > pos BY <1>0, <2>4, <3>1
    <3>3. after \in value.pos .. high /\ after \in 1 .. high BY <3>2, SkipInside DEF high
    <3> HIDE DEF after
    <3>4. c # "end" => after + 1 \in 1 .. high BY <3>3, AtEnds DEF high
    <3>5. Comma # "end" /\ CloseBrace # "end" /\ Comma # CloseBrace
      BY PunctuationIsNoWord, PunctuationDiffers DEF Punctuation, Words
    <3> HIDE DEF c
    <3>6. after > pos BY <1>0, <3>2, <3>3
    <3>7. CASE c = Comma
      <4>1. after + 1 \in 1 .. high /\ after + 1 > pos BY <1>0, <3>3, <3>4, <3>5, <3>6, <3>7
      <4>2. f[place] = g[place] /\ Outcome(f[place], after + 1 + 1, high)
        BY <1>0, <4>1, AheadAt DEF high
      <4>3. turn(f) = Prefixed(<<member>>, f, place) /\ turn(g) = Prefixed(<<member>>, g, place)
        BY <1>4, <2>10, <3>5, <3>7 DEF Closes
      <4> HIDE DEF place, turn
      <4>4. Prefixed(<<member>>, f, place) = Prefixed(<<member>>, g, place)
        BY <4>2 DEF Prefixed
      <4>5. Outcome(f[place], pos + 1, high)
        <5>1. pos + 1 \in Int /\ after + 1 + 1 \in Int /\ pos + 1 <= after + 1 + 1
          BY <1>0, <3>3, <4>1
        <5>2. QED BY <1>0, <4>2, <5>1, OutcomeWider
      <4>6. Outcome(Prefixed(<<member>>, f, place), pos + 1, high)
        BY <1>0, <4>5, OutcomePrefixed
      <4>7. QED BY <2>7, <2>8, <4>3, <4>4, <4>6 DEF high
    <3>8. CASE c = CloseBrace
      <4>1. after + 1 \in pos + 1 .. high BY <1>0, <3>3, <3>4, <3>5, <3>6, <3>8
      <4>2. turn(f) = Got(<<member>>, after + 1) /\ turn(g) = Got(<<member>>, after + 1)
        BY <1>4, <2>10, <3>5, <3>8 DEF Closes
      <4>3. Outcome(Got(<<member>>, after + 1), pos + 1, high) BY <1>0, <4>1, OutcomeGot
      <4>4. QED BY <2>7, <2>8, <4>2, <4>3 DEF high
    <3>9. CASE c \notin {Comma, CloseBrace}
      <4>1. turn(f) = Failed /\ turn(g) = Failed BY <3>9 DEF Closes
      <4>2. QED BY <1>2, <2>7, <2>8, <4>1 DEF high
    <3>10. QED BY <3>7, <3>8, <3>9
  <2>11. QED BY <2>9, <2>10
<1>5. QED BY <1>3, <1>4

\* The loops of arrays and objects.
Loop(text, place, rest) ==
    IF place[1] = "items" THEN ParseItems(text, place[2], place[3], rest)
    ELSE ParseMembers(text, place[2], place[3], rest)

LEMMA LoopLocal ==
    ASSUME NEW T, NEW text \in Seq(T), NEW f, NEW g, NEW place \in Places(text),
           Ahead(text, f, g, place[2])
    PROVE  /\ Loop(text, place, f) = Loop(text, place, g)
           /\ Outcome(Loop(text, place, f), place[2] + 1, Len(text) + 1)
<1>1. place[2] \in 1 .. Len(text) + 1 /\ place[3] \in 1 .. kMaxNestingDepth BY DEF Places
<1>2. CASE place[1] = "items" BY <1>1, <1>2, ItemsLocal DEF Loop
<1>3. CASE place[1] # "items" BY <1>1, <1>3, MembersLocal DEF Loop
<1>4. QED BY <1>2, <1>3

\* So both loops together, as a function of places, exist.
LEMMA LoopsExist ==
    ASSUME NEW T, NEW text \in Seq(T)
    PROVE  \E rest : rest = [place \in Places(text) |-> Loop(text, place, rest)]
<1> DEFINE n == Len(text)
           P == Places(text)
           From(f, m) ==
               /\ f = [place \in P |-> f[place]]
               /\ \A place \in P :
                     place[2] > n + 1 - m =>
                         /\ f[place] = Loop(text, place, f)
                         /\ Outcome(f[place], place[2] + 1, n + 1)
           Done(m) == m <= n + 1 => \E f : From(f, m)
           N == {m \in Nat : Done(m)}
<1>0. n \in Nat /\ \A place \in P : place[2] \in 1 .. n + 1 BY DEF Places
<1>1. \A f, g, place :
        place \in P /\ (\A x \in P : x[2] > place[2] => /\ f[x] = g[x]
                                                        /\ Outcome(f[x], x[2] + 1, n + 1))
          => /\ Loop(text, place, f) = Loop(text, place, g)
             /\ Outcome(Loop(text, place, f), place[2] + 1, n + 1)
  BY LoopLocal DEF Ahead
<1> HIDE DEF n, P
<1>2. 0 \in N
  <2> DEFINE f == [place \in P |-> Failed]
  <2>1. From(f, 0)
    <3>1. \A place \in P : ~(place[2] > n + 1 - 0) BY <1>0
    <3>2. f = [place \in P |-> f[place]] OBVIOUS
    <3>3. QED BY <3>1, <3>2
  <2>2. QED BY <2>1
<1>3. ASSUME NEW m \in N PROVE m + 1 \in N
  <2> SUFFICES ASSUME m + 1 <= n + 1 PROVE \E g : From(g, m + 1) OBVIOUS
  <2>1. PICK f : From(f, m) BY <1>0
  <2> DEFINE p == n + 1 - m
             g == [place \in P |-> IF place[2] = p THEN Loop(text, place, f) ELSE f[place]]
  <2>2. p \in 1 .. n + 1 /\ m \in Nat BY <1>0
  <2>3. \A place \in P : place[2] > n + 1 - (m + 1) <=> place[2] = p \/ place[2] > p
    BY <1>0, <2>2
  <2>4. \A place \in P : place[2] > p => /\ f[place] = Loop(text, place, f)
                                         /\ Outcome(f[place], place[2] + 1, n + 1)
    BY <2>1
  <2> HIDE DEF p, N, Done
  <2>5. g = [place \in P |-> g[place]] OBVIOUS
  <2>6. \A place \in P : place[2] > p => g[place] = f[place] BY <1>0, <2>2
  <2>7. \A place \in P : place[2] = p => g[place] = Loop(text, place, f) OBVIOUS
  <2> HIDE DEF g
  <2>8. ASSUME NEW place \in P, place[2] = p \/ place[2] > p
        PROVE  /\ Loop(text, place, f) = Loop(text, place, g)
               /\ Outcome(Loop(text, place, f), place[2] + 1, n + 1)
    <3>1. ASSUME NEW x \in P, x[2] > place[2]
          PROVE  f[x] = g[x] /\ Outcome(f[x], x[2] + 1, n + 1)
      <4>1. x[2] > p BY <1>0, <2>2, <2>8, <3>1
      <4>2. QED BY <2>4, <2>6, <4>1
    <3>2. QED BY <1>1, <3>1
  <2>9. ASSUME NEW place \in P, place[2] = p \/ place[2] > p
        PROVE  g[place] = Loop(text, place, g) /\ Outcome(g[place], place[2] + 1, n + 1)
    <3>1. g[place] = Loop(text, place, f) BY <2>4, <2>6, <2>7, <2>9
    <3>2. QED BY <2>8, <2>9, <3>1
  <2>10. From(g, m + 1) BY <2>3, <2>5, <2>9
  <2>11. QED BY <2>10
<1> HIDE DEF Done
<1>4. N = Nat BY <1>2, <1>3, NatSetInduction
<1>5. Done(n + 1) BY <1>0, <1>4
<1>6. PICK f : From(f, n + 1) BY <1>0, <1>5 DEF Done
<1>7. \A place \in P : f[place] = Loop(text, place, f)
  <2>1. \A place \in P : place[2] > n + 1 - (n + 1) BY <1>0
  <2>2. QED BY <1>6, <2>1
<1>8. f = [place \in P |-> Loop(text, place, f)] BY <1>6, <1>7
<1>9. QED BY <1>8 DEF P

\* A text is read by such loops.
LEMMA ParseIs ==
    ASSUME NEW T, NEW text \in Seq(T)
    PROVE  \E rest :
               /\ \A place \in Places(text) : rest[place] = Loop(text, place, rest)
               /\ Parse(text) =
                    LET read == ParseValue(text, 1, 0, rest)
                    IN  IF read.ok /\ At(text, SkipWhitespace(text, read.pos)) = "end"
                        THEN read.value ELSE Failed
<1> DEFINE Is(f) == f = [place \in Places(text) |-> Loop(text, place, f)]
           rest == CHOOSE f : Is(f)
<1>1. Is(rest) BY LoopsExist
<1>2. Parse(text) =
        LET read == ParseValue(text, 1, 0, rest)
        IN  IF read.ok /\ At(text, SkipWhitespace(text, read.pos)) = "end"
            THEN read.value ELSE Failed
  BY DEF Parse, Places, Loop
<1> HIDE DEF rest
<1>3. \A place \in Places(text) : rest[place] = Loop(text, place, rest) BY <1>1
<1>4. QED BY <1>2, <1>3

-----------------------------------------------------------------------------
(* Values are read as they were written.                                   *)

\* What can stand behind a value.
Stops == {Comma, CloseBracket, CloseBrace, "newline", "end", "torn"}

LEMMA StopsDiffer ==
    Stops \cap ({".", "e"} \cup Digits) = {}
<1>1. {Comma, CloseBracket, CloseBrace} \cap (Digits \cup {".", "e"}) = {}
  BY PunctuationIsNoWord DEF Punctuation, Words
<1>2. {"newline", "end", "torn"} \cap (Digits \cup {".", "e"}) = {} BY WordsDiffer DEF Words
<1>3. QED BY <1>1, <1>2 DEF Stops

\* What a value's first character says of it.
ValueAt(text, start, depth, rest) ==
    LET c == At(text, start)
        read == ParseString(text, start)
    IN  CASE c = OpenBrace -> ParseObject(text, start, depth + 1, rest)
          [] c = OpenBracket -> ParseArray(text, start, depth + 1, rest)
          [] c = "quote" -> IF read.ok THEN Got(String(read.value), read.pos) ELSE Failed
          [] c = "true" -> Got(Bool(TRUE), start + 1)
          [] c = "false" -> Got(Bool(FALSE), start + 1)
          [] c = "null" -> Got(Null, start + 1)
          [] c \in Digits \cup {"-"} -> ParseNumber(text, start)
          [] OTHER -> Failed

\* What ParseValue does by the first character (json.cpp:273-385).
LEMMA ValueStarts ==
    ASSUME NEW text, NEW pos, NEW depth, NEW rest, NEW start,
           SkipWhitespace(text, pos) = start
    PROVE  ParseValue(text, pos, depth, rest) = ValueAt(text, start, depth, rest)
BY DEF ParseValue, ValueAt

LEMMA FirstCharacters ==
    /\ OpenBrace \notin {OpenBracket, "quote", "true", "false", "null"} \cup Digits \cup {"-"}
    /\ OpenBracket \notin {"quote", "true", "false", "null"} \cup Digits \cup {"-"}
    /\ {"quote", "true", "false", "null"} \cap (Digits \cup {"-"}) = {}
BY PunctuationDiffers, PunctuationIsNoWord, WordsDiffer DEF Punctuation, Words

LEMMA ObjectStarts ==
    ASSUME NEW text, NEW pos, NEW depth, NEW rest, NEW start,
           SkipWhitespace(text, pos) = start, At(text, start) = OpenBrace
    PROVE  ParseValue(text, pos, depth, rest)
             = ParseObject(text, start, depth + 1, rest)
BY FirstCharacters, ValueStarts DEF ValueAt

LEMMA ArrayStarts ==
    ASSUME NEW text, NEW pos, NEW depth, NEW rest, NEW start,
           SkipWhitespace(text, pos) = start, At(text, start) = OpenBracket
    PROVE  ParseValue(text, pos, depth, rest)
             = ParseArray(text, start, depth + 1, rest)
BY FirstCharacters, ValueStarts DEF ValueAt

LEMMA StringStarts ==
    ASSUME NEW text, NEW pos, NEW depth, NEW rest, NEW start,
           SkipWhitespace(text, pos) = start, At(text, start) = "quote"
    PROVE  ParseValue(text, pos, depth, rest)
             = IF ParseString(text, start).ok
               THEN Got(String(ParseString(text, start).value), ParseString(text, start).pos)
               ELSE Failed
BY FirstCharacters, ValueStarts DEF ValueAt

LEMMA TrueStarts ==
    ASSUME NEW text, NEW pos, NEW depth, NEW rest, NEW start,
           SkipWhitespace(text, pos) = start, At(text, start) = "true"
    PROVE  ParseValue(text, pos, depth, rest)
             = Got(Bool(TRUE), start + 1)
BY FirstCharacters, ValueStarts DEF ValueAt

LEMMA FalseStarts ==
    ASSUME NEW text, NEW pos, NEW depth, NEW rest, NEW start,
           SkipWhitespace(text, pos) = start, At(text, start) = "false"
    PROVE  ParseValue(text, pos, depth, rest)
             = Got(Bool(FALSE), start + 1)
BY FirstCharacters, ValueStarts DEF ValueAt

LEMMA NullStarts ==
    ASSUME NEW text, NEW pos, NEW depth, NEW rest, NEW start,
           SkipWhitespace(text, pos) = start, At(text, start) = "null"
    PROVE  ParseValue(text, pos, depth, rest)
             = Got(Null, start + 1)
BY FirstCharacters, ValueStarts DEF ValueAt

LEMMA NumberStarts ==
    ASSUME NEW text, NEW pos, NEW depth, NEW rest, NEW start,
           SkipWhitespace(text, pos) = start, At(text, start) \in Digits \cup {"-"}
    PROVE  ParseValue(text, pos, depth, rest)
             = ParseNumber(text, start)
BY FirstCharacters, ValueStarts DEF ValueAt

LEMMA NothingStarts ==
    ASSUME NEW text, NEW pos, NEW depth, NEW rest, NEW start,
           SkipWhitespace(text, pos) = start, At(text, start) \notin Opening
    PROVE  ParseValue(text, pos, depth, rest)
             = Failed
BY FirstCharacters, ValueStarts DEF ValueAt, Opening, Literals

\* What a scalar is written as.
IsWritten(value, t) ==
    /\ TextOk(t)
    /\ t = CASE value.type = "null" -> <<"null">>
             [] value.type = "bool" -> <<IF value.bool THEN "true" ELSE "false">>
             [] value.type = "number" -> value.number
             [] value.type = "string" -> EscapeString(value.string)

LEMMA ScalarIsWritten ==
    ASSUME NEW n \in Nat, NEW value \in Scalars, NEW level \in Nat, NEW compact \in BOOLEAN
    PROVE  IsWritten(value, Texts[n][<<value, level, compact>>])
<1> DEFINE t == Texts[n][<<value, level, compact>>]
<1>1. TextOk(t) BY ScalarText
<1>2. t = CASE value.type = "null" -> <<"null">>
            [] value.type = "bool" -> <<IF value.bool THEN "true" ELSE "false">>
            [] value.type = "number" -> value.number
            [] value.type = "string" -> EscapeString(value.string)
  BY TextIs
<1> HIDE DEF t
<1>3. IsWritten(value, t) BY <1>1, <1>2 DEF IsWritten
<1>4. QED BY <1>3 DEF t

\* A scalar is read back (json.cpp:273-385).
LEMMA ScalarRead ==
    ASSUME NEW T, NEW text \in Seq(T), NEW value \in Scalars, NEW t, IsWritten(value, t),
           NEW p, NEW pos \in Nat \ {0}, NEW depth, NEW rest,
           SkipWhitespace(text, p) = pos, Spelt(text, pos, t), At(text, pos + Len(t)) \in Stops
    PROVE  ParseValue(text, p, depth, rest) = Got(value, pos + Len(t))
<1>1. t = CASE value.type = "null" -> <<"null">>
            [] value.type = "bool" -> <<IF value.bool THEN "true" ELSE "false">>
            [] value.type = "number" -> value.number
            [] value.type = "string" -> EscapeString(value.string)
  BY DEF IsWritten
<1>2. Spelt(text, pos, t) /\ At(text, pos + Len(t)) \in Stops OBVIOUS
<1>3. TextOk(t) BY DEF IsWritten
<1>4. At(text, pos) = t[1]
  <2>1. Len(t) \in Nat \ {0} BY <1>3 DEF TextOk
  <2>2. QED BY <1>2, <2>1, SpeltFirst
<1>5. CASE value = Null
  <2>1. t = <<"null">> BY <1>1, <1>5 DEF Null
  <2>2. t[1] = "null" /\ Len(t) = 1 BY <2>1
  <2>3. ParseValue(text, p, depth, rest) = Got(Null, pos + 1) BY <1>4, <2>2, NullStarts
  <2>4. QED BY <1>5, <2>2, <2>3
<1>6. ASSUME NEW b \in BOOLEAN, value = Bool(b)
      PROVE  ParseValue(text, p, depth, rest) = Got(value, pos + Len(t))
  <2>1. t = <<IF b THEN "true" ELSE "false">> BY <1>1, <1>6 DEF Bool
  <2>2. CASE b = TRUE
    <3>1. t[1] = "true" /\ Len(t) = 1 BY <2>1, <2>2
    <3>2. ParseValue(text, p, depth, rest) = Got(Bool(TRUE), pos + 1) BY <1>4, <3>1, TrueStarts
    <3>3. QED BY <1>6, <2>2, <3>1, <3>2
  <2>3. CASE b = FALSE
    <3>1. t[1] = "false" /\ Len(t) = 1 BY <2>1, <2>3
    <3>2. ParseValue(text, p, depth, rest) = Got(Bool(FALSE), pos + 1) BY <1>4, <3>1, FalseStarts
    <3>3. QED BY <1>6, <2>3, <3>1, <3>2
  <2>4. QED BY <2>2, <2>3
<1>7. ASSUME NEW token \in Numbers, value = Number(token)
      PROVE  ParseValue(text, p, depth, rest) = Got(value, pos + Len(t))
  <2>1. t = token BY <1>1, <1>7 DEF Number
  <2>2. At(text, pos + Len(token)) \notin Digits \cup {".", "e"}
    BY <1>2, <2>1, StopsDiffer
  <2>3. /\ At(text, pos) \in Digits \cup {"-"}
        /\ ParseNumber(text, pos) = Got(Number(token), pos + Len(token))
    BY <1>2, <2>1, <2>2, NumberIsRead
  <2>4. ParseValue(text, p, depth, rest) = ParseNumber(text, pos) BY <2>3, NumberStarts
  <2>5. QED BY <1>7, <2>1, <2>3, <2>4
<1>8. ASSUME NEW chars \in Strings, value = String(chars)
      PROVE  ParseValue(text, p, depth, rest) = Got(value, pos + Len(t))
  <2>1. t = EscapeString(chars) BY <1>1, <1>8 DEF String
  <2>2. chars \in Seq(Characters) /\ EscapeString(chars)[1] = "quote" BY EscapedOk
  <2>3. Written(text, pos, EscapeString(chars), Len(EscapeString(chars)))
    BY <1>2, <2>1 DEF Spelt
  <2>4. "end" \notin Characters BY JsonAssumption
  <2> DEFINE q == pos + Len(EscapeString(chars))
  <2>5. ParseString(text, pos) = Got(chars, q) BY <2>2, <2>3, <2>4, StringsAreReadBack
  <2> HIDE DEF q
  <2>6. /\ ParseString(text, pos).ok /\ ParseString(text, pos).value = chars
        /\ ParseString(text, pos).pos = q
    BY <2>5 DEF Got
  <2>7. ParseValue(text, p, depth, rest) = Got(String(chars), q)
    BY <1>4, <2>1, <2>2, <2>6, StringStarts
  <2>8. QED BY <1>8, <2>1, <2>7 DEF q
<1>9. QED BY <1>5, <1>6, <1>7, <1>8 DEF Scalars

\* Turns of a loop, each of which reads a value and what follows it.
LoopIs(values, good, r, e) ==
    \A k \in 1 .. Len(values) :
        r[k] = IF k \notin good THEN Failed
               ELSE IF k = Len(values) THEN Got(<<values[k]>>, e)
               ELSE IF r[k + 1].ok THEN Got(<<values[k]>> \o r[k + 1].value, r[k + 1].pos)
               ELSE Failed

\* A loop whose every turn reads one value and goes on reads them all, or fails
\* at the first that fails.
LEMMA LoopReads ==
    ASSUME NEW S, NEW values \in Seq(S), values # <<>>, NEW good, NEW r, NEW e,
           LoopIs(values, good, r, e)
    PROVE  r[1] = IF 1 .. Len(values) \subseteq good THEN Got(values, e) ELSE Failed
<1> DEFINE m == Len(values)
           Behind(k) == [i \in 1 .. m - k |-> values[k + i]]
           R(k) == r[k + 1] = IF k + 1 .. m \subseteq good THEN Got(Behind(k), e) ELSE Failed
           Good(j) == j < m => R(m - 1 - j)
           N == {j \in Nat : Good(j)}
<1>1. m \in Nat \ {0} OBVIOUS
<1>2. \A k \in 1 .. m : values[k] \in S OBVIOUS
<1>3. \A k \in 1 .. m :
         r[k] = IF k \notin good THEN Failed
                ELSE IF k = m THEN Got(<<values[k]>>, e)
                ELSE IF r[k + 1].ok THEN Got(<<values[k]>> \o r[k + 1].value, r[k + 1].pos)
                ELSE Failed
  BY DEF LoopIs
<1>4. Behind(0) = values OBVIOUS
<1>5. \A k \in 0 .. m : /\ Behind(k) \in Seq(S) /\ Len(Behind(k)) = m - k
                        /\ \A i \in 1 .. m - k : Behind(k)[i] = values[k + i]
  BY <1>1, <1>2
<1> HIDE DEF m, Behind
<1>6. 0 \in N
  <2>1. m - 1 - 0 = m - 1 /\ (m - 1) + 1 = m /\ m \in 1 .. m /\ m .. m = {m} BY <1>1
  <2>2. r[m] = IF m \notin good THEN Failed ELSE Got(<<values[m]>>, e) BY <1>3, <2>1
  <2>3. Behind(m - 1) = <<values[m]>>
    <3>1. m - 1 \in 0 .. m /\ m - (m - 1) = 1 BY <1>1
    <3>2. /\ Behind(m - 1) \in Seq(S) /\ Len(Behind(m - 1)) = 1
          /\ Behind(m - 1)[1] = values[m]
      <4> DEFINE k == m - 1
      <4>1. k \in 0 .. m /\ m - k = 1 /\ k + 1 = m BY <1>1
      <4> HIDE DEF k
      <4>2. 1 \in 1 .. m - k BY <4>1
      <4>3. Behind(k) \in Seq(S) /\ Len(Behind(k)) = 1 /\ Behind(k)[1] = values[k + 1]
        BY <1>5, <4>1, <4>2
      <4>4. QED BY <4>1, <4>3 DEF k
    <3> DEFINE x == Behind(m - 1)
               y == <<values[m]>>
    <3>3. y \in Seq(S) /\ Len(y) = 1 /\ y[1] = values[m] BY <1>2, <2>1
    <3>4. x \in Seq(S) /\ Len(x) = 1 /\ x[1] = values[m] BY <3>2
    <3> HIDE DEF x, y
    <3>5. \A i \in 1 .. Len(x) : x[i] = y[i] BY <3>3, <3>4
    <3>6. x = y BY <3>3, <3>4, <3>5, SameSequence
    <3>7. QED BY <3>6 DEF x, y
  <2>4. R(m - 1) BY <2>1, <2>2, <2>3
  <2> HIDE DEF R
  <2>5. QED BY <2>1, <2>4
<1>7. ASSUME NEW j \in N PROVE j + 1 \in N
  <2>1. j \in Nat /\ Good(j) OBVIOUS
  <2>2. ASSUME j + 1 < m PROVE R(m - 1 - (j + 1))
    <3> DEFINE k == m - 1 - j
    <3>1. k \in 1 .. m - 1 /\ m - 1 - (j + 1) = k - 1 /\ k \in 0 .. m /\ k - 1 \in 0 .. m
      BY <1>1, <2>1, <2>2
    <3>2. R(k) BY <1>1, <2>1, <2>2
    <3> HIDE DEF k
    <3>3. (k - 1) + 1 = k /\ k \in 1 .. m /\ k # m BY <1>1, <3>1
    <3>4. k .. m \subseteq good <=> k \in good /\ k + 1 .. m \subseteq good
      <4>1. k .. m = {k} \cup (k + 1 .. m) BY <1>1, <3>1
      <4>2. QED BY <4>1
    <3>5. r[k] = IF k \notin good THEN Failed
                 ELSE IF r[k + 1].ok
                 THEN Got(<<values[k]>> \o r[k + 1].value, r[k + 1].pos) ELSE Failed
      BY <1>3, <3>3
    <3>6. <<values[k]>> \o Behind(k) = Behind(k - 1)
      <4> DEFINE x == Behind(k)
                 y == Behind(k - 1)
                 s == <<values[k]>> \o x
      <4>1. /\ x \in Seq(S) /\ Len(x) = m - k
            /\ \A i \in 1 .. m - k : x[i] = values[k + i]
        BY <1>5, <3>1
      <4>2. /\ y \in Seq(S) /\ Len(y) = m - (k - 1)
            /\ \A i \in 1 .. m - (k - 1) : y[i] = values[k - 1 + i]
        BY <1>5, <3>1
      <4>3. values[k] \in S BY <1>2, <3>3
      <4> HIDE DEF x, y
      <4>4. /\ s \in Seq(S) /\ Len(s) = 1 + Len(x) /\ s[1] = values[k]
            /\ \A i \in 1 .. Len(x) : s[1 + i] = x[i]
        BY <4>1, <4>3, ConsParts
      <4> HIDE DEF s
      <4>5. Len(s) = Len(y) /\ Len(s) = m - k + 1 BY <1>1, <3>1, <4>1, <4>2, <4>4
      <4>6. ASSUME NEW i \in 1 .. Len(s) PROVE s[i] = y[i]
        <5>1. i \in 1 .. m - (k - 1) BY <1>1, <3>1, <4>5
        <5>2. y[i] = values[k - 1 + i] BY <4>2, <5>1
        <5>3. CASE i = 1
          <6>1. k - 1 + i = k BY <3>1, <5>3
          <6>2. QED BY <4>4, <5>2, <5>3, <6>1
        <5>4. CASE i # 1
          <6> DEFINE a == i - 1
          <6>1. a \in 1 .. m - k /\ 1 + a = i /\ k + a = k - 1 + i BY <1>1, <3>1, <5>1, <5>4
          <6> HIDE DEF a
          <6>2. s[1 + a] = x[a] /\ x[a] = values[k + a] BY <4>1, <4>4, <6>1
          <6>3. QED BY <5>2, <6>1, <6>2
        <5>5. QED BY <5>3, <5>4
      <4>7. s = y BY <4>2, <4>4, <4>5, <4>6, SameSequence
      <4>8. QED BY <4>7 DEF s, x, y
    <3>7. CASE k + 1 .. m \subseteq good
      <4>1. r[k + 1] = Got(Behind(k), e) BY <3>2, <3>7
      <4>2. r[k + 1].ok /\ r[k + 1].value = Behind(k) /\ r[k + 1].pos = e BY <4>1 DEF Got
      <4>3. r[k] = IF k \notin good THEN Failed ELSE Got(Behind(k - 1), e)
        BY <3>5, <3>6, <4>2
      <4>4. r[k] = IF k .. m \subseteq good THEN Got(Behind(k - 1), e) ELSE Failed
        BY <3>4, <3>7, <4>3
      <4>5. R(k - 1) BY <3>3, <4>4
      <4> HIDE DEF R
      <4>6. QED BY <3>1, <4>5
    <3>8. CASE ~(k + 1 .. m \subseteq good)
      <4>1. r[k + 1] = Failed BY <3>2, <3>8
      <4>2. ~r[k + 1].ok BY <4>1 DEF Failed
      <4>3. r[k] = Failed BY <3>5, <4>2
      <4>4. r[k] = IF k .. m \subseteq good THEN Got(Behind(k - 1), e) ELSE Failed
        BY <3>4, <3>8, <4>3
      <4>5. R(k - 1) BY <3>3, <4>4
      <4> HIDE DEF R
      <4>6. QED BY <3>1, <4>5
    <3>9. QED BY <3>7, <3>8
  <2> HIDE DEF R
  <2>3. QED BY <2>1, <2>2
<1> HIDE DEF Good
<1>8. N = Nat BY <1>6, <1>7, NatSetInduction
<1>9. R(0)
  <2>1. m - 1 \in Nat /\ m - 1 < m /\ m - 1 - (m - 1) = 0 BY <1>1
  <2>2. Good(m - 1) BY <1>8, <2>1
  <2> HIDE DEF R
  <2>3. QED BY <2>1, <2>2 DEF Good
<1>10. QED BY <1>4, <1>9 DEF m

-----------------------------------------------------------------------------
(* Where a list's items stand in a text, up to a place where it may be     *)
(* torn.                                                                   *)

\* White space up to something else.
LEMMA Skips ==
    ASSUME NEW T, NEW text \in Seq(T), NEW pos \in Nat \ {0}, NEW p \in Nat, pos <= p,
           \A q \in pos .. p - 1 : At(text, q) \in Whitespace, At(text, p) \notin Whitespace
    PROVE  SkipWhitespace(text, pos) = p
<1>1. Len(text) \in Nat /\ p \in Nat \ {0} OBVIOUS
<1>2. Past(text, p, Whitespace) = p BY <1>1, PastHere
<1>3. CASE pos = p BY <1>2, <1>3 DEF SkipWhitespace
<1>4. CASE pos # p
  <2>1. p - 1 \in pos .. p - 1 /\ p - 1 \in Nat \ {0} BY <1>4
  <2>2. At(text, p - 1) # "end" BY <2>1, WordsDiffer
  <2>3. p - 1 \in 1 .. Len(text) BY <2>1, <2>2, AtEnds
  <2>4. p <= Len(text) + 1 BY <2>3
  <2>5. Past(text, pos, Whitespace) = Past(text, p, Whitespace)
    BY <2>4, WordsDiffer, PastAhead
  <2>6. QED BY <1>2, <2>5 DEF SkipWhitespace
<1>5. QED BY <1>3, <1>4

Listed(text, tear, pos, last, b, items, open, close) ==
    LET Stand(k) == b[k] + Len(items[k])
        White(low, high) ==
            \A q \in low .. high - 1 : q < tear => At(text, q) \in Whitespace
        m == Len(items)
    IN  /\ pos < tear => At(text, pos) = open
        /\ last < tear => At(text, last) = close
        /\ \A k \in 1 .. m :
              /\ b[k] \in Nat /\ pos < b[k] /\ Stand(k) <= last
              /\ \A i \in 1 .. Len(items[k]) :
                    b[k] + i - 1 < tear => At(text, b[k] + i - 1) = items[k][i]
        /\ White(pos + 1, b[1])
        /\ \A k \in 1 .. m - 1 :
              /\ Stand(k) < b[k + 1]
              /\ Stand(k) < tear => At(text, Stand(k)) = Comma
              /\ White(Stand(k) + 1, b[k + 1])
        /\ Stand(m) < tear => At(text, Stand(m)) \in {"newline", close}
        /\ White(Stand(m), last)

\* Where the items of a container stand in a text that has it up to a tear.
LEMMA ListedFrom ==
    ASSUME NEW S, NEW s \in Seq(S), NEW items \in Seq(Seq(S)), items # <<>>, NEW begin,
           NEW open, NEW close, Laid(s, begin, items, open, close),
           NEW text, NEW pos \in Nat \ {0}, NEW tear \in Nat,
           \A i \in 1 .. Len(s) : pos + i - 1 < tear => At(text, pos + i - 1) = s[i],
           NEW b, \A k \in 1 .. Len(items) : b[k] = pos + begin[k] - 1,
           NEW last, last = (pos + Len(s)) - 1
    PROVE  Listed(text, tear, pos, last, b, items, open, close)
<1> DEFINE m == Len(items)
           n == Len(s)
           len(k) == Len(items[k])
<1>1. /\ m \in Nat \ {0} /\ n \in Nat /\ \A k \in 1 .. m : len(k) \in Nat
      /\ last = pos + n - 1 /\ last \in Int
  OBVIOUS
<1>2. \A k \in 1 .. m : b[k] = pos + begin[k] - 1 OBVIOUS
<1>3. /\ s[1] = open /\ s[n] = close
      /\ \A k \in 1 .. m :
            /\ begin[k] \in Nat /\ begin[k] > 1 /\ begin[k] + len(k) <= n
            /\ \A i \in 1 .. len(k) : s[begin[k] + i - 1] = items[k][i]
      /\ \A q \in 2 .. begin[1] - 1 : s[q] \in Whitespace
      /\ \A k \in 1 .. m - 1 :
            /\ begin[k] + len(k) < begin[k + 1]
            /\ s[begin[k] + len(k)] = Comma
            /\ \A q \in begin[k] + len(k) + 1 .. begin[k + 1] - 1 : s[q] \in Whitespace
      /\ s[begin[m] + len(m)] \in {"newline", close}
      /\ \A q \in begin[m] + len(m) .. n - 1 : s[q] \in Whitespace
  BY DEF Laid
<1>4. \A i \in 1 .. n : pos + i - 1 < tear => At(text, pos + i - 1) = s[i] OBVIOUS
<1> HIDE DEF m, n, len
<1>5. n > 1
  <2>1. begin[1] \in Nat /\ begin[1] > 1 /\ begin[1] + len(1) <= n /\ len(1) \in Nat
    BY <1>1, <1>3
  <2>2. QED BY <1>1, <2>1
<1>6. ASSUME NEW q \in pos .. last, q < tear
      PROVE  q - pos + 1 \in 1 .. n /\ At(text, q) = s[q - pos + 1]
  <2> DEFINE i == q - pos + 1
  <2>1. i \in 1 .. n /\ pos + i - 1 = q BY <1>1, <1>6
  <2> HIDE DEF i
  <2>2. QED BY <1>4, <1>6, <2>1 DEF i
<1>7. pos < tear => At(text, pos) = open
  <2>1. pos \in pos .. last /\ pos - pos + 1 = 1 BY <1>1, <1>5
  <2>2. QED BY <1>3, <1>6, <2>1
<1>8. last < tear => At(text, last) = close
  <2>1. last \in pos .. last /\ last - pos + 1 = n BY <1>1, <1>5
  <2>2. QED BY <1>3, <1>6, <2>1
<1>9. ASSUME NEW k \in 1 .. m
      PROVE  /\ b[k] \in Nat /\ pos < b[k] /\ b[k] + len(k) <= last
             /\ \A i \in 1 .. len(k) :
                   b[k] + i - 1 < tear => At(text, b[k] + i - 1) = items[k][i]
  <2> DEFINE g == begin[k]
             l == len(k)
  <2>1. /\ g \in Nat /\ g > 1 /\ g + l <= n /\ l \in Nat /\ b[k] = pos + g - 1
        /\ \A i \in 1 .. l : s[g + i - 1] = items[k][i]
    BY <1>1, <1>2, <1>3
  <2> HIDE DEF g, l
  <2>2. b[k] \in Nat /\ pos < b[k] /\ b[k] + l <= last BY <1>1, <2>1
  <2>3. ASSUME NEW i \in 1 .. l, b[k] + i - 1 < tear
        PROVE  At(text, b[k] + i - 1) = items[k][i]
    <3> DEFINE q == b[k] + i - 1
    <3>1. q \in pos .. last /\ q - pos + 1 = g + i - 1 BY <1>1, <2>1
    <3>2. q < tear BY <2>3
    <3> HIDE DEF q
    <3>3. At(text, q) = s[g + i - 1] BY <1>6, <3>1, <3>2
    <3>4. QED BY <2>1, <3>3 DEF q
  <2>4. QED BY <2>2, <2>3 DEF l
<1>10. ASSUME NEW low \in Nat, NEW high \in Nat, 1 <= low, high <= n,
              \A q \in low .. high - 1 : s[q] \in Whitespace
       PROVE  \A q \in pos + low - 1 .. (pos + high - 1) - 1 :
                  q < tear => At(text, q) \in Whitespace
  <2> SUFFICES ASSUME NEW q \in pos + low - 1 .. (pos + high - 1) - 1, q < tear
               PROVE  At(text, q) \in Whitespace
    OBVIOUS
  <2> DEFINE i == q - pos + 1
  <2>1. q \in pos .. last /\ i \in low .. high - 1 BY <1>1, <1>10
  <2>2. At(text, q) = s[i] BY <1>6, <2>1
  <2> HIDE DEF i
  <2>3. QED BY <1>10, <2>1, <2>2
<1>11. \A q \in pos + 1 .. b[1] - 1 : q < tear => At(text, q) \in Whitespace
  <2> DEFINE g == begin[1]
  <2>1. g \in Nat /\ g > 1 /\ g + len(1) <= n /\ len(1) \in Nat /\ b[1] = pos + g - 1
        /\ \A q \in 2 .. g - 1 : s[q] \in Whitespace
    BY <1>1, <1>2, <1>3
  <2> HIDE DEF g
  <2>2. 2 \in Nat /\ g <= n /\ pos + 2 - 1 = pos + 1 BY <1>1, <2>1
  <2> DEFINE two == 2
  <2>3. two \in Nat /\ 1 <= two /\ \A q \in two .. g - 1 : s[q] \in Whitespace BY <2>1
  <2> HIDE DEF two
  <2>4. \A q \in pos + two - 1 .. (pos + g - 1) - 1 : q < tear => At(text, q) \in Whitespace
    BY <1>10, <2>1, <2>2, <2>3
  <2>5. QED BY <2>1, <2>2, <2>4 DEF two
<1>12. ASSUME NEW k \in 1 .. m - 1
       PROVE  /\ b[k] + len(k) < b[k + 1]
              /\ b[k] + len(k) < tear => At(text, b[k] + len(k)) = Comma
              /\ \A q \in b[k] + len(k) + 1 .. b[k + 1] - 1 : q < tear => At(text, q) \in Whitespace
  <2> DEFINE g == begin[k]
             h == begin[k + 1]
             l == len(k)
  <2>1. /\ g \in Nat /\ g > 1 /\ g + l <= n /\ l \in Nat /\ b[k] = pos + g - 1
        /\ g + l < h /\ s[g + l] = Comma /\ h \in Nat /\ h + len(k + 1) <= n
        /\ len(k + 1) \in Nat /\ b[k + 1] = pos + h - 1
        /\ \A q \in g + l + 1 .. h - 1 : s[q] \in Whitespace
    <3>1. k \in 1 .. m /\ k + 1 \in 1 .. m BY <1>1
    <3>2. QED BY <1>1, <1>2, <1>3, <3>1
  <2> HIDE DEF g, h, l
  <2>2. b[k] + l < b[k + 1] /\ b[k] + l \in pos .. last /\ (b[k] + l) - pos + 1 = g + l
    BY <1>1, <2>1
  <2>3. b[k] + l < tear => At(text, b[k] + l) = Comma BY <1>6, <2>1, <2>2
  <2>4. g + l + 1 \in Nat /\ h <= n /\ 1 <= g + l + 1 /\ pos + (g + l + 1) - 1 = b[k] + l + 1
    BY <1>1, <2>1
  <2>5. \A q \in b[k] + l + 1 .. b[k + 1] - 1 : q < tear => At(text, q) \in Whitespace
    BY <1>10, <2>1, <2>4
  <2>6. QED BY <2>2, <2>3, <2>5 DEF l
<1>13. /\ b[m] + len(m) < tear => At(text, b[m] + len(m)) \in {"newline", close}
       /\ \A q \in b[m] + len(m) .. last - 1 : q < tear => At(text, q) \in Whitespace
  <2> DEFINE g == begin[m]
             l == len(m)
  <2>1. /\ g \in Nat /\ g > 1 /\ g + l <= n /\ l \in Nat /\ b[m] = pos + g - 1
        /\ s[g + l] \in {"newline", close}
        /\ \A q \in g + l .. n - 1 : s[q] \in Whitespace
    BY <1>1, <1>2, <1>3
  <2> HIDE DEF g, l
  <2>2. b[m] + l \in pos .. last /\ (b[m] + l) - pos + 1 = g + l BY <1>1, <2>1
  <2>3. b[m] + l < tear => At(text, b[m] + l) \in {"newline", close} BY <1>6, <2>1, <2>2
  <2>4. g + l \in Nat /\ n <= n /\ 1 <= g + l /\ pos + (g + l) - 1 = b[m] + l /\ n \in Nat
    BY <1>1, <2>1
  <2>5. \A q \in b[m] + l .. last - 1 : q < tear => At(text, q) \in Whitespace
    BY <1>1, <1>10, <2>1, <2>4
  <2>6. QED BY <2>3, <2>5 DEF l
<1>14. QED BY <1>7, <1>8, <1>9, <1>11, <1>12, <1>13 DEF Listed, m, len

\* How far a text that may be torn goes.
Upto(tear, pos) == IF pos < tear THEN pos ELSE tear

\* The same as the reader meets it.
ListIn(text, tear, pos, last, b, items, open, close) ==
    /\ At(text, pos) = open
    /\ tear = last + 1 => At(text, last) = close
    /\ SkipWhitespace(text, pos + 1) = Upto(tear, b[1])
    /\ \A k \in 1 .. Len(items) :
          /\ b[k] \in Nat \ {0} /\ Len(items[k]) \in Nat \ {0} /\ pos < b[k]
          /\ b[k] + Len(items[k]) <= last
          /\ b[k] < tear => /\ At(text, b[k]) \in Opening
                            /\ At(text, b[k]) = items[k][1]
                            /\ SkipWhitespace(text, b[k]) = b[k]
          /\ \A i \in 1 .. Len(items[k]) :
                b[k] + i - 1 < tear => At(text, b[k] + i - 1) = items[k][i]
          /\ b[k] + Len(items[k]) <= tear =>
                /\ Spelt(text, b[k], items[k])
                /\ At(text, b[k] + Len(items[k])) \in Stops
    /\ \A k \in 1 .. Len(items) - 1 :
          /\ b[k] + Len(items[k]) < b[k + 1]
          /\ b[k] + Len(items[k]) < tear =>
                /\ At(text, b[k] + Len(items[k])) = Comma
                /\ SkipWhitespace(text, b[k] + Len(items[k])) = b[k] + Len(items[k])
                /\ SkipWhitespace(text, (b[k] + Len(items[k])) + 1) = Upto(tear, b[k + 1])
    /\ b[Len(items)] + Len(items[Len(items)]) <= tear =>
          SkipWhitespace(text, b[Len(items)] + Len(items[Len(items)])) = Upto(tear, last)

\* What of a container stands before the tear, and what the reader finds there.
LEMMA ListStands ==
    ASSUME NEW T, NEW text \in Seq(T), NEW pos \in Nat \ {0}, NEW last \in Nat,
           NEW tear \in Nat, pos < tear, tear <= last + 1,
           tear = last + 1 \/ At(text, tear) \in {"end", "torn"},
           NEW items, ItemsOk(items), items # <<>>, NEW b, NEW open,
           NEW close \in {CloseBracket, CloseBrace},
           Listed(text, tear, pos, last, b, items, open, close)
    PROVE  ListIn(text, tear, pos, last, b, items, open, close)
<1> DEFINE m == Len(items)
           len(k) == Len(items[k])
           stop(k) == b[k] + len(k)
           White(low, high) == \A q \in low .. high - 1 : q < tear => At(text, q) \in Whitespace
<1>1. /\ items \in Seq(Seq(TextTokens)) /\ m \in Nat \ {0}
      /\ \A k \in 1 .. m : /\ len(k) \in Nat \ {0} /\ items[k][1] \in Opening
  <2>1. items \in Seq(Seq(TextTokens)) BY DEF ItemsOk
  <2>2. m \in Nat \ {0} BY <2>1
  <2>3. ASSUME NEW k \in 1 .. m PROVE len(k) \in Nat \ {0} /\ items[k][1] \in Opening
    <3>1. TextOk(items[k]) BY DEF ItemsOk
    <3>2. items[k] \in Seq(TextTokens) /\ len(k) # 0 /\ items[k][1] \in Opening
      BY <3>1 DEF TextOk
    <3>3. QED BY <3>2
  <2>4. QED BY <2>1, <2>2, <2>3
<1>2. /\ pos < tear => At(text, pos) = open
      /\ last < tear => At(text, last) = close
      /\ \A k \in 1 .. m :
            /\ b[k] \in Nat /\ pos < b[k] /\ stop(k) <= last
            /\ \A i \in 1 .. len(k) : b[k] + i - 1 < tear => At(text, b[k] + i - 1) = items[k][i]
      /\ White(pos + 1, b[1])
      /\ \A k \in 1 .. m - 1 :
            /\ stop(k) < b[k + 1]
            /\ stop(k) < tear => At(text, stop(k)) = Comma
            /\ White(stop(k) + 1, b[k + 1])
      /\ stop(m) < tear => At(text, stop(m)) \in {"newline", close}
      /\ White(stop(m), last)
  BY DEF Listed
<1>3. /\ Opening \cap Whitespace = {} /\ Comma \notin Whitespace
      /\ close \notin Whitespace /\ "end" \notin Whitespace /\ "torn" \notin Whitespace
      /\ Comma \in Stops /\ close \in Stops /\ {"end", "torn", "newline"} \subseteq Stops
  BY TokensDiffer, WordsDiffer DEF Punctuation, Stops
<1> HIDE DEF m, len
<1>4. ASSUME NEW k \in 1 .. m
      PROVE  /\ b[k] \in Nat \ {0} /\ len(k) \in Nat \ {0} /\ pos < b[k] /\ stop(k) <= last
             /\ stop(k) \in Nat
  <2>1. b[k] \in Nat /\ pos < b[k] /\ stop(k) <= last /\ len(k) \in Nat \ {0} BY <1>1, <1>2
  <2>2. QED BY <2>1
\* Where skipping stops.
<1>5. ASSUME NEW low \in Nat \ {0}, NEW high \in Nat, low <= high, low <= tear,
             White(low, high), high < tear => At(text, high) \notin Whitespace,
             high <= last
      PROVE  SkipWhitespace(text, low) = Upto(tear, high)
  <2> DEFINE u == Upto(tear, high)
  <2>1. u \in Nat /\ low <= u /\ u <= high /\ u <= tear /\ (u = high \/ u = tear)
    BY <1>5 DEF Upto
  <2>2. At(text, u) \notin Whitespace
    <3>1. CASE high < tear BY <1>5, <3>1 DEF Upto
    <3>2. CASE ~(high < tear)
      <4>1. u = tear /\ tear # last + 1 BY <1>5, <3>2 DEF Upto
      <4>2. QED BY <1>3, <4>1
    <3>3. QED BY <3>1, <3>2
  <2> HIDE DEF u
  <2>3. \A q \in low .. u - 1 : At(text, q) \in Whitespace
    <3> SUFFICES ASSUME NEW q \in low .. u - 1 PROVE At(text, q) \in Whitespace OBVIOUS
    <3>1. q \in low .. high - 1 /\ q < tear BY <2>1
    <3>2. QED BY <1>5, <3>1
  <2>4. SkipWhitespace(text, low) = u BY <2>1, <2>2, <2>3, Skips
  <2>5. QED BY <2>4 DEF u
<1>6. ASSUME NEW p \in Nat \ {0}, At(text, p) \notin Whitespace
      PROVE  SkipWhitespace(text, p) = p
  BY <1>6, PastHere DEF SkipWhitespace
<1>7. ASSUME NEW k \in 1 .. m, b[k] < tear
      PROVE  /\ At(text, b[k]) \in Opening /\ At(text, b[k]) = items[k][1]
             /\ SkipWhitespace(text, b[k]) = b[k]
  <2>1. 1 \in 1 .. len(k) /\ b[k] + 1 - 1 = b[k] BY <1>4
  <2>2. b[k] + 1 - 1 < tear => At(text, b[k] + 1 - 1) = items[k][1] BY <1>2, <2>1
  <2>3. At(text, b[k]) = items[k][1] BY <1>7, <2>1, <2>2
  <2>4. At(text, b[k]) \in Opening BY <1>1, <2>3
  <2>5. QED BY <1>3, <1>4, <1>6, <2>3, <2>4
<1>8. SkipWhitespace(text, pos + 1) = Upto(tear, b[1])
  <2>1. 1 \in 1 .. m BY <1>1
  <2>2. /\ pos + 1 \in Nat \ {0} /\ b[1] \in Nat /\ pos + 1 <= b[1] /\ pos + 1 <= tear
        /\ b[1] <= last
    BY <1>4, <2>1
  <2>3. b[1] < tear => At(text, b[1]) \notin Whitespace BY <1>3, <1>7, <2>1
  <2> DEFINE low == pos + 1
             high == b[1]
  <2>4. White(low, high) BY <1>2
  <2>5. low \in Nat \ {0} /\ high \in Nat /\ low <= high /\ low <= tear /\ high <= last
    BY <2>2
  <2>6. high < tear => At(text, high) \notin Whitespace BY <2>3
  <2> HIDE DEF low, high, White
  <2>7. SkipWhitespace(text, low) = Upto(tear, high) BY <1>5, <2>4, <2>5, <2>6
  <2>8. QED BY <2>7 DEF low, high
<1>9. ASSUME NEW k \in 1 .. m, stop(k) <= tear
       PROVE  Spelt(text, b[k], items[k]) /\ At(text, stop(k)) \in Stops
  <2>1. ASSUME NEW i \in 1 .. len(k) PROVE At(text, b[k] + i - 1) = items[k][i]
    <3>1. b[k] + i - 1 < tear BY <1>4, <1>9
    <3>2. QED BY <1>2, <3>1
  <2>2. Spelt(text, b[k], items[k]) BY <2>1 DEF Spelt, Written, len
  <2>3. At(text, stop(k)) \in Stops
    <3>1. CASE stop(k) = tear
      <4>1. tear # last + 1 BY <1>4, <3>1
      <4>2. QED BY <1>3, <3>1, <4>1
    <3>2. CASE stop(k) # tear /\ k = m
      <4>1. stop(m) < tear BY <1>4, <1>9, <3>2
      <4>2. QED BY <1>2, <1>3, <3>2, <4>1
    <3>3. CASE stop(k) # tear /\ k # m
      <4>1. stop(k) < tear /\ k \in 1 .. m - 1 BY <1>1, <1>4, <1>9, <3>3
      <4>2. QED BY <1>2, <1>3, <4>1
    <3>4. QED BY <3>1, <3>2, <3>3
  <2>4. QED BY <2>2, <2>3
<1>10. ASSUME NEW k \in 1 .. m - 1
       PROVE  /\ stop(k) < b[k + 1]
              /\ stop(k) < tear =>
                    /\ At(text, stop(k)) = Comma
                    /\ SkipWhitespace(text, stop(k)) = stop(k)
                    /\ SkipWhitespace(text, stop(k) + 1) = Upto(tear, b[k + 1])
  <2>1. k \in 1 .. m /\ k + 1 \in 1 .. m BY <1>1
  <2>2. stop(k) < b[k + 1] BY <1>2
  <2>3. ASSUME stop(k) < tear
        PROVE  At(text, stop(k)) = Comma /\ SkipWhitespace(text, stop(k)) = stop(k)
    <3>1. At(text, stop(k)) = Comma BY <1>2, <2>3
    <3>2. stop(k) \in Nat \ {0} BY <1>4, <2>1
    <3>3. QED BY <1>3, <1>6, <3>1, <3>2
  <2> DEFINE low == stop(k) + 1
             high == b[k + 1]
  <2>4. ASSUME stop(k) < tear PROVE SkipWhitespace(text, low) = Upto(tear, high)
    <3>1. White(low, high) BY <1>2
    <3>2. low \in Nat \ {0} /\ high \in Nat /\ low <= high /\ low <= tear /\ high <= last
      <4>1. stop(k) \in Nat /\ b[k + 1] \in Nat /\ stop(k + 1) <= last /\ len(k + 1) \in Nat
        BY <1>4, <2>1
      <4>2. QED BY <2>2, <2>4, <4>1, SMTT(30)
    <3>3. high < tear => At(text, high) \notin Whitespace BY <1>3, <1>7, <2>1
    <3> HIDE DEF low, high, White
    <3>4. QED BY <1>5, <3>1, <3>2, <3>3
  <2>5. QED BY <2>2, <2>3, <2>4
<1>11. ASSUME stop(m) <= tear PROVE SkipWhitespace(text, stop(m)) = Upto(tear, last)
  <2> DEFINE low == stop(m)
  <2>1. White(low, last) BY <1>2
  <2>2. low \in Nat \ {0} /\ low <= last /\ low <= tear BY <1>1, <1>4, <1>11
  <2>3. last < tear => At(text, last) \notin Whitespace BY <1>2, <1>3
  <2> HIDE DEF low, White
  <2>4. SkipWhitespace(text, low) = Upto(tear, last) BY <1>5, <2>1, <2>2, <2>3
  <2>5. QED BY <2>4 DEF low
<1>12. ASSUME NEW k \in 1 .. m
       PROVE  \A i \in 1 .. len(k) : b[k] + i - 1 < tear => At(text, b[k] + i - 1) = items[k][i]
  BY <1>2
<1>13. tear = last + 1 => At(text, last) = close BY <1>2
<1>14. At(text, pos) = open BY <1>2
<1>15. QED
  BY <1>4, <1>7, <1>8, <1>9, <1>10, <1>11, <1>12, <1>13, <1>14 DEF ListIn, m, len

-----------------------------------------------------------------------------
(* Whole values are read back, down to the limit and not beyond.           *)

Reader(text, rest) == \A place \in Places(text) : rest[place] = Loop(text, place, rest)

ReadsBack(text, rest, value, t) ==
    \A p \in Nat \ {0}, pos \in Nat \ {0}, depth \in 0 .. kMaxNestingDepth :
        SkipWhitespace(text, p) = pos /\ Spelt(text, pos, t) /\ At(text, pos + Len(t)) \in Stops
            => ParseValue(text, p, depth, rest)
                 = IF value \in Documents[kMaxNestingDepth - depth]
                   THEN Got(value, pos + Len(t)) ELSE Failed

\* A turn of the loop of an array, by what stands behind its value (json.cpp:193-217).
LEMMA ItemTurns ==
    ASSUME NEW text, NEW p, NEW depth, NEW rest, NEW value, NEW stop, NEW after,
           ParseValue(text, p, depth, rest) = Got(value, stop),
           SkipWhitespace(text, stop) = after
    PROVE  ParseItems(text, p, depth, rest) = ItemTurn(text, value, after, depth, rest)
<1> DEFINE item == ParseValue(text, p, depth, rest)
<1>1. item.ok /\ item.value = value /\ item.pos = stop BY DEF Got
<1> HIDE DEF item
<1>2. QED BY <1>1 DEF ParseItems, item

LEMMA ItemGoesOn ==
    ASSUME NEW text, NEW p, NEW depth, NEW rest, NEW value, NEW stop, NEW after,
           ParseValue(text, p, depth, rest) = Got(value, stop),
           SkipWhitespace(text, stop) = after,
           At(text, after) = Comma, NEW next, SkipWhitespace(text, after + 1) = next
    PROVE  ParseItems(text, p, depth, rest) =
               IF rest[<<"items", next, depth>>].ok
               THEN Got(<<value>> \o rest[<<"items", next, depth>>].value,
                        rest[<<"items", next, depth>>].pos)
               ELSE Failed
<1>1. Comma # CloseBracket BY PunctuationDiffers
<1>2. ItemTurn(text, value, after, depth, rest)
        = Prefixed(<<value>>, rest, <<"items", next, depth>>)
  BY <1>1 DEF ItemTurn, Closes
<1>3. ParseItems(text, p, depth, rest) = ItemTurn(text, value, after, depth, rest)
  BY ItemTurns
<1>4. QED BY <1>2, <1>3 DEF Prefixed

LEMMA ItemEnds ==
    ASSUME NEW text, NEW p, NEW depth, NEW rest, NEW value, NEW stop, NEW after,
           ParseValue(text, p, depth, rest) = Got(value, stop),
           SkipWhitespace(text, stop) = after,
           At(text, after) = CloseBracket
    PROVE  ParseItems(text, p, depth, rest) = Got(<<value>>, after + 1)
<1>1. Comma # CloseBracket BY PunctuationDiffers
<1>2. ItemTurn(text, value, after, depth, rest) = Got(<<value>>, after + 1)
  BY <1>1 DEF ItemTurn, Closes
<1>3. QED BY <1>2, ItemTurns

LEMMA ItemIsCut ==
    ASSUME NEW text, NEW p, NEW depth, NEW rest, NEW value, NEW stop, NEW after,
           ParseValue(text, p, depth, rest) = Got(value, stop),
           SkipWhitespace(text, stop) = after,
           At(text, after) \notin {Comma, CloseBracket}
    PROVE  ParseItems(text, p, depth, rest) = Failed
<1>1. ItemTurn(text, value, after, depth, rest) = Failed BY DEF ItemTurn, Closes
<1>2. QED BY <1>1, ItemTurns

LEMMA ItemFails ==
    ASSUME NEW text, NEW p, NEW depth, NEW rest, ParseValue(text, p, depth, rest) = Failed
    PROVE  ParseItems(text, p, depth, rest) = Failed
<1>1. ~ParseValue(text, p, depth, rest).ok BY DEF Failed
<1>2. QED BY <1>1 DEF ParseItems

\* Brackets around items.
LEMMA ArrayTurn ==
    ASSUME NEW T, NEW text \in Seq(T), NEW rest, Reader(text, rest), NEW pos,
           NEW depth \in Nat \ {0}, NEW inside \in 1 .. Len(text) + 1,
           SkipWhitespace(text, pos + 1) = inside
    PROVE  /\ TooDeep(depth) => ParseArray(text, pos, depth, rest) = Failed
           /\ ~TooDeep(depth) /\ At(text, inside) = CloseBracket =>
                 ParseArray(text, pos, depth, rest) = Got(Array(<<>>), inside + 1)
           /\ ~TooDeep(depth) /\ At(text, inside) # CloseBracket =>
                 ParseArray(text, pos, depth, rest) =
                     LET items == ParseItems(text, inside, depth, rest)
                     IN  IF items.ok THEN Got(Array(items.value), items.pos) ELSE Failed
<1> DEFINE place == <<"items", inside, depth>>
<1>1. ParseArray(text, pos, depth, rest) =
        IF TooDeep(depth) THEN Failed
        ELSE IF At(text, inside) = CloseBracket THEN Got(Array(<<>>), inside + 1)
        ELSE IF rest[place].ok THEN Got(Array(rest[place].value), rest[place].pos) ELSE Failed
  BY DEF ParseArray
<1>2. ~TooDeep(depth) => rest[place] = ParseItems(text, inside, depth, rest)
  <2>1. SUFFICES ASSUME ~TooDeep(depth)
                 PROVE  rest[place] = ParseItems(text, inside, depth, rest)
    OBVIOUS
  <2>2. depth \in 1 .. kMaxNestingDepth BY <2>1, JsonAssumption DEF TooDeep
  <2>3. place \in Places(text) BY <2>2 DEF Places
  <2>4. rest[place] = Loop(text, place, rest) BY <2>3 DEF Reader
  <2>5. place[1] = "items" /\ place[2] = inside /\ place[3] = depth OBVIOUS
  <2> HIDE DEF place
  <2>6. QED BY <2>4, <2>5 DEF Loop
<1> HIDE DEF place
<1>3. QED BY <1>1, <1>2

LEMMA EmptyBrackets ==
    ASSUME NEW open, NEW close, NEW level, NEW compact, NEW text, NEW pos \in Nat \ {0},
           Spelt(text, pos, Bracketed(open, <<>>, level, compact, close))
    PROVE  /\ Len(Bracketed(open, <<>>, level, compact, close)) = 2
           /\ At(text, pos) = open /\ At(text, pos + 1) = close
<1> DEFINE s == <<open, close>>
<1>1. Bracketed(open, <<>>, level, compact, close) = s BY DEF Bracketed
<1>2. Len(s) = 2 /\ s[1] = open /\ s[2] = close OBVIOUS
<1>3. Spelt(text, pos, s) BY <1>1
<1> HIDE DEF s
<1>4. 1 \in 1 .. Len(s) /\ 2 \in 1 .. Len(s) /\ pos + 1 - 1 = pos /\ pos + 2 - 1 = pos + 1
  BY <1>2
<1>5. At(text, pos + 1 - 1) = s[1] /\ At(text, pos + 2 - 1) = s[2]
  BY <1>3, <1>4 DEF Spelt, Written
<1>6. QED BY <1>1, <1>2, <1>4, <1>5

\* A whole list in a text.
LEMMA ListWritten ==
    ASSUME NEW T, NEW text \in Seq(T), NEW pos \in Nat \ {0},
           NEW open \in {OpenBracket, OpenBrace}, NEW close \in {CloseBracket, CloseBrace},
           NEW items, ItemsOk(items), items # <<>>, NEW level \in Nat, NEW compact \in BOOLEAN,
           NEW t, t = Bracketed(open, items, level, compact, close),
           NEW tear \in Nat, \A i \in 1 .. Len(t) : pos + i - 1 < tear => At(text, pos + i - 1) = t[i]
    PROVE  /\ Len(t) \in Nat \ {0}
           /\ \E b : Listed(text, tear, pos, (pos + Len(t)) - 1, b, items, open, close)
<1>1. items \in Seq(Seq(TextTokens)) BY DEF ItemsOk
<1>2. Whitespace \subseteq TextTokens /\ Comma \in TextTokens /\ open \in TextTokens
      /\ close \in TextTokens
  BY DEF TextTokens, Punctuation
<1>3. t \in Seq(TextTokens) /\ \E begin : Laid(t, begin, items, open, close)
  BY <1>1, <1>2, BracketedLaid
<1>4. PICK begin : Laid(t, begin, items, open, close) BY <1>3
<1> DEFINE b == [k \in 1 .. Len(items) |-> pos + begin[k] - 1]
           last == (pos + Len(t)) - 1
<1>5. \A k \in 1 .. Len(items) : b[k] = pos + begin[k] - 1 OBVIOUS
<1>6. last = (pos + Len(t)) - 1 OBVIOUS
<1> HIDE DEF b, last
<1>7. Listed(text, tear, pos, last, b, items, open, close)
  BY <1>1, <1>3, <1>4, <1>5, <1>6, ListedFrom
<1>8. Len(t) \in Nat \ {0}
  <2>1. TextOk(t) BY BracketedOk
  <2>2. QED BY <2>1 DEF TextOk
<1>9. QED BY <1>6, <1>7, <1>8

\* An array is read back when its items are.
LEMMA ArrayRead ==
    ASSUME NEW T, NEW text \in Seq(T), NEW rest, Reader(text, rest),
           NEW n \in Nat, NEW items \in Seq(Documents[n]), NEW level \in Nat,
           NEW compact \in BOOLEAN,
           \A value \in Documents[n] :
               ReadsBack(text, rest, value, Texts[n][<<value, level + 1, compact>>])
    PROVE  ReadsBack(text, rest, Array(items), Texts[n + 1][<<Array(items), level, compact>>])
<1> DEFINE V == Documents[n]
           t == Texts[n + 1][<<Array(items), level, compact>>]
           parts == ArrayItems(n, items, level, compact)
           m == Len(items)
<1>1. t = Bracketed(OpenBracket, parts, level, compact, CloseBracket)
  BY TextIs DEF ArrayItems
<1>2. ItemsOk(parts) /\ Len(parts) = m /\ m \in Nat
  <2>1. level + 1 \in Nat OBVIOUS
  <2>2. \A value \in Documents[n] : TextOk(Texts[n][<<value, level + 1, compact>>])
    BY <2>1, TextsAreOk
  <2>3. QED BY <2>2, ArrayItemsOk
<1>3. \A k \in 1 .. m : items[k] \in V /\ ReadsBack(text, rest, items[k], parts[k])
  BY DEF ArrayItems
<1>4. items \in Seq(V) OBVIOUS
<1> HIDE DEF V, t, parts, m
<1>5. SUFFICES ASSUME NEW p \in Nat \ {0}, NEW pos \in Nat \ {0}, NEW depth \in 0 .. kMaxNestingDepth,
                      SkipWhitespace(text, p) = pos, Spelt(text, pos, t),
                      At(text, pos + Len(t)) \in Stops
               PROVE  ParseValue(text, p, depth, rest) =
                        IF Array(items) \in Documents[kMaxNestingDepth - depth]
                        THEN Got(Array(items), pos + Len(t)) ELSE Failed
  BY DEF ReadsBack, t
<1> DEFINE limit == kMaxNestingDepth - depth
           inner == depth + 1
<1>6. /\ kMaxNestingDepth \in Nat /\ limit \in Nat /\ inner \in Nat \ {0}
      /\ TooDeep(inner) <=> limit = 0
      /\ limit # 0 => /\ inner \in 1 .. kMaxNestingDepth /\ inner \in 0 .. kMaxNestingDepth
                      /\ limit - 1 = kMaxNestingDepth - inner
  BY JsonAssumption DEF TooDeep
<1>7. Array(items) \in Documents[limit]
        <=> limit # 0 /\ \A k \in 1 .. m : items[k] \in Documents[limit - 1]
  BY <1>4, <1>6, ArrayDepth DEF m
<1> HIDE DEF limit, inner
<1>8. TextOk(t) BY <1>1, <1>2, BracketedOk
<1>9. Len(t) \in Nat \ {0} BY <1>8 DEF TextOk
<1>10. ASSUME At(text, pos) = OpenBracket
       PROVE  /\ ParseValue(text, p, depth, rest) = ParseArray(text, pos, inner, rest)
              /\ pos + 1 \in 1 .. Len(text) + 1
  <2>1. ParseValue(text, p, depth, rest) = ParseArray(text, pos, inner, rest)
    BY <1>5, <1>10, ArrayStarts DEF inner
  <2>2. At(text, pos) # "end" BY <1>10, PunctuationIsNoWord DEF Punctuation, Words
  <2>3. pos \in 1 .. Len(text) BY <2>2, AtEnds
  <2>4. QED BY <2>1, <2>3
<1>11. CASE m = 0
  <2>1. parts = <<>> /\ items = <<>>
    <3>1. parts \in Seq(Seq(TextTokens)) BY <1>2 DEF ItemsOk
    <3>2. Len(parts) = 0 /\ Len(items) = 0 BY <1>2, <1>11 DEF m
    <3>3. QED BY <1>4, <3>1, <3>2
  <2>2. Len(t) = 2 /\ At(text, pos) = OpenBracket /\ At(text, pos + 1) = CloseBracket
    BY <1>1, <1>5, <2>1, EmptyBrackets
  <2>3. CloseBracket \notin Whitespace BY TokensDiffer DEF Punctuation
  <2>4. SkipWhitespace(text, pos + 1) = pos + 1
    BY <2>2, <2>3, PastHere DEF SkipWhitespace
  <2>5. ParseArray(text, pos, inner, rest) =
          IF TooDeep(inner) THEN Failed ELSE Got(Array(<<>>), (pos + 1) + 1)
    BY <1>6, <1>10, <2>2, <2>4, ArrayTurn
  <2>6. Array(items) \in Documents[limit] <=> limit # 0 BY <1>2, <1>7, <1>11
  <2>7. (pos + 1) + 1 = pos + Len(t) BY <2>2
  <2>8. QED BY <1>6, <1>10, <2>1, <2>2, <2>5, <2>6, <2>7 DEF limit
<1>12. CASE m # 0
  <2> DEFINE last == (pos + Len(t)) - 1
             tear == last + 1
  <2>1. last \in Nat /\ tear = pos + Len(t) /\ tear \in Nat /\ pos < tear /\ tear <= last + 1
    BY <1>9
  <2>2. parts # <<>>
    <3>1. Len(<<>>) = 0 OBVIOUS
    <3>2. QED BY <1>2, <1>12, <3>1
  <2>3. \A i \in 1 .. Len(t) : pos + i - 1 < tear => At(text, pos + i - 1) = t[i]
    BY <1>5 DEF Spelt, Written
  <2>4. PICK b : Listed(text, tear, pos, last, b, parts, OpenBracket, CloseBracket)
    <3> HIDE DEF tear
    <3>1. QED BY <1>1, <1>2, <2>1, <2>2, <2>3, ListWritten
  <2> HIDE DEF last
  <2> DEFINE len(k) == Len(parts[k])
             stop(k) == b[k] + len(k)
  <2>5. /\ At(text, pos) = OpenBracket /\ At(text, last) = CloseBracket
        /\ SkipWhitespace(text, pos + 1) = Upto(tear, b[1])
        /\ \A k \in 1 .. m :
              /\ b[k] \in Nat \ {0} /\ len(k) \in Nat \ {0} /\ pos < b[k]
              /\ stop(k) <= last
              /\ b[k] < tear => /\ At(text, b[k]) \in Opening
                                /\ SkipWhitespace(text, b[k]) = b[k]
              /\ stop(k) <= tear => /\ Spelt(text, b[k], parts[k])
                                    /\ At(text, stop(k)) \in Stops
        /\ \A k \in 1 .. m - 1 :
              stop(k) < tear =>
                 /\ At(text, stop(k)) = Comma
                 /\ SkipWhitespace(text, stop(k)) = stop(k)
                 /\ SkipWhitespace(text, stop(k) + 1) = Upto(tear, b[k + 1])
        /\ stop(m) <= tear => SkipWhitespace(text, stop(m)) = Upto(tear, last)
    <3> DEFINE c == CloseBracket
    <3>1. c \in {CloseBracket, CloseBrace} OBVIOUS
    <3>2. Listed(text, tear, pos, last, b, parts, OpenBracket, c) BY <2>4
    <3>3. tear = last + 1 OBVIOUS
    <3> HIDE DEF c, tear
    <3>4. ListIn(text, tear, pos, last, b, parts, OpenBracket, c)
      BY <1>2, <2>1, <2>2, <3>1, <3>2, <3>3, ListStands
    <3>5. QED BY <1>2, <3>3, <3>4 DEF ListIn, c
  <2> DEFINE r == [k \in 1 .. m |-> ParseItems(text, b[k], inner, rest)]
             good == {k \in 1 .. m : items[k] \in Documents[limit - 1]}
  <2>6. CASE limit = 0
    <3>1. ParseArray(text, pos, inner, rest) = Failed BY <1>6, <2>6 DEF ParseArray
    <3>2. QED BY <1>7, <1>10, <2>5, <2>6, <3>1 DEF limit
  <2>7. CASE limit # 0
    <3>1. \A x \in Nat : x <= last => Upto(tear, x) = x BY <2>1 DEF Upto
    <3>2. ASSUME NEW k \in 1 .. m
          PROVE  /\ b[k] \in 1 .. Len(text) + 1 /\ b[k] <= last
                 /\ SkipWhitespace(text, b[k]) = b[k] /\ At(text, b[k]) \in Opening
                 /\ stop(k) \in Nat
                 /\ ParseValue(text, b[k], inner, rest) =
                      IF k \in good THEN Got(items[k], stop(k)) ELSE Failed
      <4>1. b[k] < tear /\ stop(k) <= tear /\ stop(k) \in Nat /\ b[k] <= last
        <5> DEFINE l == len(k)
        <5>1. /\ b[k] \in Nat \ {0} /\ l \in Nat \ {0} /\ b[k] + l <= last
          BY <2>5
        <5> HIDE DEF l
        <5>2. b[k] < tear /\ b[k] + l <= tear /\ b[k] + l \in Nat /\ b[k] <= last
          BY <2>1, <5>1
        <5>3. QED BY <5>2 DEF l
      <4>2. At(text, b[k]) \in Opening /\ SkipWhitespace(text, b[k]) = b[k]
        BY <2>5, <4>1
      <4>3. b[k] \in 1 .. Len(text) BY <2>5, <4>2, TokensDiffer, AtEnds
      <4>4. Spelt(text, b[k], parts[k]) /\ At(text, stop(k)) \in Stops BY <2>5, <4>1
      <4>5. ReadsBack(text, rest, items[k], parts[k]) BY <1>3
      <4>6. inner \in 0 .. kMaxNestingDepth /\ b[k] \in Nat \ {0}
            /\ limit - 1 = kMaxNestingDepth - inner
        BY <1>6, <2>5, <2>7
      <4>7. ParseValue(text, b[k], inner, rest) =
              IF items[k] \in Documents[kMaxNestingDepth - inner]
              THEN Got(items[k], stop(k)) ELSE Failed
        BY <4>2, <4>4, <4>5, <4>6 DEF ReadsBack
      <4>8. b[k] \in 1 .. Len(text) + 1 BY <4>3
      <4>9. QED BY <4>1, <4>2, <4>6, <4>7, <4>8
    <3>3. ASSUME NEW k \in 1 .. m
          PROVE  r[k] = IF k \notin good THEN Failed
                        ELSE IF k = m THEN Got(<<items[k]>>, last + 1)
                        ELSE IF r[k + 1].ok
                        THEN Got(<<items[k]>> \o r[k + 1].value, r[k + 1].pos) ELSE Failed
      <4> DEFINE x == ParseItems(text, b[k], inner, rest)
      <4>1. r[k] = x OBVIOUS
      <4>2. CASE k \notin good
        <5>1. x = Failed BY <3>2, <4>2, ItemFails
        <5> HIDE DEF x, r
        <5>2. QED BY <4>1, <4>2, <5>1
      <4>3. CASE k \in good /\ k = m
        <5>1. SkipWhitespace(text, stop(k)) = last
          <6>1. stop(m) <= tear
            <7> DEFINE e == stop(m)
            <7>1. e \in Nat /\ e <= last /\ last \in Nat /\ tear = last + 1
              BY <2>1, <2>5, <3>2, <4>3
            <7> HIDE DEF e, last
            <7>2. e <= tear BY <7>1
            <7>3. QED BY <7>2 DEF e
          <6>2. SkipWhitespace(text, stop(m)) = Upto(tear, last) BY <2>5, <6>1
          <6>3. Upto(tear, last) = last BY <2>1, <3>1
          <6>4. stop(k) = stop(m) BY <4>3
          <6>5. QED BY <6>2, <6>3, <6>4
        <5>2. ParseValue(text, b[k], inner, rest) = Got(items[k], stop(k)) BY <3>2, <4>3
        <5> DEFINE e == stop(k)
        <5> HIDE DEF e
        <5>3. SkipWhitespace(text, e) = last BY <5>1 DEF e
        <5>4. ParseValue(text, b[k], inner, rest) = Got(items[k], e) BY <5>2 DEF e
        <5>5. At(text, last) = CloseBracket BY <2>5
        <5>6. x = Got(<<items[k]>>, last + 1) BY <5>3, <5>4, <5>5, ItemEnds
        <5> HIDE DEF x, r
        <5>7. QED BY <4>1, <4>3, <5>6
      <4>4. CASE k \in good /\ k # m
        <5>1. k \in 1 .. m - 1 /\ k + 1 \in 1 .. m BY <1>2, <4>4
        <5>2. stop(k) < tear BY <2>1, <2>5, <3>2
        <5>3. /\ At(text, stop(k)) = Comma /\ SkipWhitespace(text, stop(k)) = stop(k)
              /\ SkipWhitespace(text, stop(k) + 1) = b[k + 1]
          BY <2>5, <3>1, <3>2, <5>1, <5>2
        <5>4. ParseValue(text, b[k], inner, rest) = Got(items[k], stop(k)) BY <3>2, <4>4
        <5> DEFINE place == <<"items", b[k + 1], inner>>
                   y == rest[place]
        <5>5. x = IF y.ok THEN Got(<<items[k]>> \o y.value, y.pos) ELSE Failed
          <6> DEFINE e == stop(k)
          <6>1. /\ At(text, e) = Comma /\ SkipWhitespace(text, e) = e
                /\ SkipWhitespace(text, e + 1) = b[k + 1]
                /\ ParseValue(text, b[k], inner, rest) = Got(items[k], e)
            BY <5>3, <5>4
          <6> HIDE DEF e
          <6>2. QED BY <6>1, ItemGoesOn
        <5>6. y = r[k + 1]
          <6>1. inner \in 1 .. kMaxNestingDepth BY <1>6, <2>7
          <6>2. b[k + 1] \in 1 .. Len(text) + 1 BY <3>2, <5>1
          <6>3. place \in Places(text) BY <6>1, <6>2 DEF Places
          <6>4. y = Loop(text, place, rest) BY <1>4, <6>3 DEF Reader
          <6>5. place[1] = "items" /\ place[2] = b[k + 1] /\ place[3] = inner OBVIOUS
          <6> HIDE DEF place
          <6>6. y = ParseItems(text, b[k + 1], inner, rest) BY <6>4, <6>5 DEF Loop
          <6>7. QED BY <5>1, <6>6
        <5> HIDE DEF x, r, y
        <5>7. QED BY <4>1, <4>4, <5>5, <5>6
      <4>5. QED BY <4>2, <4>3, <4>4
    <3>4. r[1] = IF 1 .. m \subseteq good THEN Got(items, last + 1) ELSE Failed
      <4>1. items # <<>>
        <5>1. Len(<<>>) = 0 OBVIOUS
        <5>2. QED BY <1>12, <5>1 DEF m
      <4> DEFINE e == last + 1
      <4> HIDE DEF r, good
      <4>2. LoopIs(items, good, r, e) BY <3>3 DEF LoopIs, m
      <4> HIDE DEF e
      <4>3. r[1] = IF 1 .. Len(items) \subseteq good THEN Got(items, e) ELSE Failed
        BY <1>4, <4>1, <4>2, LoopReads
      <4>4. QED BY <4>3 DEF e, m
    <3>5. 1 .. m \subseteq good <=> Array(items) \in Documents[limit] BY <1>7, <2>7
    <3>6. 1 \in 1 .. m BY <1>2, <1>12
    <3>7. SkipWhitespace(text, pos + 1) = b[1] /\ b[1] \in 1 .. Len(text) + 1
          /\ At(text, b[1]) # CloseBracket
      <4>1. SkipWhitespace(text, pos + 1) = b[1] BY <2>5, <3>1, <3>2, <3>6
      <4>2. At(text, b[1]) \in Opening /\ b[1] \in 1 .. Len(text) + 1 BY <3>2, <3>6
      <4>3. CloseBracket \notin Opening
        BY PunctuationDiffers, PunctuationIsNoWord DEF Punctuation, Words, Opening, Literals
      <4>4. QED BY <4>1, <4>2, <4>3
    <3> DEFINE x == ParseItems(text, b[1], inner, rest)
    <3>8. x = r[1] BY <3>6
    <3> HIDE DEF r, good
    <3>9. ParseArray(text, pos, inner, rest)
            = IF x.ok THEN Got(Array(x.value), x.pos) ELSE Failed
      BY <1>6, <2>7, <3>7, ArrayTurn
    <3> HIDE DEF x
    <3>10. x = IF Array(items) \in Documents[limit] THEN Got(items, last + 1) ELSE Failed
      BY <3>4, <3>5, <3>8
    <3>11. ParseArray(text, pos, inner, rest)
             = IF Array(items) \in Documents[limit] THEN Got(Array(items), last + 1) ELSE Failed
      <4>1. CASE Array(items) \in Documents[limit]
        <5>1. x.ok /\ x.value = items /\ x.pos = last + 1 BY <3>10, <4>1 DEF Got
        <5>2. QED BY <3>9, <4>1, <5>1
      <4>2. CASE Array(items) \notin Documents[limit]
        <5>1. ~x.ok BY <3>10, <4>2 DEF Failed
        <5>2. QED BY <3>9, <4>2, <5>1
      <4>3. QED BY <4>1, <4>2
    <3>12. QED BY <1>10, <2>1, <2>5, <3>11 DEF limit, tear
  <2>8. QED BY <2>6, <2>7
<1>13. QED BY <1>11, <1>12

\* A member stands from b on: its key, the colon at q and the value up to stop.
MemberAt(text, p, depth, rest, b, key, q, value, stop) ==
    /\ SkipWhitespace(text, p) = b
    /\ ParseString(text, b) = Got(key, q)
    /\ SkipWhitespace(text, q) = q /\ At(text, q) = Colon
    /\ ParseValue(text, q + 1, depth, rest) = Got(value, stop)

\* A turn of the loop of an object, by what stands behind its value (json.cpp:234-271).
LEMMA MemberTurns ==
    ASSUME NEW text, NEW p, NEW depth, NEW rest, NEW b, NEW key, NEW q, NEW value, NEW stop,
           MemberAt(text, p, depth, rest, b, key, q, value, stop),
           NEW after, SkipWhitespace(text, stop) = after
    PROVE  ParseMembers(text, p, depth, rest)
             = MemberTurn(text, <<key, value>>, after, depth, rest)
<1> DEFINE k == ParseString(text, b)
           v == ParseValue(text, q + 1, depth, rest)
<1>1. k.ok /\ k.value = key /\ k.pos = q BY DEF Got, MemberAt
<1>2. v.ok /\ v.value = value /\ v.pos = stop BY DEF Got, MemberAt
<1>3. SkipWhitespace(text, p) = b /\ SkipWhitespace(text, q) = q /\ At(text, q) = Colon
  BY DEF MemberAt
<1> DEFINE turn(key2, colon, value2) ==
             IF key2.ok /\ At(text, colon) = Colon /\ value2.ok
             THEN MemberTurn(text, <<key2.value, value2.value>>,
                             SkipWhitespace(text, value2.pos), depth, rest)
             ELSE Failed
<1>4. ParseMembers(text, p, depth, rest) = turn(k, q, v)
  <2>1. SkipWhitespace(text, k.pos) = q BY <1>1, <1>3
  <2> HIDE DEF turn
  <2>2. ParseMembers(text, p, depth, rest)
          = turn(k, SkipWhitespace(text, k.pos),
                 ParseValue(text, SkipWhitespace(text, k.pos) + 1, depth, rest))
    BY <1>3 DEF ParseMembers, turn
  <2>3. QED BY <2>1, <2>2
<1> HIDE DEF k, v
<1>5. turn(k, q, v) = MemberTurn(text, <<key, value>>, after, depth, rest)
  BY <1>1, <1>2, <1>3
<1> HIDE DEF turn
<1>6. QED BY <1>4, <1>5

LEMMA MemberGoesOn ==
    ASSUME NEW text, NEW p, NEW depth, NEW rest, NEW b, NEW key, NEW q, NEW value, NEW stop,
           MemberAt(text, p, depth, rest, b, key, q, value, stop),
           NEW after, SkipWhitespace(text, stop) = after, At(text, after) = Comma
    PROVE  ParseMembers(text, p, depth, rest) =
               IF rest[<<"members", after + 1, depth>>].ok
               THEN Got(<<(<<key, value>>)>> \o rest[<<"members", after + 1, depth>>].value,
                        rest[<<"members", after + 1, depth>>].pos)
               ELSE Failed
<1>1. Comma # CloseBrace BY PunctuationDiffers
<1>2. MemberTurn(text, <<key, value>>, after, depth, rest)
        = Prefixed(<<(<<key, value>>)>>, rest, <<"members", after + 1, depth>>)
  BY <1>1 DEF MemberTurn, Closes
<1>3. ParseMembers(text, p, depth, rest)
        = MemberTurn(text, <<key, value>>, after, depth, rest)
  BY MemberTurns
<1>4. QED BY <1>2, <1>3 DEF Prefixed

LEMMA MemberEnds ==
    ASSUME NEW text, NEW p, NEW depth, NEW rest, NEW b, NEW key, NEW q, NEW value, NEW stop,
           MemberAt(text, p, depth, rest, b, key, q, value, stop),
           NEW after, SkipWhitespace(text, stop) = after, At(text, after) = CloseBrace
    PROVE  ParseMembers(text, p, depth, rest) = Got(<<(<<key, value>>)>>, after + 1)
<1>1. Comma # CloseBrace BY PunctuationDiffers
<1>2. MemberTurn(text, <<key, value>>, after, depth, rest) = Got(<<(<<key, value>>)>>, after + 1)
  BY <1>1 DEF MemberTurn, Closes
<1>3. QED BY <1>2, MemberTurns

LEMMA MemberIsCut ==
    ASSUME NEW text, NEW p, NEW depth, NEW rest, NEW b, NEW key, NEW q, NEW value, NEW stop,
           MemberAt(text, p, depth, rest, b, key, q, value, stop),
           NEW after, SkipWhitespace(text, stop) = after,
           At(text, after) \notin {Comma, CloseBrace}
    PROVE  ParseMembers(text, p, depth, rest) = Failed
<1>1. MemberTurn(text, <<key, value>>, after, depth, rest) = Failed BY DEF MemberTurn, Closes
<1>2. QED BY <1>1, MemberTurns

LEMMA MemberFails ==
    ASSUME NEW text, NEW p, NEW depth, NEW rest, NEW b, SkipWhitespace(text, p) = b,
           \/ ParseString(text, b) = Failed
           \/ \E key, q : /\ ParseString(text, b) = Got(key, q)
                          /\ SkipWhitespace(text, q) = q
                          /\ \/ At(text, q) # Colon
                             \/ ParseValue(text, q + 1, depth, rest) = Failed
    PROVE  ParseMembers(text, p, depth, rest) = Failed
<1>1. CASE ParseString(text, b) = Failed
  <2>1. ~ParseString(text, b).ok BY <1>1 DEF Failed
  <2>2. QED BY <2>1 DEF ParseMembers
<1>2. ASSUME NEW key, NEW q, ParseString(text, b) = Got(key, q), SkipWhitespace(text, q) = q,
             At(text, q) # Colon \/ ParseValue(text, q + 1, depth, rest) = Failed
      PROVE  ParseMembers(text, p, depth, rest) = Failed
  <2>1. ParseString(text, b).pos = q BY <1>2 DEF Got
  <2>2. At(text, q) # Colon \/ ~ParseValue(text, q + 1, depth, rest).ok
    BY <1>2 DEF Failed
  <2>3. QED BY <1>2, <2>1, <2>2 DEF ParseMembers
<1>3. QED BY <1>1, <1>2

\* An object by what stands behind its bracket (json.cpp:219-271).
LEMMA ObjectTurn ==
    ASSUME NEW T, NEW text \in Seq(T), NEW rest, Reader(text, rest), NEW pos,
           NEW depth \in Nat \ {0}, NEW inside \in 1 .. Len(text) + 1,
           SkipWhitespace(text, pos + 1) = inside
    PROVE  /\ TooDeep(depth) => ParseObject(text, pos, depth, rest) = Failed
           /\ ~TooDeep(depth) /\ At(text, inside) = CloseBrace =>
                 ParseObject(text, pos, depth, rest) = Got(Object(<<>>), inside + 1)
           /\ ~TooDeep(depth) /\ At(text, inside) # CloseBrace =>
                 ParseObject(text, pos, depth, rest) =
                     LET members == ParseMembers(text, inside, depth, rest)
                     IN  IF members.ok THEN Got(SetAll(members.value), members.pos) ELSE Failed
<1> DEFINE place == <<"members", inside, depth>>
<1>1. ParseObject(text, pos, depth, rest) =
        IF TooDeep(depth) THEN Failed
        ELSE IF At(text, inside) = CloseBrace THEN Got(Object(<<>>), inside + 1)
        ELSE IF rest[place].ok THEN Got(SetAll(rest[place].value), rest[place].pos) ELSE Failed
  BY DEF ParseObject
<1>2. ~TooDeep(depth) => rest[place] = ParseMembers(text, inside, depth, rest)
  <2>1. SUFFICES ASSUME ~TooDeep(depth)
                 PROVE  rest[place] = ParseMembers(text, inside, depth, rest)
    OBVIOUS
  <2>2. depth \in 1 .. kMaxNestingDepth BY <2>1, JsonAssumption DEF TooDeep
  <2>3. place \in Places(text) BY <2>2 DEF Places
  <2>4. rest[place] = Loop(text, place, rest) BY <2>3 DEF Reader
  <2>5. place[1] = "members" /\ place[2] = inside /\ place[3] = depth OBVIOUS
  <2> HIDE DEF place
  <2>6. QED BY <2>4, <2>5 DEF Loop
<1> HIDE DEF place
<1>3. QED BY <1>1, <1>2

\* The parts of a member's text, in a text that may be torn.
MemberIn(text, tear, b, key, compact, t) ==
    LET e == EscapeString(key)
        q == b + Len(e)
        v == q + Len(ColonText(compact))
    IN  /\ \A i \in 1 .. Len(e) : b + i - 1 < tear => At(text, b + i - 1) = e[i]
        /\ q <= tear => Spelt(text, b, e)
        /\ q < tear => /\ At(text, q) = Colon /\ SkipWhitespace(text, q) = q
                       /\ SkipWhitespace(text, q + 1) = Upto(tear, v)
        /\ \A i \in 1 .. Len(t) : v + i - 1 < tear => At(text, v + i - 1) = t[i]
        /\ v < tear => At(text, v) \in Opening

\* Where key, colon and value of a member stand, up to a tear.
LEMMA MemberStands ==
    ASSUME NEW T, NEW text \in Seq(T), NEW tear \in Nat, NEW b \in Nat \ {0},
           NEW key \in MemberKeys, NEW compact \in BOOLEAN, NEW t, TextOk(t),
           NEW s, s = EscapeString(key) \o ColonText(compact) \o t,
           \A i \in 1 .. Len(s) : b + i - 1 < tear => At(text, b + i - 1) = s[i],
           tear >= b + Len(s) \/ At(text, tear) \in {"end", "torn"}
    PROVE  MemberIn(text, tear, b, key, compact, t)
<1> DEFINE e == EscapeString(key)
           c == ColonText(compact)
           x == Len(e)
           y == Len(c)
           z == Len(t)
           q == b + x
           v == q + y
<1>1. /\ e \in Seq(TextTokens) /\ c \in Seq(TextTokens) /\ t \in Seq(TextTokens)
      /\ e \o c \in Seq(TextTokens) /\ x # 0 /\ z # 0 /\ Len(s) = x + y + z
      /\ t[1] \in Opening
  BY EscapedOk, MemberText DEF TextOk
<1>2. /\ x \in Nat \ {0} /\ y \in Nat /\ z \in Nat \ {0} BY <1>1
<1>3. /\ c[1] = Colon /\ y \in 1 .. 2
      /\ y = 2 => c[2] = Blank
  BY DEF ColonText
<1>4. /\ \A i \in 1 .. x : s[i] = e[i]
      /\ \A i \in 1 .. y : s[x + i] = c[i]
      /\ \A i \in 1 .. z : s[x + y + i] = t[i]
  <2> DEFINE ec == e \o c
  <2>1. /\ Len(ec) = x + y /\ \A i \in 1 .. x : ec[i] = e[i]
        /\ \A i \in 1 .. y : ec[x + i] = c[i]
    BY <1>1, ConcatParts
  <2>2. ec \in Seq(TextTokens) /\ s = ec \o t /\ t \in Seq(TextTokens) BY <1>1
  <2> HIDE DEF ec, e, c
  <2>3. /\ \A i \in 1 .. Len(ec) : (ec \o t)[i] = ec[i]
        /\ \A i \in 1 .. z : (ec \o t)[Len(ec) + i] = t[i]
    BY <2>2, ConcatParts
  <2> HIDE DEF x, y, z
  <2>4. \A i \in 1 .. x : i \in 1 .. Len(ec) BY <1>2, <2>1
  <2>5. \A i \in 1 .. y : x + i \in 1 .. Len(ec) BY <1>2, <2>1
  <2>6. QED BY <2>1, <2>2, <2>3, <2>4, <2>5
<1>5. \A i \in 1 .. Len(s) : b + i - 1 < tear => At(text, b + i - 1) = s[i] OBVIOUS
<1>6. tear >= b + (x + y + z) \/ At(text, tear) \in {"end", "torn"} BY <1>1
<1> HIDE DEF e, c, x, y, z
<1>7. \A i \in 1 .. x : b + i - 1 < tear => At(text, b + i - 1) = e[i]
  <2> SUFFICES ASSUME NEW i \in 1 .. x, b + i - 1 < tear PROVE At(text, b + i - 1) = e[i]
    OBVIOUS
  <2>1. i \in 1 .. Len(s) BY <1>1, <1>2
  <2>2. QED BY <1>4, <1>5, <2>1
<1>8. \A i \in 1 .. y : q + i - 1 < tear => At(text, q + i - 1) = c[i]
  <2> SUFFICES ASSUME NEW i \in 1 .. y, q + i - 1 < tear PROVE At(text, q + i - 1) = c[i]
    OBVIOUS
  <2> DEFINE k == x + i
  <2>1. k \in 1 .. Len(s) /\ b + k - 1 = q + i - 1 BY <1>1, <1>2
  <2>2. s[k] = c[i] BY <1>4
  <2> HIDE DEF k
  <2>3. QED BY <1>5, <2>1, <2>2
<1>9. \A i \in 1 .. z : v + i - 1 < tear => At(text, v + i - 1) = t[i]
  <2> SUFFICES ASSUME NEW i \in 1 .. z, v + i - 1 < tear PROVE At(text, v + i - 1) = t[i]
    OBVIOUS
  <2> DEFINE k == x + y + i
  <2>1. k \in 1 .. Len(s) /\ b + k - 1 = v + i - 1 BY <1>1, <1>2
  <2>2. s[k] = t[i] BY <1>4
  <2> HIDE DEF k
  <2>3. QED BY <1>5, <2>1, <2>2
<1>10. q <= tear => Spelt(text, b, e)
  <2> SUFFICES ASSUME q <= tear, NEW i \in 1 .. x PROVE At(text, b + i - 1) = e[i]
    BY DEF Spelt, Written, x
  <2>1. b + i - 1 < tear BY <1>2
  <2>2. QED BY <1>7, <2>1
<1>11. /\ Colon \notin Whitespace /\ Opening \cap Whitespace = {} /\ Blank \in Whitespace
       /\ "end" \notin Whitespace /\ "torn" \notin Whitespace
  BY TokensDiffer, WordsDiffer DEF Punctuation, Whitespace
<1>12. ASSUME q < tear
       PROVE  At(text, q) = Colon /\ SkipWhitespace(text, q) = q
  <2>1. 1 \in 1 .. y /\ q + 1 - 1 = q /\ q \in Nat \ {0} BY <1>2, <1>3
  <2>2. At(text, q) = Colon BY <1>3, <1>8, <1>12, <2>1
  <2>3. QED BY <1>11, <2>1, <2>2, PastHere DEF SkipWhitespace
<1>13. ASSUME v < tear PROVE At(text, v) \in Opening
  <2>1. 1 \in 1 .. z /\ v + 1 - 1 = v BY <1>2
  <2>2. At(text, v) = t[1] BY <1>9, <1>13, <2>1
  <2>3. QED BY <1>1, <2>2
<1>14. ASSUME q < tear PROVE SkipWhitespace(text, q + 1) = Upto(tear, v)
  <2> DEFINE u == Upto(tear, v)
             low == q + 1
  <2>1. low \in Nat \ {0} /\ u \in Nat /\ low <= u /\ u <= v /\ u <= tear /\ v <= q + 2
        /\ (u = v \/ u = tear) /\ (u = v => y = u - q)
    BY <1>2, <1>3, <1>14 DEF Upto
  <2>2. At(text, u) \notin Whitespace
    <3>1. CASE v < tear BY <1>11, <1>13, <3>1 DEF Upto
    <3>2. CASE ~(v < tear)
      <4>1. u = tear /\ ~(tear >= b + (x + y + z)) BY <1>2, <3>2 DEF Upto
      <4>2. QED BY <1>6, <1>11, <4>1
    <3>3. QED BY <3>1, <3>2
  <2>3. ASSUME NEW a \in low .. u - 1 PROVE At(text, a) \in Whitespace
    <3>1. a = q + 1 /\ y = 2 /\ a < tear BY <1>2, <1>3, <2>1, <2>3
    <3>2. 2 \in 1 .. y /\ q + 2 - 1 = a BY <1>2, <3>1
    <3>3. At(text, a) = Blank BY <1>3, <1>8, <3>1, <3>2
    <3>4. QED BY <1>11, <3>3
  <2> HIDE DEF u, low
  <2>4. SkipWhitespace(text, low) = u BY <2>1, <2>2, <2>3, Skips
  <2>5. QED BY <2>4 DEF u, low
<1>15. QED
  BY <1>7, <1>9, <1>10, <1>12, <1>13, <1>14 DEF MemberIn, e, c, x, y, z

\* An object's members are read back, the keys set one after another.
MembersReadBack(text, rest, members, t) ==
    \A p \in Nat \ {0}, pos \in Nat \ {0}, depth \in 0 .. kMaxNestingDepth :
        SkipWhitespace(text, p) = pos /\ Spelt(text, pos, t) /\ At(text, pos + Len(t)) \in Stops
            => ParseValue(text, p, depth, rest)
                 = IF /\ kMaxNestingDepth - depth # 0
                      /\ \A k \in 1 .. Len(members) :
                            members[k][2] \in Documents[(kMaxNestingDepth - depth) - 1]
                   THEN Got(SetAll(members), pos + Len(t)) ELSE Failed

\* A member that stands at b is read, or its value is not.
MemberRead(text, b, depth, rest, key, value, stop) ==
    \E q : /\ ParseString(text, b) = Got(key, q)
           /\ SkipWhitespace(text, q) = q /\ At(text, q) = Colon
           /\ ParseValue(text, q + 1, depth, rest) =
                IF value \in Documents[kMaxNestingDepth - depth]
                THEN Got(value, stop) ELSE Failed

\* A member is read back when its value is.
LEMMA MemberIsRead ==
    ASSUME NEW T, NEW text \in Seq(T), NEW rest, NEW b \in Nat \ {0}, NEW p, NEW depth \in 0 .. kMaxNestingDepth,
           NEW key \in MemberKeys, NEW compact \in BOOLEAN, NEW t, TextOk(t), NEW value,
           ReadsBack(text, rest, value, t), SkipWhitespace(text, p) = b,
           NEW s, s = EscapeString(key) \o ColonText(compact) \o t,
           Spelt(text, b, s), At(text, b + Len(s)) \in Stops
    PROVE  MemberRead(text, b, depth, rest, key, value, b + Len(s))
<1> DEFINE e == EscapeString(key)
           tear == b + Len(s)
           q == b + Len(e)
           v == q + Len(ColonText(compact))
<1>1. /\ e \in Seq(TextTokens) /\ Len(ColonText(compact)) \in Nat /\ t \in Seq(TextTokens)
      /\ Len(s) = Len(e) + Len(ColonText(compact)) + Len(t) /\ Len(e) \in Nat \ {0}
      /\ Len(t) \in Nat \ {0} /\ Len(s) \in Nat /\ Len(ColonText(compact)) # 0
  <2>1. e \in Seq(TextTokens) /\ Len(e) # 0 BY EscapedOk DEF TextOk
  <2>2. ColonText(compact) \in Seq(TextTokens) BY MemberText
  <2>3. Len(s) = Len(e) + Len(ColonText(compact)) + Len(t) BY MemberText
  <2>4. t \in Seq(TextTokens) /\ Len(t) # 0 BY DEF TextOk
  <2>5. Len(ColonText(compact)) # 0 BY DEF ColonText
  <2> HIDE DEF e
  <2>6. QED BY <2>1, <2>2, <2>3, <2>4, <2>5
<1>2. MemberIn(text, tear, b, key, compact, t)
  <2>1. \A i \in 1 .. Len(s) : b + i - 1 < tear => At(text, b + i - 1) = s[i]
    BY DEF Spelt, Written
  <2>2. tear \in Nat /\ tear >= b + Len(s) BY <1>1
  <2> HIDE DEF tear
  <2>3. QED BY <2>1, <2>2, MemberStands
<1>3. /\ q <= tear => Spelt(text, b, e)
      /\ q < tear => /\ At(text, q) = Colon /\ SkipWhitespace(text, q) = q
                     /\ SkipWhitespace(text, q + 1) = Upto(tear, v)
      /\ \A i \in 1 .. Len(t) : v + i - 1 < tear => At(text, v + i - 1) = t[i]
  BY <1>2 DEF MemberIn
<1> DEFINE le == Len(e)
           lc == Len(ColonText(compact))
           lt == Len(t)
           ls == Len(s)
<1>4. /\ le \in Nat \ {0} /\ lc \in Nat \ {0} /\ lt \in Nat \ {0} /\ ls = le + lc + lt
      /\ q = b + le /\ v = q + lc /\ tear = b + ls
  BY <1>1
<1> HIDE DEF e, q, v, tear, le, lc, lt, ls
<1>5. /\ q <= tear /\ q < tear /\ v < tear /\ v + lt = tear /\ q + 1 \in Nat \ {0} /\ v \in Nat \ {0}
  BY <1>4
<1>6. SkipWhitespace(text, q + 1) = v BY <1>3, <1>5 DEF Upto
<1>7. Spelt(text, v, t)
  <2> SUFFICES ASSUME NEW i \in 1 .. lt PROVE At(text, v + i - 1) = t[i]
    BY DEF Spelt, Written, lt
  <2>1. v + i - 1 < tear BY <1>4, <1>5
  <2>2. QED BY <1>3, <2>1 DEF lt
<1>8. At(text, v + Len(t)) \in Stops BY <1>5 DEF lt, tear
<1>9. ParseValue(text, q + 1, depth, rest) =
        IF value \in Documents[kMaxNestingDepth - depth] THEN Got(value, v + Len(t)) ELSE Failed
  BY <1>5, <1>6, <1>7, <1>8 DEF ReadsBack
<1>10. ParseString(text, b) = Got(key, q)
  <2>1. Written(text, b, e, Len(e)) BY <1>3, <1>5 DEF Spelt
  <2>2. "end" \notin Characters /\ key \in Seq(Characters) BY JsonAssumption
  <2>3. QED BY <2>1, <2>2, StringsAreReadBack DEF e, q
<1>11. v + Len(t) = b + Len(s) BY <1>5 DEF lt, tear
<1>12. QED BY <1>3, <1>5, <1>9, <1>10, <1>11 DEF MemberRead

\* An object is read back when the values of its members are.
LEMMA ObjectRead ==
    ASSUME NEW T, NEW text \in Seq(T), NEW rest, Reader(text, rest),
           NEW n \in Nat, NEW members \in Seq(MemberKeys \X Documents[n]), NEW level \in Nat,
           NEW compact \in BOOLEAN,
           \A value \in Documents[n] :
               ReadsBack(text, rest, value, Texts[n][<<value, level + 1, compact>>])
    PROVE  MembersReadBack(text, rest, members,
                           Texts[n + 1][<<Object(members), level, compact>>])
<1> DEFINE V == MemberKeys \X Documents[n]
           t == Texts[n + 1][<<Object(members), level, compact>>]
           parts == ObjectItems(n, members, level, compact)
           inside(k) == Texts[n][<<members[k][2], level + 1, compact>>]
           m == Len(members)
<1>1. t = Bracketed(OpenBrace, parts, level, compact, CloseBrace)
  BY TextIs DEF ObjectItems, ColonText
<1>2. ItemsOk(parts) /\ Len(parts) = m /\ m \in Nat
  <2>1. level + 1 \in Nat OBVIOUS
  <2>2. \A value \in Documents[n] : TextOk(Texts[n][<<value, level + 1, compact>>])
    BY <2>1, TextsAreOk
  <2>3. QED BY <2>2, ObjectItemsOk
<1>3. \A k \in 1 .. m :
         /\ members[k] = <<members[k][1], members[k][2]>>
         /\ members[k][1] \in MemberKeys /\ TextOk(inside(k))
         /\ ReadsBack(text, rest, members[k][2], inside(k))
         /\ parts[k] = EscapeString(members[k][1]) \o ColonText(compact) \o inside(k)
  <2> SUFFICES ASSUME NEW k \in 1 .. m
               PROVE  /\ members[k] = <<members[k][1], members[k][2]>>
                      /\ members[k][1] \in MemberKeys /\ TextOk(inside(k))
                      /\ ReadsBack(text, rest, members[k][2], inside(k))
                      /\ parts[k] = EscapeString(members[k][1]) \o ColonText(compact) \o inside(k)
    OBVIOUS
  <2> DEFINE D == Documents[n]
  <2>1. members[k] \in MemberKeys \X D OBVIOUS
  <2>2. parts[k] = EscapeString(members[k][1]) \o ColonText(compact) \o inside(k)
    <3>1. k \in DOMAIN members BY DEF m
    <3>2. QED BY <3>1 DEF ObjectItems
  <2>3. \A value \in D : /\ ReadsBack(text, rest, value, Texts[n][<<value, level + 1, compact>>])
                         /\ TextOk(Texts[n][<<value, level + 1, compact>>])
    <3>1. level + 1 \in Nat OBVIOUS
    <3>2. QED BY <3>1, TextsAreOk
  <2> HIDE DEF D
  <2>4. members[k][1] \in MemberKeys /\ members[k][2] \in D
        /\ members[k] = <<members[k][1], members[k][2]>>
    BY <2>1
  <2>5. QED BY <2>2, <2>3, <2>4
<1>4. members \in Seq(V) OBVIOUS
<1> HIDE DEF V, t, parts, inside, m
<1>5. SUFFICES ASSUME NEW p \in Nat \ {0}, NEW pos \in Nat \ {0}, NEW depth \in 0 .. kMaxNestingDepth,
                      SkipWhitespace(text, p) = pos, Spelt(text, pos, t),
                      At(text, pos + Len(t)) \in Stops
               PROVE  ParseValue(text, p, depth, rest) =
                        IF /\ kMaxNestingDepth - depth # 0
                           /\ \A k \in 1 .. m :
                                 members[k][2] \in Documents[(kMaxNestingDepth - depth) - 1]
                        THEN Got(SetAll(members), pos + Len(t)) ELSE Failed
  BY DEF MembersReadBack, t, m
<1> DEFINE limit == kMaxNestingDepth - depth
           inner == depth + 1
           shallow == \A k \in 1 .. m : members[k][2] \in Documents[limit - 1]
<1>6. /\ kMaxNestingDepth \in Nat /\ limit \in Nat /\ inner \in Nat \ {0}
      /\ TooDeep(inner) <=> limit = 0
      /\ limit # 0 => /\ inner \in 1 .. kMaxNestingDepth /\ inner \in 0 .. kMaxNestingDepth
                      /\ limit - 1 = kMaxNestingDepth - inner
  BY JsonAssumption DEF TooDeep
<1> HIDE DEF limit, inner
<1>8. TextOk(t) BY <1>1, <1>2, BracketedOk
<1>9. Len(t) \in Nat \ {0} BY <1>8 DEF TextOk
<1>10. ASSUME At(text, pos) = OpenBrace
       PROVE  /\ ParseValue(text, p, depth, rest) = ParseObject(text, pos, inner, rest)
              /\ pos + 1 \in 1 .. Len(text) + 1
  <2>1. ParseValue(text, p, depth, rest) = ParseObject(text, pos, inner, rest)
    BY <1>5, <1>10, ObjectStarts DEF inner
  <2>2. At(text, pos) # "end" BY <1>10, PunctuationIsNoWord DEF Punctuation, Words
  <2>3. pos \in 1 .. Len(text) BY <2>2, AtEnds
  <2>4. QED BY <2>1, <2>3
<1>11. CASE m = 0
  <2>1. parts = <<>> /\ members = <<>>
    <3>1. parts \in Seq(Seq(TextTokens)) BY <1>2 DEF ItemsOk
    <3>2. Len(parts) = 0 /\ Len(members) = 0 BY <1>2, <1>11 DEF m
    <3>3. QED BY <1>4, <3>1, <3>2
  <2>2. Len(t) = 2 /\ At(text, pos) = OpenBrace /\ At(text, pos + 1) = CloseBrace
    BY <1>1, <1>5, <2>1, EmptyBrackets
  <2>3. CloseBrace \notin Whitespace BY TokensDiffer DEF Punctuation
  <2>4. SkipWhitespace(text, pos + 1) = pos + 1
    BY <2>2, <2>3, PastHere DEF SkipWhitespace
  <2>5. ParseObject(text, pos, inner, rest) =
          IF TooDeep(inner) THEN Failed ELSE Got(Object(<<>>), (pos + 1) + 1)
    BY <1>6, <1>10, <2>2, <2>4, ObjectTurn
  <2>6. SetAll(members) = Object(<<>>)
    <3>1. HasKeysOnce(Object(members)) BY <1>2, <1>11 DEF HasKeysOnce, Object, m
    <3>2. SetAll(members) = Object(members) BY <1>4, <3>1, SetAllKeeps DEF V
    <3>3. QED BY <2>1, <3>2
  <2>7. (pos + 1) + 1 = pos + Len(t) BY <2>2
  <2>8. shallow BY <1>11
  <2> HIDE DEF shallow
  <2>9. QED BY <1>6, <1>10, <2>1, <2>2, <2>5, <2>6, <2>7, <2>8 DEF limit, shallow
<1>12. CASE m # 0
  <2> DEFINE last == (pos + Len(t)) - 1
             tear == last + 1
  <2>1. last \in Nat /\ tear = pos + Len(t) /\ tear \in Nat /\ pos < tear /\ tear <= last + 1
    BY <1>9
  <2>2. parts # <<>>
    <3>1. Len(<<>>) = 0 OBVIOUS
    <3>2. QED BY <1>2, <1>12, <3>1
  <2>3. \A i \in 1 .. Len(t) : pos + i - 1 < tear => At(text, pos + i - 1) = t[i]
    BY <1>5 DEF Spelt, Written
  <2>4. PICK b : Listed(text, tear, pos, last, b, parts, OpenBrace, CloseBrace)
    <3> HIDE DEF tear
    <3>1. QED BY <1>1, <1>2, <2>1, <2>2, <2>3, ListWritten
  <2> HIDE DEF last
  <2> DEFINE len(k) == Len(parts[k])
             stop(k) == b[k] + len(k)
  <2>5. /\ At(text, pos) = OpenBrace /\ At(text, last) = CloseBrace
        /\ SkipWhitespace(text, pos + 1) = Upto(tear, b[1])
        /\ \A k \in 1 .. m :
              /\ b[k] \in Nat \ {0} /\ len(k) \in Nat \ {0} /\ pos < b[k]
              /\ stop(k) <= last
              /\ b[k] < tear => /\ At(text, b[k]) \in Opening /\ At(text, b[k]) = parts[k][1]
                                /\ SkipWhitespace(text, b[k]) = b[k]
              /\ stop(k) <= tear => /\ Spelt(text, b[k], parts[k])
                                    /\ At(text, stop(k)) \in Stops
        /\ \A k \in 1 .. m - 1 :
              stop(k) < tear =>
                 /\ At(text, stop(k)) = Comma
                 /\ SkipWhitespace(text, stop(k)) = stop(k)
                 /\ SkipWhitespace(text, stop(k) + 1) = Upto(tear, b[k + 1])
        /\ stop(m) <= tear => SkipWhitespace(text, stop(m)) = Upto(tear, last)
    <3> DEFINE c == CloseBrace
    <3>1. c \in {CloseBracket, CloseBrace} OBVIOUS
    <3>2. Listed(text, tear, pos, last, b, parts, OpenBrace, c) BY <2>4
    <3>3. tear = last + 1 OBVIOUS
    <3> HIDE DEF c, tear
    <3>4. ListIn(text, tear, pos, last, b, parts, OpenBrace, c)
      BY <1>2, <2>1, <2>2, <3>1, <3>2, <3>3, ListStands
    <3>5. QED BY <1>2, <3>3, <3>4 DEF ListIn, c
  \* Where the reader is before each member.
  <2> DEFINE from(k) == IF k = 1 THEN b[1] ELSE stop(k - 1) + 1
             r == [k \in 1 .. m |-> ParseMembers(text, from(k), inner, rest)]
             good == {k \in 1 .. m : members[k][2] \in Documents[limit - 1]}
  <2>6. CASE limit = 0
    <3>1. ParseObject(text, pos, inner, rest) = Failed BY <1>6, <2>6 DEF ParseObject
    <3>2. QED BY <1>10, <2>5, <2>6, <3>1 DEF limit
  <2>7. CASE limit # 0
    <3>1. \A x \in Nat : x <= last => Upto(tear, x) = x BY <2>1 DEF Upto
    <3>2. ASSUME NEW k \in 1 .. m
          PROVE  /\ b[k] \in 1 .. Len(text) /\ b[k] \in Nat \ {0} /\ b[k] <= last
                 /\ SkipWhitespace(text, b[k]) = b[k] /\ At(text, b[k]) = parts[k][1]
                 /\ At(text, b[k]) \in Opening
                 /\ stop(k) \in Nat /\ stop(k) < tear
                 /\ Spelt(text, b[k], parts[k]) /\ At(text, stop(k)) \in Stops
      <4>1. b[k] < tear /\ stop(k) < tear /\ stop(k) <= tear /\ stop(k) \in Nat /\ b[k] <= last
        <5> DEFINE l == len(k)
        <5>1. /\ b[k] \in Nat \ {0} /\ l \in Nat \ {0} /\ b[k] + l <= last
          BY <2>5
        <5> HIDE DEF l
        <5>2. /\ b[k] < tear /\ b[k] + l < tear /\ b[k] + l <= tear /\ b[k] + l \in Nat
              /\ b[k] <= last
          BY <2>1, <5>1, SMTT(30)
        <5>3. QED BY <5>2 DEF l
      <4>2. At(text, b[k]) \in Opening /\ At(text, b[k]) = parts[k][1]
            /\ SkipWhitespace(text, b[k]) = b[k]
        BY <2>5, <4>1
      <4>3. b[k] \in 1 .. Len(text) BY <2>5, <4>2, TokensDiffer, AtEnds
      <4>4. Spelt(text, b[k], parts[k]) /\ At(text, stop(k)) \in Stops BY <2>5, <4>1
      <4>5. b[k] \in Nat \ {0} BY <2>5
      <4>6. QED BY <4>1, <4>2, <4>3, <4>4, <4>5
    <3>3. ASSUME NEW k \in 1 .. m - 1
          PROVE  /\ At(text, stop(k)) = Comma /\ SkipWhitespace(text, stop(k)) = stop(k)
                 /\ SkipWhitespace(text, stop(k) + 1) = b[k + 1]
                 /\ stop(k) + 1 \in 1 .. Len(text) + 1
      <4>1. k \in 1 .. m /\ k + 1 \in 1 .. m BY <1>2
      <4>2. /\ At(text, stop(k)) = Comma /\ SkipWhitespace(text, stop(k)) = stop(k)
            /\ SkipWhitespace(text, stop(k) + 1) = b[k + 1]
        BY <2>5, <3>1, <3>2, <4>1
      <4>3. stop(k) \in Nat \ {0}
        <5>1. b[k] \in Nat \ {0} /\ len(k) \in Nat BY <2>5, <4>1
        <5> HIDE DEF len
        <5>2. QED BY <5>1
      <4> DEFINE x == stop(k)
      <4>4. At(text, x) # "end" /\ x \in Nat \ {0}
        BY <4>2, <4>3, PunctuationIsNoWord DEF Punctuation, Words
      <4> HIDE DEF x
      <4>5. x \in 1 .. Len(text) BY <4>4, AtEnds
      <4>6. x + 1 \in 1 .. Len(text) + 1 BY <4>5
      <4>7. QED BY <4>2, <4>6 DEF x
    <3>4. ASSUME NEW k \in 1 .. m
          PROVE  SkipWhitespace(text, from(k)) = b[k] /\ from(k) \in 1 .. Len(text) + 1
      <4>1. CASE k = 1 BY <3>2, <4>1
      <4>2. CASE k # 1
        <5> DEFINE j == k - 1
        <5>1. j \in 1 .. m - 1 /\ j + 1 = k BY <1>2, <4>2
        <5> HIDE DEF j
        <5>2. SkipWhitespace(text, stop(j) + 1) = b[j + 1] /\ stop(j) + 1 \in 1 .. Len(text) + 1
          BY <3>3, <5>1
        <5>3. from(k) = stop(j) + 1 BY <4>2 DEF j
        <5>4. QED BY <5>1, <5>2, <5>3
      <4>3. QED BY <4>1, <4>2
    <3>5. \A k \in 1 .. m - 1 : from(k + 1) = stop(k) + 1 /\ k + 1 \in 1 .. m
      BY <1>2
    <3> HIDE DEF from
    <3>6. ASSUME NEW k \in 1 .. m
          PROVE  \E q : /\ ParseString(text, b[k]) = Got(members[k][1], q)
                        /\ SkipWhitespace(text, q) = q /\ At(text, q) = Colon
                        /\ ParseValue(text, q + 1, inner, rest) =
                             IF k \in good THEN Got(members[k][2], stop(k)) ELSE Failed
      <4> DEFINE key == members[k][1]
                 value == members[k][2]
                 s == parts[k]
                 x == inside(k)
      <4>1. /\ key \in MemberKeys /\ TextOk(x) /\ ReadsBack(text, rest, value, x)
            /\ s = EscapeString(key) \o ColonText(compact) \o x
        BY <1>3
      <4>2. /\ Spelt(text, b[k], s) /\ At(text, b[k] + Len(s)) \in Stops
            /\ SkipWhitespace(text, from(k)) = b[k] /\ b[k] \in Nat \ {0}
        BY <3>2, <3>4
      <4>3. inner \in 0 .. kMaxNestingDepth /\ limit - 1 = kMaxNestingDepth - inner
        BY <1>6, <2>7
      <4>4. k \in good <=> value \in Documents[kMaxNestingDepth - inner] BY <4>3
      <4> HIDE DEF key, value, s, x, good
      <4>5. MemberRead(text, b[k], inner, rest, key, value, b[k] + Len(s))
        BY <4>1, <4>2, <4>3, MemberIsRead
      <4>6. QED BY <4>4, <4>5 DEF MemberRead, key, value, s
    <3>7. ASSUME NEW k \in 1 .. m
          PROVE  r[k] = IF k \notin good THEN Failed
                        ELSE IF k = m THEN Got(<<members[k]>>, last + 1)
                        ELSE IF r[k + 1].ok
                        THEN Got(<<members[k]>> \o r[k + 1].value, r[k + 1].pos) ELSE Failed
      <4> DEFINE x == ParseMembers(text, from(k), inner, rest)
                 e == stop(k)
                 key == members[k][1]
                 value == members[k][2]
      <4>1. r[k] = x OBVIOUS
      <4>2. PICK q : /\ ParseString(text, b[k]) = Got(key, q)
                     /\ SkipWhitespace(text, q) = q /\ At(text, q) = Colon
                     /\ ParseValue(text, q + 1, inner, rest) =
                          IF k \in good THEN Got(value, e) ELSE Failed
        BY <3>6
      <4>3. SkipWhitespace(text, from(k)) = b[k] BY <3>4
      <4>4. <<key, value>> = members[k] BY <1>3
      <4> HIDE DEF x, r, key, value
      <4>5. CASE k \notin good
        <5>1. x = Failed BY <4>2, <4>3, <4>5, MemberFails DEF x
        <5>2. QED BY <4>1, <4>5, <5>1
      <4>6. k \in good => MemberAt(text, from(k), inner, rest, b[k], key, q, value, e)
        BY <4>2, <4>3 DEF MemberAt
      <4>7. CASE k \in good /\ k = m
        <5>1. SkipWhitespace(text, e) = last
          <6>1. stop(m) \in Nat /\ stop(m) < tear BY <3>2, <4>7
          <6>2. stop(m) <= tear BY <2>1, <6>1
          <6>3. SkipWhitespace(text, stop(m)) = Upto(tear, last) BY <2>5, <6>2
          <6>4. Upto(tear, last) = last BY <2>1 DEF Upto
          <6>5. QED BY <4>7, <6>3, <6>4
        <5>2. At(text, last) = CloseBrace BY <2>5
        <5> HIDE DEF e
        <5>3. x = Got(<<(<<key, value>>)>>, last + 1) BY <4>6, <4>7, <5>1, <5>2, MemberEnds DEF x
        <5>4. QED BY <4>1, <4>4, <4>7, <5>3
      <4>8. CASE k \in good /\ k # m
        <5>1. k \in 1 .. m - 1 /\ k + 1 \in 1 .. m BY <1>2, <4>8
        <5>2. At(text, e) = Comma /\ SkipWhitespace(text, e) = e BY <3>3, <5>1
        <5>3. from(k + 1) = e + 1 /\ e + 1 \in 1 .. Len(text) + 1 BY <3>3, <3>5, <5>1
        <5> DEFINE place == <<"members", e + 1, inner>>
                   y == rest[place]
        <5> HIDE DEF e
        <5>4. x = IF y.ok THEN Got(<<(<<key, value>>)>> \o y.value, y.pos) ELSE Failed
          BY <4>6, <4>8, <5>2, MemberGoesOn DEF x
        <5>5. y = r[k + 1]
          <6>1. inner \in 1 .. kMaxNestingDepth BY <1>6, <2>7
          <6>2. place \in Places(text) BY <5>3, <6>1 DEF Places
          <6>3. y = Loop(text, place, rest) BY <6>2 DEF Reader
          <6>4. place[1] = "members" /\ place[2] = e + 1 /\ place[3] = inner OBVIOUS
          <6>5. "members" # "items" OBVIOUS
          <6> HIDE DEF place
          <6>6. y = ParseMembers(text, from(k + 1), inner, rest)
            BY <5>3, <6>3, <6>4, <6>5 DEF Loop
          <6>7. QED BY <5>1, <6>6 DEF r
        <5> HIDE DEF y
        <5>6. QED BY <4>1, <4>4, <4>8, <5>4, <5>5
      <4>9. QED BY <4>5, <4>7, <4>8
    <3>8. r[1] = IF 1 .. m \subseteq good THEN Got(members, last + 1) ELSE Failed
      <4>1. members # <<>>
        <5>1. Len(<<>>) = 0 OBVIOUS
        <5>2. QED BY <1>12, <5>1 DEF m
      <4> DEFINE e == last + 1
      <4> HIDE DEF r, good
      <4>2. LoopIs(members, good, r, e) BY <3>7 DEF LoopIs, m
      <4> HIDE DEF e
      <4>3. r[1] = IF 1 .. Len(members) \subseteq good THEN Got(members, e) ELSE Failed
        BY <1>4, <4>1, <4>2, LoopReads
      <4>4. QED BY <4>3 DEF e, m
    <3>9. 1 .. m \subseteq good <=> shallow OBVIOUS
    <3>10. 1 \in 1 .. m BY <1>2, <1>12
    <3>11. /\ SkipWhitespace(text, pos + 1) = b[1] /\ b[1] \in 1 .. Len(text) + 1
           /\ At(text, b[1]) # CloseBrace /\ from(1) = b[1]
      <4>1. SkipWhitespace(text, pos + 1) = b[1] BY <2>5, <3>1, <3>2, <3>10
      <4>2. At(text, b[1]) \in Opening /\ b[1] \in 1 .. Len(text) BY <3>2, <3>10
      <4>3. CloseBrace \notin Opening
        BY PunctuationDiffers, PunctuationIsNoWord DEF Punctuation, Words, Opening, Literals
      <4>4. QED BY <4>1, <4>2, <4>3 DEF from
    <3> DEFINE x == ParseMembers(text, b[1], inner, rest)
    <3>12. x = r[1] BY <3>10, <3>11
    <3> HIDE DEF r, good, shallow
    <3>13. ParseObject(text, pos, inner, rest)
             = IF x.ok THEN Got(SetAll(x.value), x.pos) ELSE Failed
      BY <1>6, <2>7, <3>11, ObjectTurn
    <3> HIDE DEF x
    <3>14. x = IF shallow THEN Got(members, last + 1) ELSE Failed BY <3>8, <3>9, <3>12
    <3>15. ParseObject(text, pos, inner, rest)
             = IF shallow THEN Got(SetAll(members), last + 1) ELSE Failed
      <4>1. CASE shallow
        <5>1. x.ok /\ x.value = members /\ x.pos = last + 1 BY <3>14, <4>1 DEF Got
        <5>2. QED BY <3>13, <4>1, <5>1
      <4>2. CASE ~shallow
        <5>1. ~x.ok BY <3>14, <4>2 DEF Failed
        <5>2. QED BY <3>13, <4>2, <5>1
      <4>3. QED BY <4>1, <4>2
    <3>16. QED BY <1>10, <2>1, <2>5, <2>7, <3>15 DEF limit, shallow, tear
  <2>8. QED BY <2>6, <2>7
<1>13. QED BY <1>11, <1>12

\* Every document is read back where it stands: induction over the depth.
LEMMA ValuesRead ==
    ASSUME NEW T, NEW text \in Seq(T), NEW rest, Reader(text, rest), NEW n \in Nat
    PROVE  \A value \in Documents[n], level \in Nat, compact \in BOOLEAN :
               ReadsBack(text, rest, value, Texts[n][<<value, level, compact>>])
<1> DEFINE Good(j) == \A value \in Documents[j], level \in Nat, compact \in BOOLEAN :
                          ReadsBack(text, rest, value, Texts[j][<<value, level, compact>>])
           N == {j \in Nat : Good(j)}
<1>1. ASSUME NEW j \in Nat, NEW value \in Scalars, NEW level \in Nat, NEW compact \in BOOLEAN
      PROVE  ReadsBack(text, rest, value, Texts[j][<<value, level, compact>>])
  <2> DEFINE t == Texts[j][<<value, level, compact>>]
  <2>1. SUFFICES ASSUME NEW p \in Nat \ {0}, NEW pos \in Nat \ {0},
                        NEW depth \in 0 .. kMaxNestingDepth,
                        SkipWhitespace(text, p) = pos, Spelt(text, pos, t),
                        At(text, pos + Len(t)) \in Stops
                 PROVE  ParseValue(text, p, depth, rest) =
                          IF value \in Documents[kMaxNestingDepth - depth]
                          THEN Got(value, pos + Len(t)) ELSE Failed
    BY DEF ReadsBack
  <2>2. IsWritten(value, t) BY ScalarIsWritten
  <2> HIDE DEF t
  <2>3. ParseValue(text, p, depth, rest) = Got(value, pos + Len(t)) BY <2>1, <2>2, ScalarRead
  <2>4. value \in Documents[kMaxNestingDepth - depth]
    <3> DEFINE d == kMaxNestingDepth - depth
    <3>1. d \in Nat BY JsonAssumption
    <3> HIDE DEF d
    <3>2. value \in Documents[d] BY <3>1, DocumentsGrow
    <3>3. QED BY <3>2 DEF d
  <2>5. QED BY <2>3, <2>4
<1>2. 0 \in N
  <2>1. Good(0) BY <1>1, DocumentsAre
  <2> HIDE DEF Good
  <2>2. QED BY <2>1
<1>3. ASSUME NEW j \in N PROVE j + 1 \in N
  <2>1. j \in Nat /\ Good(j) OBVIOUS
  <2>2. ASSUME NEW value \in Documents[j + 1], NEW level \in Nat, NEW compact \in BOOLEAN
        PROVE  ReadsBack(text, rest, value, Texts[j + 1][<<value, level, compact>>])
    <3> DEFINE d == Documents[j]
               t == Texts[j + 1][<<value, level, compact>>]
    <3>1. Documents[j + 1] = Scalars \cup {v \in Containers(d) : HasKeysOnce(v)}
      BY <2>1, DocumentsAre
    <3>2. \A v \in Documents[j] : ReadsBack(text, rest, v, Texts[j][<<v, level + 1, compact>>])
      <4>1. level + 1 \in Nat OBVIOUS
      <4>2. QED BY <2>1, <4>1
    <3>3. CASE value \in Scalars
      <4>1. j + 1 \in Nat BY <2>1
      <4>2. QED BY <1>1, <3>3, <4>1
    <3>4. ASSUME NEW items \in Seq(Documents[j]), value = Array(items)
          PROVE  ReadsBack(text, rest, value, t)
      BY <2>1, <3>2, <3>4, ArrayRead
    <3>5. ASSUME NEW members \in Seq(MemberKeys \X Documents[j]), value = Object(members),
                 HasKeysOnce(value)
          PROVE  ReadsBack(text, rest, value, t)
      <4>1. MembersReadBack(text, rest, members, t) BY <2>1, <3>2, <3>5, ObjectRead
      <4>2. SetAll(members) = Object(members) BY <3>5, SetAllKeeps
      <4>3. SUFFICES ASSUME NEW p \in Nat \ {0}, NEW pos \in Nat \ {0},
                            NEW depth \in 0 .. kMaxNestingDepth,
                            SkipWhitespace(text, p) = pos, Spelt(text, pos, t),
                            At(text, pos + Len(t)) \in Stops
                     PROVE  ParseValue(text, p, depth, rest) =
                              IF value \in Documents[kMaxNestingDepth - depth]
                              THEN Got(value, pos + Len(t)) ELSE Failed
        BY DEF ReadsBack
      <4> DEFINE limit == kMaxNestingDepth - depth
      <4>4. limit \in Nat BY JsonAssumption
      <4>5. value \in Documents[limit]
              <=> limit # 0 /\ \A k \in 1 .. Len(members) : members[k][2] \in Documents[limit - 1]
        <5> HIDE DEF limit
        <5>1. QED BY <3>5, <4>4, ObjectDepth
      <4>6. ParseValue(text, p, depth, rest) =
              IF limit # 0 /\ \A k \in 1 .. Len(members) : members[k][2] \in Documents[limit - 1]
              THEN Got(SetAll(members), pos + Len(t)) ELSE Failed
        BY <4>1, <4>3 DEF MembersReadBack
      <4> HIDE DEF limit, t
      <4>7. QED BY <3>5, <4>2, <4>5, <4>6 DEF limit
    <3>6. value \in Containers(d) =>
            \/ \E items \in Seq(d) : value = Array(items)
            \/ \E members \in Seq(MemberKeys \X d) : value = Object(members)
      <4> HIDE DEF d
      <4>1. QED BY ContainersAre
    <3>7. value \in Scalars \/ (value \in Containers(d) /\ HasKeysOnce(value)) BY <3>1
    <3> HIDE DEF t
    <3>8. ReadsBack(text, rest, value, t) BY <3>3, <3>4, <3>5, <3>6, <3>7 DEF t
    <3>9. QED BY <3>8 DEF t
  <2>3. Good(j + 1) BY <2>2
  <2> HIDE DEF Good
  <2>4. QED BY <2>1, <2>3
<1> HIDE DEF Good
<1>4. N = Nat BY <1>2, <1>3, NatSetInduction
<1>5. Good(n) BY <1>4
<1>6. QED BY <1>5 DEF Good

\* A text that is a value and nothing else.
LEMMA WholeIsParsed ==
    ASSUME NEW text, TextOk(text), NEW good \in BOOLEAN, NEW value,
           \A rest : Reader(text, rest) /\ SkipWhitespace(text, 1) = 1 /\ Spelt(text, 1, text)
                        /\ At(text, 1 + Len(text)) \in Stops
                        => ParseValue(text, 1, 0, rest)
                             = IF good THEN Got(value, 1 + Len(text)) ELSE Failed
    PROVE  Parse(text) = IF good THEN value ELSE Failed
<1> DEFINE n == Len(text)
<1>1. text \in Seq(TextTokens) /\ n \in Nat \ {0} /\ text[1] \in Opening BY DEF TextOk
<1>2. PICK rest :
        /\ \A place \in Places(text) : rest[place] = Loop(text, place, rest)
        /\ Parse(text) =
             LET read == ParseValue(text, 1, 0, rest)
             IN  IF read.ok /\ At(text, SkipWhitespace(text, read.pos)) = "end"
                 THEN read.value ELSE Failed
  BY <1>1, ParseIs
<1>3. DOMAIN text = 1 .. n BY <1>1
<1> HIDE DEF n
<1>4. At(text, 1) = text[1] /\ At(text, 1 + n) = "end" BY <1>1, <1>3 DEF At
<1>5. /\ SkipWhitespace(text, 1) = 1 /\ SkipWhitespace(text, 1 + n) = 1 + n
  <2>1. At(text, 1) \notin Whitespace BY <1>1, <1>4, TokensDiffer
  <2>2. At(text, 1 + n) \notin Whitespace BY <1>4, WordsDiffer
  <2>3. 1 + n \in Nat /\ Len(text) \in Nat BY <1>1 DEF n
  <2>4. QED BY <2>1, <2>2, <2>3, PastHere DEF SkipWhitespace
<1>6. Spelt(text, 1, text)
  <2> SUFFICES ASSUME NEW i \in 1 .. n PROVE At(text, 1 + i - 1) = text[i]
    BY DEF Spelt, Written, n
  <2>1. 1 + i - 1 = i BY <1>1
  <2>2. QED BY <1>3, <2>1 DEF At
<1>7. At(text, 1 + n) \in Stops BY <1>4 DEF Stops
<1> DEFINE read == ParseValue(text, 1, 0, rest)
<1>8. read = IF good THEN Got(value, 1 + n) ELSE Failed
  BY <1>2, <1>5, <1>6, <1>7 DEF Reader, n
<1>9. Parse(text) = IF read.ok /\ At(text, SkipWhitespace(text, read.pos)) = "end"
                    THEN read.value ELSE Failed
  BY <1>2
<1> HIDE DEF read
<1>10. CASE good
  <2>1. read.ok /\ read.value = value /\ read.pos = 1 + n BY <1>8, <1>10 DEF Got
  <2>2. QED BY <1>4, <1>5, <1>9, <1>10, <2>1
<1>11. CASE ~good
  <2>1. ~read.ok BY <1>8, <1>11 DEF Failed
  <2>2. QED BY <1>9, <1>11, <2>1
<1>12. QED BY <1>10, <1>11

(* What is written of any document, in either layout, is read again down  *)
(* to the nesting limit and refused beyond it (json.cpp:26-44, 178-385,    *)
(* 594-719).                                                               *)
THEOREM DocumentsAreReadBack ==
    ASSUME NEW n \in Nat, NEW value \in Documents[n], NEW level \in Nat, NEW compact \in BOOLEAN
    PROVE  Parse(Texts[n][<<value, level, compact>>])
             = IF value \in Documents[kMaxNestingDepth] THEN value ELSE Failed
<1> DEFINE text == Texts[n][<<value, level, compact>>]
           good == value \in Documents[kMaxNestingDepth]
<1>1. TextOk(text) BY TextsAreOk
<1>2. text \in Seq(TextTokens) BY <1>1 DEF TextOk
<1>3. ASSUME NEW rest, Reader(text, rest), SkipWhitespace(text, 1) = 1, Spelt(text, 1, text),
             At(text, 1 + Len(text)) \in Stops
      PROVE  ParseValue(text, 1, 0, rest) = IF good THEN Got(value, 1 + Len(text)) ELSE Failed
  <2>1. ReadsBack(text, rest, value, text) BY <1>2, <1>3, ValuesRead
  <2> HIDE DEF text
  <2>2. 0 \in 0 .. kMaxNestingDepth /\ kMaxNestingDepth - 0 = kMaxNestingDepth
        /\ 1 \in Nat \ {0}
    BY JsonAssumption
  <2>3. QED BY <1>3, <2>1, <2>2 DEF ReadsBack
<1> HIDE DEF text
<1>4. good \in BOOLEAN OBVIOUS
<1> HIDE DEF good
<1>5. Parse(text) = IF good THEN value ELSE Failed BY <1>1, <1>3, <1>4, WholeIsParsed
<1>6. QED BY <1>5 DEF good, text

-----------------------------------------------------------------------------
(* The documents that are built.                                           *)

\* An object's members.
LEMMA MembersAre ==
    ASSUME NEW n \in Nat, NEW value \in Documents[n + 1], value.type = "object"
    PROVE  /\ value.object \in Seq(MemberKeys \X Documents[n])
           /\ value = Object(value.object) /\ HasKeysOnce(value)
<1> DEFINE d == Documents[n]
<1>1. value \in Scalars \/ (value \in Containers(d) /\ HasKeysOnce(value))
  BY DocumentsAre
<1>2. value \notin Scalars BY TypesDiffer
<1> HIDE DEF d
<1>3. \/ \E items \in Seq(d) : value = Array(items)
      \/ \E members \in Seq(MemberKeys \X d) : value = Object(members)
  BY <1>1, <1>2, ContainersAre
<1>4. \A items : Array(items).type # "object"
  <2>1. "array" # "object" OBVIOUS
  <2>2. QED BY <2>1, TypesDiffer
<1>5. PICK members \in Seq(MemberKeys \X d) : value = Object(members) BY <1>3, <1>4
<1>6. value.object = members BY <1>5, TypesDiffer
<1>7. QED BY <1>1, <1>2, <1>5, <1>6 DEF d

LEMMA ItemsAre ==
    ASSUME NEW n \in Nat, NEW value \in Documents[n + 1], value.type = "array"
    PROVE  value.array \in Seq(Documents[n])
<1> DEFINE d == Documents[n]
<1>1. value \in Scalars \/ value \in Containers(d) BY DocumentsAre
<1>2. value \notin Scalars BY TypesDiffer
<1> HIDE DEF d
<1>3. \/ \E items \in Seq(d) : value = Array(items)
      \/ \E members \in Seq(MemberKeys \X d) : value = Object(members)
  BY <1>1, <1>2, ContainersAre
<1>4. \A members : Object(members).type # "array"
  <2>1. "array" # "object" OBVIOUS
  <2>2. QED BY <2>1, TypesDiffer
<1>5. PICK items \in Seq(d) : value = Array(items) BY <1>3, <1>4
<1>6. value.array = items BY <1>5, TypesDiffer
<1>7. QED BY <1>5, <1>6 DEF d

\* The members Set leaves.
LEMMA SetMembers ==
    ASSUME NEW V, NEW members \in Seq(MemberKeys \X V), HasKeysOnce(Object(members)),
           NEW key \in MemberKeys, NEW value \in V
    PROVE  \E s \in Seq(MemberKeys \X V) :
               /\ HasKeysOnce(Object(s))
               /\ Set(Object(members), key, value) = Object(s)
<1> DEFINE m == Len(members)
           K == MemberKeys \X V
           pair == <<key, value>>
           added == Append(members, pair)
           changed == [k \in DOMAIN members |->
                          IF members[k][1] = key THEN pair ELSE members[k]]
<1>1. /\ m \in Nat /\ DOMAIN members = 1 .. m /\ pair \in K /\ pair[1] = key
      /\ \A k \in 1 .. m : members[k] \in K
  OBVIOUS
<1>2. \A i, j \in DOMAIN members : members[i][1] = members[j][1] => i = j BY KeysOnce
<1>3. members \in Seq(K) OBVIOUS
<1>4. Set(Object(members), key, value)
        = Object(IF Position(members, key) = {} THEN added ELSE changed)
  <2>1. Object(members).type = "object" /\ Object(members).object = members BY TypesDiffer
  <2>2. QED BY <2>1 DEF Set
<1> HIDE DEF m, K, pair
<1>5. CASE Position(members, key) = {}
  <2>1. \A k \in 1 .. m : members[k][1] # key BY <1>1, <1>5 DEF Position
  <2>2. /\ added \in Seq(K) /\ DOMAIN added = 1 .. m + 1
        /\ added[m + 1] = pair /\ \A k \in 1 .. m : added[k] = members[k]
    BY <1>1, <1>3 DEF m
  <2> HIDE DEF added
  <2>3. ASSUME NEW i \in 1 .. m + 1, NEW j \in 1 .. m + 1, added[i][1] = added[j][1]
        PROVE  i = j
    <3>1. CASE i \in 1 .. m /\ j \in 1 .. m
      <4>1. members[i][1] = members[j][1] BY <2>2, <2>3, <3>1
      <4>2. QED BY <1>1, <1>2, <3>1, <4>1
    <3>2. CASE i = m + 1 /\ j \in 1 .. m
      <4>1. added[j][1] # key /\ added[i][1] = key BY <1>1, <2>1, <2>2, <3>2
      <4>2. QED BY <2>3, <4>1
    <3>3. CASE j = m + 1 /\ i \in 1 .. m
      <4>1. added[i][1] # key /\ added[j][1] = key BY <1>1, <2>1, <2>2, <3>3
      <4>2. QED BY <2>3, <4>1
    <3>4. CASE i = m + 1 /\ j = m + 1 BY <3>4
    <3>5. QED BY <1>1, <3>1, <3>2, <3>3, <3>4
  <2>4. HasKeysOnce(Object(added)) BY <2>2, <2>3 DEF HasKeysOnce, Object
  <2>5. Set(Object(members), key, value) = Object(added) BY <1>4, <1>5 DEF added
  <2>6. QED BY <2>2, <2>4, <2>5 DEF K
<1>6. CASE Position(members, key) # {}
  <2>1. /\ DOMAIN changed = 1 .. m
        /\ \A k \in 1 .. m : changed[k] \in K /\ changed[k][1] = members[k][1]
    BY <1>1
  <2>2. changed \in Seq(K)
    <3>1. changed = [k \in 1 .. m |-> changed[k]] BY <1>1
    <3> HIDE DEF changed
    <3>2. m \in Nat /\ \A k \in 1 .. m : changed[k] \in K BY <1>1, <2>1
    <3>3. QED BY <3>1, <3>2
  <2> HIDE DEF changed
  <2>3. HasKeysOnce(Object(changed)) BY <1>1, <1>2, <2>1 DEF HasKeysOnce, Object
  <2>4. Set(Object(members), key, value) = Object(changed) BY <1>4, <1>6 DEF changed
  <2>5. QED BY <2>2, <2>3, <2>4 DEF K
<1>7. QED BY <1>5, <1>6

\* Set and Push make a document at most one deeper.
LEMMA SetDepth ==
    ASSUME NEW n \in Nat, NEW value \in Documents[n + 1], NEW key \in MemberKeys,
           NEW member \in Documents[n + 1]
    PROVE  Set(value, key, member) \in Documents[n + 2]
<1> DEFINE d == Documents[n + 1]
           members == IF value.type = "object" THEN value.object ELSE <<>>
<1>1. members \in Seq(MemberKeys \X d) /\ HasKeysOnce(Object(members))
  <2>1. CASE value.type = "object"
    <3>1. /\ value.object \in Seq(MemberKeys \X Documents[n])
          /\ value = Object(value.object) /\ HasKeysOnce(value)
      BY <2>1, MembersAre
    <3>2. Documents[n] \subseteq d BY DocumentsGrow
    <3> DEFINE c == Documents[n]
               s == value.object
    <3> HIDE DEF c, d, s
    <3>3. s \in Seq(MemberKeys \X d)
      <4>1. s \in Seq(MemberKeys \X c) BY <3>1 DEF c, s
      <4>2. MemberKeys \X c \subseteq MemberKeys \X d BY <3>2 DEF c
      <4>3. QED BY <4>1, <4>2
    <3>4. QED BY <2>1, <3>1, <3>3 DEF s
  <2>2. CASE value.type # "object"
    <3>1. members = <<>> BY <2>2
    <3> HIDE DEF d, members
    <3>2. HasKeysOnce(Object(members)) BY <3>1 DEF HasKeysOnce, Object
    <3>3. QED BY <3>1, <3>2
  <2>3. QED BY <2>1, <2>2
<1>2. Set(value, key, member) = Set(Object(members), key, member)
  <2>1. Object(members).type = "object" /\ Object(members).object = members BY TypesDiffer
  <2> HIDE DEF members
  <2>2. Set(Object(members), key, member) =
          Object(IF Position(members, key) = {} THEN Append(members, <<key, member>>)
                 ELSE [k \in DOMAIN members |->
                          IF members[k][1] = key THEN <<key, member>> ELSE members[k]])
    BY <2>1 DEF Set
  <2>3. QED BY <2>2 DEF Set, members
<1>3. member \in d OBVIOUS
<1> HIDE DEF d, members
<1>4. PICK s \in Seq(MemberKeys \X d) :
        HasKeysOnce(Object(s)) /\ Set(value, key, member) = Object(s)
  BY <1>1, <1>2, <1>3, SetMembers
<1>5. \A k \in 1 .. Len(s) : s[k][2] \in d
  <2>1. \A k \in 1 .. Len(s) : s[k] \in MemberKeys \X d OBVIOUS
  <2>2. QED BY <2>1
<1>6. n + 2 \in Nat /\ n + 2 # 0 /\ (n + 2) - 1 = n + 1 OBVIOUS
<1>7. Object(s) \in Documents[n + 2] BY <1>4, <1>5, <1>6, ObjectDepth DEF d
<1>8. QED BY <1>4, <1>7

LEMMA PushDepth ==
    ASSUME NEW n \in Nat, NEW value \in Documents[n + 1], NEW item \in Documents[n + 1]
    PROVE  Push(value, item) \in Documents[n + 2]
<1> DEFINE d == Documents[n + 1]
           items == IF value.type = "array" THEN value.array ELSE <<>>
<1>1. items \in Seq(d)
  <2>1. CASE value.type = "array"
    <3>1. value.array \in Seq(Documents[n]) BY <2>1, ItemsAre
    <3>2. Documents[n] \subseteq d BY DocumentsGrow
    <3> DEFINE c == Documents[n]
    <3> HIDE DEF c, d
    <3>3. value.array \in Seq(d) BY <3>1, <3>2 DEF c
    <3>4. QED BY <2>1, <3>3
  <2>2. CASE value.type # "array"
    <3> HIDE DEF d
    <3>1. QED BY <2>2
  <2>3. QED BY <2>1, <2>2
<1>2. Push(value, item) = Array(Append(items, item)) BY DEF Push
<1>3. item \in d OBVIOUS
<1> HIDE DEF d, items
<1> DEFINE s == Append(items, item)
<1>4. s \in Seq(d) BY <1>1, <1>3
<1> HIDE DEF s
<1>5. \A k \in 1 .. Len(s) : s[k] \in d BY <1>4
<1>6. n + 2 \in Nat /\ n + 2 # 0 /\ (n + 2) - 1 = n + 1 OBVIOUS
<1>7. Array(s) \in Documents[n + 2] BY <1>4, <1>5, <1>6, ArrayDepth DEF d
<1>8. QED BY <1>2, <1>7 DEF s

LEMMA LeavesAre ==
    ASSUME NEW n \in Nat
    PROVE  Leaves \subseteq Documents[n + 1]
<1> DEFINE d == Documents[n]
<1>1. Scalars \subseteq Documents[n + 1] BY DocumentsGrow
<1>2. n + 1 \in Nat /\ n + 1 # 0 /\ \A k : k \notin 1 .. Len(<<>>) OBVIOUS
<1>3. <<>> \in Seq(d) /\ <<>> \in Seq(MemberKeys \X d)
  <2> HIDE DEF d
  <2>1. QED OBVIOUS
<1>4. HasKeysOnce(Object(<<>>)) BY DEF HasKeysOnce, Object
<1>5. Array(<<>>) \in Documents[n + 1] BY <1>2, <1>3, ArrayDepth
<1>6. Object(<<>>) \in Documents[n + 1] BY <1>2, <1>3, <1>4, ObjectDepth
<1>7. QED BY <1>1, <1>5, <1>6 DEF Leaves

\* Each call nests at most one level deeper.
JsonInv ==
    /\ built \in 0 .. MaxBuilt
    /\ doc \in Documents[built + 1]

\* The invariant holds at first, and every call keeps it.
LEMMA JsonInvInit ==
    ASSUME JsonInit
    PROVE  JsonInv
<1>1. built = 0 /\ doc \in Leaves /\ MaxBuilt \in Nat BY JsonAssumption DEF JsonInit
<1>2. Leaves \subseteq Documents[0 + 1] BY LeavesAre
<1>3. built \in 0 .. MaxBuilt BY <1>1
<1>4. doc \in Documents[built + 1] BY <1>1, <1>2
<1>5. QED BY <1>3, <1>4 DEF JsonInv

LEMMA JsonInvNext ==
    ASSUME JsonInv, [JsonNext]_jsonVars
    PROVE  JsonInv'
<1>1. /\ built \in Nat /\ built <= MaxBuilt /\ MaxBuilt \in Nat /\ doc \in Documents[built + 1]
  BY JsonAssumption DEF JsonInv
<1>2. CASE UNCHANGED jsonVars BY <1>1, <1>2 DEF jsonVars, JsonInv
<1>3. CASE JsonNext
  <2>1. built < MaxBuilt /\ built' = built + 1 BY <1>3 DEF JsonNext
  <2>2. Leaves \subseteq Documents[built + 1] BY <1>1, LeavesAre
  <2>3. doc' \in Documents[built + 2]
    <3>1. CASE AddMember
      <4>1. PICK key \in MemberKeys, leaf \in Leaves : doc' = Set(doc, key, leaf)
        BY <3>1 DEF AddMember
      <4>2. leaf \in Documents[built + 1] BY <2>2
      <4>3. Set(doc, key, leaf) \in Documents[built + 2] BY <1>1, <4>2, SetDepth
      <4>4. QED BY <4>1, <4>3
    <3>2. CASE AddItem
      <4>1. PICK leaf \in Leaves : doc' = Push(doc, leaf) BY <3>2 DEF AddItem
      <4>2. leaf \in Documents[built + 1] BY <2>2
      <4>3. Push(doc, leaf) \in Documents[built + 2] BY <1>1, <4>2, PushDepth
      <4>4. QED BY <4>1, <4>3
    <3>3. CASE Nest
      <4>1. Array(<<>>) \in Documents[built + 1] /\ Object(<<>>) \in Documents[built + 1]
        BY <2>2 DEF Leaves
      <4>2. CASE doc' = Push(Array(<<>>), doc)
        <5>1. Push(Array(<<>>), doc) \in Documents[built + 2] BY <1>1, <4>1, PushDepth
        <5>2. QED BY <4>2, <5>1
      <4>3. CASE \E key \in MemberKeys : doc' = Set(Object(<<>>), key, doc)
        <5>1. PICK key \in MemberKeys : doc' = Set(Object(<<>>), key, doc) BY <4>3
        <5>2. Set(Object(<<>>), key, doc) \in Documents[built + 2] BY <1>1, <4>1, SetDepth
        <5>3. QED BY <5>1, <5>2
      <4>4. QED BY <3>3, <4>2, <4>3 DEF Nest
    <3>4. QED BY <1>3, <3>1, <3>2, <3>3 DEF JsonNext
  <2>4. built' \in 0 .. MaxBuilt /\ built' + 1 = built + 2 BY <1>1, <2>1
  <2>5. doc' \in Documents[built' + 1] BY <2>3, <2>4
  <2>6. QED BY <2>4, <2>5 DEF JsonInv
<1>4. QED BY <1>2, <1>3

(* Whatever calls of Set and Push built it, a document has each key once   *)
(* and is nested no deeper than its calls allow (json.cpp:514-555).        *)
THEOREM DocumentsStayShallow ==
    JsonSpec => []JsonInv
<1>1. JsonInit => JsonInv BY JsonInvInit
<1>2. JsonInv /\ [JsonNext]_jsonVars => JsonInv' BY JsonInvNext
<1>3. QED BY <1>1, <1>2, PTL DEF JsonSpec

\* What is built is within the depth Serialize knows.
LEMMA DocumentIsBuilt ==
    ASSUME JsonInv
    PROVE  doc \in Documents[MaxBuilt + 1]
<1>1. built + 1 \in 0 .. MaxBuilt + 1 /\ MaxBuilt + 1 \in Nat BY JsonAssumption DEF JsonInv
<1>2. Documents[built + 1] \subseteq Documents[MaxBuilt + 1] BY <1>1, DocumentsGrow
<1>3. QED BY <1>2 DEF JsonInv

(* What is written is read again as it was, in both layouts and with any   *)
(* characters in it, down to the nesting limit and not beyond              *)
(* (json.cpp:12-17, 387-430, 594-719).                                     *)
THEOREM RoundTripHolds ==
    JsonSpec => []RoundTrip
<1>1. JsonInv => RoundTrip
  <2>1. SUFFICES ASSUME JsonInv, NEW compact \in BOOLEAN
                 PROVE  Parse(Serialize(doc, compact)) =
                          IF doc \in Documents[kMaxNestingDepth] THEN doc ELSE Failed
    BY DEF RoundTrip
  <2>2. doc \in Documents[MaxBuilt + 1] BY <2>1, DocumentIsBuilt
  <2>3. MaxBuilt + 1 \in Nat /\ 0 \in Nat BY JsonAssumption
  <2>4. Parse(Texts[MaxBuilt + 1][<<doc, 0, compact>>]) =
          IF doc \in Documents[kMaxNestingDepth] THEN doc ELSE Failed
    BY <2>2, <2>3, DocumentsAreReadBack
  <2>5. QED BY <2>4 DEF Serialize
<1>2. QED BY <1>1, DocumentsStayShallow, PTL

\* An object's text, also with a key in it twice.
LEMMA ObjectTextOk ==
    ASSUME NEW n \in Nat, NEW members \in Seq(MemberKeys \X Documents[n]), NEW level \in Nat,
           NEW compact \in BOOLEAN
    PROVE  /\ TextOk(Texts[n + 1][<<Object(members), level, compact>>])
           /\ Texts[n + 1][<<Object(members), level, compact>>]
                = Bracketed(OpenBrace, ObjectItems(n, members, level, compact), level, compact,
                            CloseBrace)
           /\ ItemsOk(ObjectItems(n, members, level, compact))
           /\ Len(ObjectItems(n, members, level, compact)) = Len(members)
<1>1. level + 1 \in Nat OBVIOUS
<1>2. \A value \in Documents[n] : TextOk(Texts[n][<<value, level + 1, compact>>])
  BY <1>1, TextsAreOk
<1>3. /\ ItemsOk(ObjectItems(n, members, level, compact))
      /\ Len(ObjectItems(n, members, level, compact)) = Len(members)
  BY <1>2, ObjectItemsOk
<1>4. Texts[n + 1][<<Object(members), level, compact>>]
        = Bracketed(OpenBrace, ObjectItems(n, members, level, compact), level, compact, CloseBrace)
  BY TextIs DEF ObjectItems, ColonText
<1>5. TextOk(Bracketed(OpenBrace, ObjectItems(n, members, level, compact), level, compact,
                       CloseBrace))
  BY <1>3, BracketedOk
<1>6. QED BY <1>3, <1>4, <1>5

\* Of a whole text, the members are set one after the other.
LEMMA MembersAreParsed ==
    ASSUME NEW n \in Nat, NEW members \in Seq(MemberKeys \X Documents[n]), NEW level \in Nat,
           NEW compact \in BOOLEAN, kMaxNestingDepth # 0,
           \A k \in 1 .. Len(members) : members[k][2] \in Documents[kMaxNestingDepth - 1]
    PROVE  Parse(Texts[n + 1][<<Object(members), level, compact>>]) = SetAll(members)
<1> DEFINE text == Texts[n + 1][<<Object(members), level, compact>>]
           good == TRUE
           value == SetAll(members)
<1>1. TextOk(text) BY ObjectTextOk
<1>2. text \in Seq(TextTokens) BY <1>1 DEF TextOk
<1>3. ASSUME NEW rest, Reader(text, rest), SkipWhitespace(text, 1) = 1, Spelt(text, 1, text),
             At(text, 1 + Len(text)) \in Stops
      PROVE  ParseValue(text, 1, 0, rest) = IF good THEN Got(value, 1 + Len(text)) ELSE Failed
  <2>1. \A v \in Documents[n] : ReadsBack(text, rest, v, Texts[n][<<v, level + 1, compact>>])
    <3>1. level + 1 \in Nat OBVIOUS
    <3> HIDE DEF text
    <3>2. QED BY <1>2, <1>3, <3>1, ValuesRead
  <2> DEFINE t == Texts[n + 1][<<Object(members), level, compact>>]
  <2>2. MembersReadBack(text, rest, members, t)
    <3> HIDE DEF text
    <3>1. QED BY <1>2, <1>3, <2>1, ObjectRead
  <2>3. t = text OBVIOUS
  <2> HIDE DEF t, text
  <2>4. 0 \in 0 .. kMaxNestingDepth /\ kMaxNestingDepth - 0 = kMaxNestingDepth
        /\ 1 \in Nat \ {0}
    BY JsonAssumption
  <2>5. QED BY <1>3, <2>2, <2>3, <2>4 DEF MembersReadBack
<1> HIDE DEF text, value
<1>4. good \in BOOLEAN OBVIOUS
<1>5. \A rest : Reader(text, rest) /\ SkipWhitespace(text, 1) = 1 /\ Spelt(text, 1, text)
                  /\ At(text, 1 + Len(text)) \in Stops
                  => ParseValue(text, 1, 0, rest)
                       = IF good THEN Got(value, 1 + Len(text)) ELSE Failed
  BY <1>3
<1> HIDE DEF good
<1>6. Parse(text) = IF good THEN value ELSE Failed BY <1>1, <1>4, <1>5, WholeIsParsed
<1>7. QED BY <1>6 DEF good, text, value

(* In a file edited by hand the last of two members of one key counts, and *)
(* the document has the key once (json.cpp:514-530).                       *)
THEOREM LastMemberCountsHolds ==
    JsonSpec => []LastMemberCounts
<1>1. JsonInv => LastMemberCounts
  <2> DEFINE members == doc.object
  <2>1. SUFFICES ASSUME JsonInv, doc.type = "object", doc \in Documents[kMaxNestingDepth],
                        NEW k \in DOMAIN members
                 PROVE  Parse(Serialize(Object(Append(members, <<members[k][1], Bool(TRUE)>>)), TRUE))
                          = Object([members EXCEPT ![k] = <<members[k][1], Bool(TRUE)>>])
    BY DEF LastMemberCounts
  <2> DEFINE n == MaxBuilt
             V == Documents[n]
             v == Bool(TRUE)
             s == Append(members, <<members[k][1], v>>)
  <2>2. /\ members \in Seq(MemberKeys \X V) /\ HasKeysOnce(Object(members))
        /\ doc = Object(members)
    <3>1. n \in Nat BY JsonAssumption
    <3>2. doc \in Documents[n + 1] BY <2>1, DocumentIsBuilt
    <3>3. /\ members \in Seq(MemberKeys \X V) /\ doc = Object(members) /\ HasKeysOnce(doc)
      BY <2>1, <3>1, <3>2, MembersAre
    <3> HIDE DEF members, V
    <3>4. QED BY <3>3
  <2>3. n \in Nat /\ v \in V /\ v \in Scalars
    <3>1. n \in Nat BY JsonAssumption
    <3>2. v \in Scalars BY DEF Scalars
    <3>3. QED BY <3>1, <3>2, DocumentsGrow
  <2>4. kMaxNestingDepth # 0 /\ kMaxNestingDepth \in Nat
        /\ \A i \in 1 .. Len(members) : members[i][2] \in Documents[kMaxNestingDepth - 1]
    <3> HIDE DEF members, V
    <3>1. kMaxNestingDepth \in Nat /\ Object(members) \in Documents[kMaxNestingDepth]
      BY <2>1, <2>2, JsonAssumption
    <3>2. QED BY <2>2, <3>1, ObjectDepth
  <2> HIDE DEF members, n, V, v
  <2>5. k \in 1 .. Len(members) /\ Len(members) \in Nat /\ members[k][1] \in MemberKeys
    <3>1. k \in 1 .. Len(members) /\ Len(members) \in Nat BY <2>1, <2>2
    <3>2. members[k] \in MemberKeys \X V BY <2>2, <3>1
    <3>3. QED BY <3>1, <3>2
  <2> DEFINE pair == <<members[k][1], v>>
  <2>6. SetAll(s) = Object(Replaced(members, k, pair))
    <3>1. pair \in MemberKeys \X V /\ pair[1] = members[k][1] BY <2>3, <2>5
    <3>2. s = Append(members, pair) OBVIOUS
    <3> HIDE DEF s, pair
    <3>3. Replaces(members, k, pair) BY <2>2, <2>5, <3>1 DEF Replaces
    <3>4. QED BY <3>2, <3>3, SetAllReplaces
  <2>7. /\ s \in Seq(MemberKeys \X V) /\ Len(s) = Len(members) + 1
        /\ \A i \in 1 .. Len(s) : s[i] = IF i <= Len(members) THEN members[i]
                                         ELSE <<members[k][1], v>>
    <3> DEFINE K == MemberKeys \X V
    <3>1. pair \in K BY <2>3, <2>5
    <3>2. members \in Seq(K) BY <2>2
    <3> HIDE DEF K, pair
    <3>3. /\ Append(members, pair) \in Seq(K) /\ Len(Append(members, pair)) = Len(members) + 1
          /\ \A i \in 1 .. Len(members) + 1 :
                Append(members, pair)[i] = IF i <= Len(members) THEN members[i] ELSE pair
      BY <3>1, <3>2
    <3>4. QED BY <3>3 DEF K, pair
  <2>8. \A i \in 1 .. Len(s) : s[i][2] \in Documents[kMaxNestingDepth - 1]
    <3> SUFFICES ASSUME NEW i \in 1 .. Len(s)
                 PROVE  s[i][2] \in Documents[kMaxNestingDepth - 1]
      OBVIOUS
    <3> HIDE DEF s
    <3>1. CASE i <= Len(members)
      <4>1. i \in 1 .. Len(members) /\ s[i] = members[i] BY <2>5, <2>7, <3>1
      <4>2. QED BY <2>4, <4>1
    <3>2. CASE ~(i <= Len(members))
      <4>1. s[i] = <<members[k][1], v>> BY <2>7, <3>2
      <4>2. kMaxNestingDepth - 1 \in Nat BY <2>4
      <4>3. v \in Documents[kMaxNestingDepth - 1] BY <2>3, <4>2, DocumentsGrow
      <4>4. QED BY <4>1, <4>3
    <3>3. QED BY <3>1, <3>2
  <2> HIDE DEF s
  <2>9. Parse(Texts[n + 1][<<Object(s), 0, TRUE>>]) = SetAll(s)
    <3>1. s \in Seq(MemberKeys \X Documents[n]) /\ 0 \in Nat BY <2>7 DEF V
    <3>2. QED BY <2>3, <2>4, <2>8, <3>1, MembersAreParsed
  <2>10. Serialize(Object(s), TRUE) = Texts[n + 1][<<Object(s), 0, TRUE>>] BY DEF Serialize, n
  <2>11. QED BY <2>6, <2>9, <2>10 DEF Replaced, members, s, v, pair
<1>2. QED BY <1>1, DocumentsStayShallow, PTL

-----------------------------------------------------------------------------
(* Texts that are torn.                                                    *)

\* Where a text is torn there is nothing the reader goes on with.
LEMMA TornIs ==
    ASSUME NEW text, NEW tear, Torn(text, tear)
    PROVE  /\ At(text, tear) \notin Opening \cup Whitespace \cup NumberChars \cup Punctuation
           /\ At(text, tear) \in {"end", "torn"}
           /\ At(text, tear) \notin {"quote", Comma, Colon, CloseBracket, CloseBrace}
<1>1. At(text, tear) \in {"end", "torn"} BY DEF Torn
<1>2. {"end", "torn"} \cap (Whitespace \cup NumberChars \cup Punctuation) = {}
  BY WordsDiffer, PunctuationIsNoWord DEF Words
<1>3. {"end", "torn"} \cap Opening = {}
  <2>1. "torn" \notin Literals \cup {"quote"} /\ "end" \notin Literals \cup {"quote"} BY DEF Literals
  <2>2. "torn" \notin Digits \cup {"-"} /\ "end" \notin Digits \cup {"-"}
    BY WordsDiffer DEF NumberChars
  <2>3. QED BY <1>2, <2>1, <2>2 DEF Opening, Punctuation
<1>4. At(text, tear) # "quote" BY <1>1, <1>3 DEF Opening
<1>5. QED BY <1>1, <1>2, <1>3, <1>4 DEF Punctuation

\* White space ends there.
LEMMA TornStays ==
    ASSUME NEW T, NEW text \in Seq(T), NEW tear \in Nat, Torn(text, tear)
    PROVE  SkipWhitespace(text, tear) = tear
<1>1. At(text, tear) \notin Whitespace BY TornIs
<1>2. Len(text) \in Nat OBVIOUS
<1>3. QED BY <1>1, <1>2, PastHere DEF SkipWhitespace

\* The characters of a number from low up to high.
Stretch(text, low, high) == \A i \in low .. high - 1 : At(text, i) \in NumberChars

LEMMA StretchGrows ==
    ASSUME NEW text, NEW low \in Int, NEW mid \in Int, NEW high \in Int, low <= mid,
           Stretch(text, low, mid), \A i \in mid .. high - 1 : At(text, i) \in NumberChars
    PROVE  Stretch(text, low, high)
<1> SUFFICES ASSUME NEW i \in low .. high - 1 PROVE At(text, i) \in NumberChars
  BY DEF Stretch
<1>1. i \in low .. mid - 1 \/ i \in mid .. high - 1 OBVIOUS
<1>2. QED BY <1>1 DEF Stretch

\* The reader takes no other characters for a number.
LEMMA NumberStays ==
    ASSUME NEW T, NEW text \in Seq(T), NEW pos \in 1 .. Len(text) + 1
    PROVE  \/ ParseNumber(text, pos) = Failed
           \/ \E value : \E p \in pos .. Len(text) + 1 :
                 ParseNumber(text, pos) = Got(value, p) /\ Stretch(text, pos, p)
<1> DEFINE high == Len(text) + 1
<1>1. high \in Nat OBVIOUS
<1>2. \A q \in 1 .. high : At(text, q) # "end" => q + 1 \in 1 .. high BY AtEnds
<1>3. \A q \in 1 .. high :
        /\ Past(text, q, Digits) \in q .. high
        /\ \A i \in q .. Past(text, q, Digits) - 1 : At(text, i) \in Digits
  BY WordsDiffer, PastStops
<1>4. pos \in 1 .. high OBVIOUS
<1> HIDE DEF high
<1> DEFINE Reached(q) == q \in pos .. high /\ Stretch(text, pos, q)
\* One character more, and a stretch of digits.
<1>5. ASSUME NEW q, Reached(q), At(text, q) \in NumberChars PROVE Reached(q + 1)
  <2>1. q \in 1 .. high BY <1>4, <1>5
  <2>2. q + 1 \in 1 .. high BY <1>2, <1>5, <2>1, WordsDiffer
  <2>3. \A i \in q .. (q + 1) - 1 : At(text, i) \in NumberChars BY <1>5, <2>1
  <2>4. /\ pos \in Int /\ q \in Int /\ q + 1 \in Int /\ pos <= q /\ q + 1 \in pos .. high
        /\ Stretch(text, pos, q)
    BY <1>1, <1>4, <1>5, <2>1, <2>2
  <2>5. Stretch(text, pos, q + 1) BY <2>3, <2>4, StretchGrows
  <2>6. QED BY <2>4, <2>5
<1>6. ASSUME NEW q, Reached(q) PROVE Reached(Past(text, q, Digits))
  <2> DEFINE p == Past(text, q, Digits)
  <2>1. q \in 1 .. high BY <1>4, <1>6
  <2>2. p \in q .. high /\ \A i \in q .. p - 1 : At(text, i) \in Digits BY <1>3, <2>1
  <2> HIDE DEF p
  <2>3. \A i \in q .. p - 1 : At(text, i) \in NumberChars BY <2>2 DEF NumberChars
  <2>4. /\ pos \in Int /\ q \in Int /\ p \in Int /\ pos <= q /\ p \in pos .. high
        /\ Stretch(text, pos, q)
    BY <1>1, <1>4, <1>6, <2>1, <2>2
  <2>5. Stretch(text, pos, p) BY <2>3, <2>4, StretchGrows
  <2>6. QED BY <2>4, <2>5 DEF p
<1>7. Reached(pos) BY <1>1, <1>4 DEF Stretch
<1> DEFINE signed == IF At(text, pos) = "-" THEN pos + 1 ELSE pos
           whole == Past(text, signed, Digits)
           point == IF At(text, whole) = "." THEN whole + 1 ELSE whole
           fraction == IF point = whole THEN whole ELSE Past(text, point, Digits)
           exponent == IF At(text, fraction) = "e" THEN fraction + 1 ELSE fraction
           sign == IF exponent # fraction /\ At(text, exponent) \in {"+", "-"}
                   THEN exponent + 1 ELSE exponent
           end == IF exponent = fraction THEN fraction ELSE Past(text, sign, Digits)
<1>8. {"-", "+", ".", "e"} \subseteq NumberChars BY DEF NumberChars
<1> HIDE DEF Reached
<1>9. Reached(signed) BY <1>5, <1>7, <1>8
<1> HIDE DEF signed
<1>10. Reached(whole) BY <1>6, <1>9
<1> HIDE DEF whole
<1>11. Reached(point) BY <1>5, <1>8, <1>10
<1> HIDE DEF point
<1>12. Reached(fraction) BY <1>6, <1>10, <1>11
<1> HIDE DEF fraction
<1>13. Reached(exponent) BY <1>5, <1>8, <1>12
<1> HIDE DEF exponent
<1>14. Reached(sign) BY <1>5, <1>8, <1>13
<1> HIDE DEF sign
<1>15. Reached(end) BY <1>6, <1>12, <1>14
<1> HIDE DEF end
<1>16. ParseNumber(text, pos) =
         IF whole = signed /\ fraction = point THEN Failed
         ELSE Got(Number(SubSeq(text, pos, end - 1)), end)
  <2>1. NumberBy(text, pos, signed, whole, point, fraction, exponent, sign, end)
    BY DEF NumberBy, signed, whole, point, fraction, exponent, sign, end
  <2>2. QED BY <2>1, WordsDiffer, ParseNumberIs
<1>17. end \in pos .. Len(text) + 1 /\ Stretch(text, pos, end) BY <1>15 DEF Reached, high
<1>18. QED BY <1>16, <1>17

\* The characters of t stand at pos, as far as the tear.
Cut(text, tear, pos, t) ==
    \A i \in 1 .. Len(t) : pos + i - 1 < tear => At(text, pos + i - 1) = t[i]

\* The reader fails, or stops where no list goes on or ends.
Stalls(text, r) ==
    \/ r = Failed
    \/ \E value, p :
          /\ r = Got(value, p)
          /\ At(text, SkipWhitespace(text, p)) \notin {Comma, CloseBracket, CloseBrace}

LEMMA NumberCharsDiffer ==
    /\ NumberChars \cap (Whitespace \cup Punctuation) = {}
    /\ NumberChars \cap Opening \subseteq Digits \cup {"-"}
<1>1. {"-", "+", ".", "e"} \cap (Whitespace \cup Punctuation) = {}
  BY DEF Whitespace, Blank, Punctuation, Comma, Colon, OpenBracket, CloseBracket, OpenBrace,
         CloseBrace
<1>2. Digits \cap (Whitespace \cup Punctuation) = {}
  BY PunctuationIsNoWord, WordsDiffer DEF Whitespace, Words
<1>3. {"+", ".", "e"} \cap (Literals \cup {"quote", OpenBracket, OpenBrace}) = {}
  BY DEF Literals, OpenBracket, OpenBrace
<1>4. {"+", ".", "e"} \cap Digits = {} BY WordsDiffer
<1>5. {"+", ".", "e"} \cap {"-"} = {} OBVIOUS
<1>6. {"+", ".", "e"} \cap Opening = {} BY <1>3, <1>4, <1>5 DEF Opening
<1>7. QED BY <1>1, <1>2, <1>6 DEF NumberChars

\* A scalar's text that is torn.
LEMMA ScalarStalls ==
    ASSUME NEW T, NEW text \in Seq(T), NEW tear \in Nat, Torn(text, tear),
           NEW value \in Scalars, NEW t, IsWritten(value, t),
           NEW p, NEW pos \in Nat \ {0}, NEW depth, NEW rest, SkipWhitespace(text, p) = pos,
           pos < tear, tear < pos + Len(t), Cut(text, tear, pos, t)
    PROVE  Stalls(text, ParseValue(text, p, depth, rest))
<1>1. t = CASE value.type = "null" -> <<"null">>
            [] value.type = "bool" -> <<IF value.bool THEN "true" ELSE "false">>
            [] value.type = "number" -> value.number
            [] value.type = "string" -> EscapeString(value.string)
  BY DEF IsWritten
<1>2. TextOk(t) /\ Cut(text, tear, pos, t) BY DEF IsWritten
<1> DEFINE size == Len(t)
<1>3. size \in Nat \ {0} BY <1>2 DEF TextOk
<1>4. At(text, pos) = t[1]
  <2>1. 1 \in 1 .. size /\ pos + 1 - 1 = pos BY <1>3
  <2>2. QED BY <1>2, <2>1 DEF Cut
<1>5. pos < tear /\ tear < pos + size OBVIOUS
<1> HIDE DEF size
<1>6. size # 1 BY <1>3, <1>5
<1>7. value # Null
  <2>1. SUFFICES ASSUME value = Null PROVE FALSE OBVIOUS
  <2>2. t = <<"null">> BY <1>1, <2>1 DEF Null
  <2>3. Len(t) = 1 BY <2>2
  <2>4. QED BY <1>6, <2>3 DEF size
<1>8. ASSUME NEW b \in BOOLEAN PROVE value # Bool(b)
  <2>1. SUFFICES ASSUME value = Bool(b) PROVE FALSE OBVIOUS
  <2>2. t = <<IF b THEN "true" ELSE "false">> BY <1>1, <2>1 DEF Bool
  <2>3. Len(t) = 1 BY <2>2
  <2>4. QED BY <1>6, <2>3 DEF size
<1>9. ASSUME NEW token \in Numbers, value = Number(token)
      PROVE  Stalls(text, ParseValue(text, p, depth, rest))
  <2>1. t = token /\ t \in Seq(NumberChars) BY <1>1, <1>9, JsonAssumption DEF Number
  <2>2. t[1] \in NumberChars /\ t[1] \in Opening
    <3>1. 1 \in 1 .. Len(t) BY <1>3 DEF size
    <3>2. QED BY <1>2, <2>1, <3>1 DEF TextOk
  <2>3. At(text, pos) \in Digits \cup {"-"} BY <1>4, <2>2, NumberCharsDiffer
  <2>4. ParseValue(text, p, depth, rest) = ParseNumber(text, pos) BY <2>3, NumberStarts
  <2>5. pos \in 1 .. Len(text) + 1
    <3>1. At(text, pos) # "end" BY <1>4, <2>2, WordsDiffer
    <3>2. pos \in 1 .. Len(text) BY <3>1, AtEnds
    <3>3. QED BY <3>2
  <2>6. ASSUME NEW v, NEW q \in pos .. Len(text) + 1, Stretch(text, pos, q),
               ParseNumber(text, pos) = Got(v, q)
        PROVE  Stalls(text, ParseNumber(text, pos))
    <3>1. q \in Nat \ {0} /\ pos <= q BY <2>6
    <3>2. q <= tear
      <4>1. SUFFICES ASSUME tear < q PROVE FALSE BY <3>1
      <4>2. tear \in pos .. q - 1 BY <3>1, <4>1
      <4>3. At(text, tear) \in NumberChars BY <2>6, <4>2 DEF Stretch
      <4>4. QED BY <4>3, TornIs
    <3>3. At(text, q) \notin Whitespace \cup {Comma, CloseBracket, CloseBrace}
      <4>1. CASE q = tear BY <4>1, TornIs
      <4>2. CASE q # tear
        <5> DEFINE i == (q - pos) + 1
        <5>1. i \in 1 .. size /\ pos + i - 1 = q /\ q < tear BY <1>3, <1>5, <3>1, <3>2, <4>2
        <5> HIDE DEF i
        <5>2. At(text, q) = t[i] BY <1>2, <5>1 DEF Cut, size
        <5>3. t[i] \in NumberChars BY <2>1, <5>1 DEF size
        <5>4. QED BY <5>2, <5>3, NumberCharsDiffer DEF Punctuation
      <4>3. QED BY <4>1, <4>2
    <3>4. SkipWhitespace(text, q) = q
      <4>1. Len(text) \in Nat OBVIOUS
      <4>2. QED BY <3>1, <3>3, <4>1, PastHere DEF SkipWhitespace
    <3>5. QED BY <2>6, <3>3, <3>4 DEF Stalls
  <2>7. CASE ParseNumber(text, pos) = Failed BY <2>4, <2>7 DEF Stalls
  <2>8. QED BY <2>4, <2>5, <2>6, <2>7, NumberStays
<1>10. ASSUME NEW chars \in Strings, value = String(chars)
       PROVE  ParseValue(text, p, depth, rest) = Failed
  <2>1. t = EscapeString(chars) BY <1>1, <1>10 DEF String
  <2>2. chars \in Seq(Characters) /\ EscapeString(chars)[1] = "quote" BY EscapedOk
  <2>3. "end" \notin Characters BY JsonAssumption
  <2> DEFINE cut == tear - pos
  <2>4. cut \in Nat /\ cut < size /\ pos + cut = tear BY <1>3, <1>5
  <2>5. Torn(text, pos + cut) BY <2>4
  <2> HIDE DEF cut
  <2>6. Written(text, pos, EscapeString(chars), cut)
    <3> SUFFICES ASSUME NEW k \in 1 .. cut
                 PROVE  At(text, pos + k - 1) = t[k]
      BY <2>1 DEF Written
    <3>1. k \in 1 .. size /\ pos + k - 1 < tear BY <1>3, <2>4
    <3>2. QED BY <1>2, <3>1 DEF Cut, size
  <2>7. cut < Len(EscapeString(chars)) BY <2>1, <2>4 DEF size
  <2>8. ParseString(text, pos) = Failed
    BY <2>2, <2>3, <2>4, <2>5, <2>6, <2>7, TornStringsAreRefused
  <2>9. At(text, pos) = "quote" BY <1>4, <2>1, <2>2
  <2>10. ~ParseString(text, pos).ok BY <2>8 DEF Failed
  <2>11. QED BY <2>9, <2>10, StringStarts
<1>11. CASE \E chars \in Strings : value = String(chars) BY <1>10, <1>11 DEF Stalls
<1>12. QED BY <1>7, <1>8, <1>9, <1>11 DEF Scalars

\* A value whose text is torn is not taken for a whole one.
Refused(text, rest, tear, value, t) ==
    \A p \in Nat \ {0}, pos \in Nat \ {0}, depth \in 0 .. kMaxNestingDepth :
        /\ SkipWhitespace(text, p) = pos /\ pos < tear /\ tear < pos + Len(t)
        /\ Cut(text, tear, pos, t)
        => /\ Stalls(text, ParseValue(text, p, depth, rest))
           /\ value \notin Scalars => ParseValue(text, p, depth, rest) = Failed

\* The tear is in the text or behind it.
LEMMA TearInside ==
    ASSUME NEW T, NEW text \in Seq(T), NEW tear \in Nat, NEW t, TextOk(t),
           NEW pos \in Nat \ {0}, pos < tear, tear < pos + Len(t), Cut(text, tear, pos, t)
    PROVE  tear \in 1 .. Len(text) + 1
<1> DEFINE size == Len(t)
           i == tear - pos
           q == tear - 1
<1>1. size \in Nat /\ t \in Seq(TextTokens) BY DEF TextOk
<1>2. tear < pos + size /\ Cut(text, tear, pos, t) OBVIOUS
<1> HIDE DEF size
<1>3. i \in 1 .. size /\ pos + i - 1 = q /\ q < tear /\ q \in Nat \ {0} BY <1>1, <1>2
<1> HIDE DEF i
<1>4. At(text, q) = t[i] BY <1>2, <1>3 DEF Cut, size
<1>5. t[i] \in TextTokens BY <1>1, <1>3 DEF size
<1>6. At(text, q) # "end" BY <1>4, <1>5, TokensDiffer
<1> HIDE DEF q
<1>7. q \in 1 .. Len(text) BY <1>3, <1>6, AtEnds
<1>8. Len(text) \in Nat OBVIOUS
<1>9. QED BY <1>7, <1>8 DEF q

\* What fails at the tear fails all the way back.
LEMMA FailsBack ==
    ASSUME NEW m \in Nat \ {0}, NEW r,
           \A k \in 1 .. m : (k # m => r[k + 1] = Failed) => r[k] = Failed
    PROVE  r[1] = Failed
<1> DEFINE Good(j) == j < m => r[m - j] = Failed
           N == {j \in Nat : Good(j)}
<1>1. 0 \in N
  <2>1. m - 0 = m /\ m \in 1 .. m OBVIOUS
  <2>2. r[m - 0] = Failed BY <2>1
  <2>3. QED BY <2>2
<1>2. ASSUME NEW j \in N PROVE j + 1 \in N
  <2> SUFFICES ASSUME j + 1 < m PROVE r[m - (j + 1)] = Failed
    OBVIOUS
  <2> DEFINE k == m - (j + 1)
  <2>1. k \in 1 .. m /\ k + 1 = m - j /\ j < m OBVIOUS
  <2>2. r[k + 1] = Failed BY <2>1
  <2> HIDE DEF k
  <2>3. r[k] = Failed BY <2>1, <2>2
  <2>4. QED BY <2>3 DEF k
<1> HIDE DEF Good
<1>3. N = Nat BY <1>1, <1>2, NatSetInduction
<1>4. m - 1 \in Nat /\ m - 1 < m /\ m - (m - 1) = 1 OBVIOUS
<1>5. Good(m - 1) BY <1>3, <1>4
<1>6. QED BY <1>4, <1>5 DEF Good

\* A value that stands where the text is torn, or behind it.
LEMMA ValueTorn ==
    ASSUME NEW T, NEW text \in Seq(T), NEW tear \in Nat, Torn(text, tear), NEW p \in Nat,
           SkipWhitespace(text, p) = tear, NEW depth, NEW rest
    PROVE  ParseValue(text, p, depth, rest) = Failed
  BY TornIs, NothingStarts

\* An item of an array up to which the text is whole.
LEMMA ItemTorn ==
    ASSUME NEW T, NEW text \in Seq(T), NEW rest, NEW tear \in Nat, Torn(text, tear),
           NEW b \in Nat \ {0}, SkipWhitespace(text, b) = b, b < tear,
           NEW value, NEW t, ReadsBack(text, rest, value, t), Refused(text, rest, tear, value, t),
           NEW depth \in 0 .. kMaxNestingDepth, NEW stop \in Nat, stop = b + Len(t),
           Cut(text, tear, b, t),
           stop <= tear => Spelt(text, b, t) /\ At(text, stop) \in Stops,
           stop <= tear => \/ SkipWhitespace(text, stop) = tear
                           \/ \E next : /\ SkipWhitespace(text, stop) = stop
                                        /\ At(text, stop) = Comma
                                        /\ SkipWhitespace(text, stop + 1) = next
                                        /\ rest[<<"items", next, depth>>] = Failed
    PROVE  ParseItems(text, b, depth, rest) = Failed
<1> DEFINE read == ParseValue(text, b, depth, rest)
<1>1. ASSUME Stalls(text, read) PROVE ParseItems(text, b, depth, rest) = Failed
  <2>1. CASE read = Failed BY <2>1, ItemFails
  <2>2. ASSUME NEW v, NEW q, read = Got(v, q),
               At(text, SkipWhitespace(text, q)) \notin {Comma, CloseBracket, CloseBrace}
        PROVE  ParseItems(text, b, depth, rest) = Failed
    <3> DEFINE after == SkipWhitespace(text, q)
    <3>1. after = SkipWhitespace(text, q) OBVIOUS
    <3>2. At(text, after) \notin {Comma, CloseBracket} BY <2>2
    <3> HIDE DEF after
    <3>3. QED BY <2>2, <3>1, <3>2, ItemIsCut
  <2>3. QED BY <1>1, <2>1, <2>2 DEF Stalls
<1>2. CASE tear < stop BY <1>1, <1>2 DEF Refused
<1>3. CASE stop <= tear
  <2>1. read = IF value \in Documents[kMaxNestingDepth - depth] THEN Got(value, stop) ELSE Failed
    BY <1>3 DEF ReadsBack
  <2>2. CASE read = Failed BY <2>2, ItemFails
  <2>3. CASE read = Got(value, stop)
    <3>1. CASE SkipWhitespace(text, stop) = tear
      <4>1. At(text, tear) \notin {Comma, CloseBracket} BY TornIs
      <4>2. QED BY <2>3, <3>1, <4>1, ItemIsCut
    <3>2. ASSUME NEW next, SkipWhitespace(text, stop) = stop, At(text, stop) = Comma,
                 SkipWhitespace(text, stop + 1) = next, rest[<<"items", next, depth>>] = Failed
          PROVE  ParseItems(text, b, depth, rest) = Failed
      <4> DEFINE y == rest[<<"items", next, depth>>]
      <4>1. ParseItems(text, b, depth, rest) =
              IF y.ok THEN Got(<<value>> \o y.value, y.pos) ELSE Failed
        BY <2>3, <3>2, ItemGoesOn
      <4>2. ~y.ok BY <3>2 DEF Failed
      <4> HIDE DEF y
      <4>3. QED BY <4>1, <4>2
    <3>3. QED BY <1>3, <3>1, <3>2
  <2>4. QED BY <2>1, <2>2, <2>3
<1>4. QED BY <1>2, <1>3

\* Brackets with nothing between, torn.
LEMMA EmptyTorn ==
    ASSUME NEW T, NEW text \in Seq(T), NEW tear \in Nat, Torn(text, tear), NEW pos \in Nat \ {0},
           NEW open, NEW close, NEW level, NEW compact, NEW t,
           t = Bracketed(open, <<>>, level, compact, close),
           pos < tear, tear < pos + Len(t), Cut(text, tear, pos, t)
    PROVE  At(text, pos) = open /\ SkipWhitespace(text, pos + 1) = tear
<1> DEFINE s == <<open, close>>
<1>1. t = s BY DEF Bracketed
<1>2. Len(s) = 2 /\ s[1] = open OBVIOUS
<1> HIDE DEF s
<1> DEFINE size == Len(t)
<1>3. 1 \in 1 .. 2 /\ pos + 1 - 1 = pos /\ tear = pos + 1
  <2>1. size = 2 BY <1>1, <1>2
  <2>2. pos < tear /\ tear < pos + size OBVIOUS
  <2> HIDE DEF size
  <2>3. QED BY <2>1, <2>2
<1>4. At(text, pos) = open BY <1>1, <1>2, <1>3 DEF Cut
<1>5. QED BY <1>3, <1>4, TornStays

\* An array whose text is torn is refused.
LEMMA ArrayRefused ==
    ASSUME NEW T, NEW text \in Seq(T), NEW rest, Reader(text, rest),
           NEW tear \in Nat, Torn(text, tear),
           NEW n \in Nat, NEW items \in Seq(Documents[n]), NEW level \in Nat,
           NEW compact \in BOOLEAN,
           \A value \in Documents[n] :
               /\ ReadsBack(text, rest, value, Texts[n][<<value, level + 1, compact>>])
               /\ Refused(text, rest, tear, value, Texts[n][<<value, level + 1, compact>>])
    PROVE  Refused(text, rest, tear, Array(items), Texts[n + 1][<<Array(items), level, compact>>])
<1> DEFINE V == Documents[n]
           t == Texts[n + 1][<<Array(items), level, compact>>]
           parts == ArrayItems(n, items, level, compact)
           m == Len(items)
<1>1. t = Bracketed(OpenBracket, parts, level, compact, CloseBracket)
  BY TextIs, ZenonT(30) DEF ArrayItems
<1>2. ItemsOk(parts) /\ Len(parts) = m /\ m \in Nat
  <2>1. level + 1 \in Nat OBVIOUS
  <2>2. \A value \in Documents[n] : TextOk(Texts[n][<<value, level + 1, compact>>])
    BY <2>1, TextsAreOk
  <2>3. QED BY <2>2, ArrayItemsOk
<1>3. \A k \in 1 .. m : /\ ReadsBack(text, rest, items[k], parts[k])
                        /\ Refused(text, rest, tear, items[k], parts[k])
  BY DEF ArrayItems
<1>4. items \in Seq(V) OBVIOUS
<1> HIDE DEF V, t, parts, m
<1>5. SUFFICES ASSUME NEW p \in Nat \ {0}, NEW pos \in Nat \ {0}, NEW depth \in 0 .. kMaxNestingDepth,
                      SkipWhitespace(text, p) = pos, pos < tear, tear < pos + Len(t),
                      Cut(text, tear, pos, t)
               PROVE  ParseValue(text, p, depth, rest) = Failed
  BY DEF Refused, Stalls, t
<1> DEFINE inner == depth + 1
<1>6. /\ kMaxNestingDepth \in Nat /\ inner \in Nat \ {0}
      /\ ~TooDeep(inner) => inner \in 1 .. kMaxNestingDepth /\ inner \in 0 .. kMaxNestingDepth
  BY JsonAssumption DEF TooDeep
<1> HIDE DEF inner
<1>7. TextOk(t) BY <1>1, <1>2, BracketedOk
<1>8. Len(t) \in Nat \ {0} BY <1>7 DEF TextOk
<1>9. tear \in 1 .. Len(text) + 1 BY <1>5, <1>7, TearInside
<1>10. ASSUME At(text, pos) = OpenBracket, NEW inside \in 1 .. Len(text) + 1,
              SkipWhitespace(text, pos + 1) = inside, At(text, inside) # CloseBracket,
              ~TooDeep(inner) => ParseItems(text, inside, inner, rest) = Failed
       PROVE  ParseValue(text, p, depth, rest) = Failed
  <2>1. ParseValue(text, p, depth, rest) = ParseArray(text, pos, inner, rest)
    BY <1>5, <1>10, ArrayStarts DEF inner
  <2>2. CASE TooDeep(inner) BY <2>1, <2>2 DEF ParseArray
  <2>3. CASE ~TooDeep(inner)
    <3> DEFINE x == ParseItems(text, inside, inner, rest)
    <3>1. ParseArray(text, pos, inner, rest)
            = IF x.ok THEN Got(Array(x.value), x.pos) ELSE Failed
      BY <1>6, <1>10, <2>3, ArrayTurn
    <3>2. ~x.ok BY <1>10, <2>3 DEF Failed
    <3> HIDE DEF x
    <3>3. QED BY <2>1, <3>1, <3>2
  <2>4. QED BY <2>2, <2>3
<1>11. CASE m = 0
  <2>1. parts = <<>>
    <3>1. parts \in Seq(Seq(TextTokens)) BY <1>2 DEF ItemsOk
    <3>2. QED BY <1>2, <1>11, <3>1
  <2>2. t = Bracketed(OpenBracket, <<>>, level, compact, CloseBracket) BY <1>1, <2>1
  <2>3. At(text, pos) = OpenBracket /\ SkipWhitespace(text, pos + 1) = tear
    BY <1>5, <2>2, EmptyTorn
  <2>4. At(text, tear) # CloseBracket BY TornIs
  <2>5. ParseItems(text, tear, inner, rest) = Failed BY TornStays, ValueTorn, ItemFails
  <2>6. QED BY <1>9, <1>10, <2>3, <2>4, <2>5
<1>12. CASE m # 0
  <2> DEFINE last == (pos + Len(t)) - 1
  <2>1. last \in Nat /\ tear <= last /\ tear <= last + 1 /\ tear # last + 1 BY <1>5, <1>8
  <2>2. parts # <<>>
    <3>1. Len(<<>>) = 0 OBVIOUS
    <3>2. QED BY <1>2, <1>12, <3>1
  <2>3. \A i \in 1 .. Len(t) : pos + i - 1 < tear => At(text, pos + i - 1) = t[i]
    BY <1>5 DEF Cut
  <2>4. PICK b : Listed(text, tear, pos, last, b, parts, OpenBracket, CloseBracket)
    BY <1>1, <1>2, <2>2, <2>3, ListWritten
  <2> HIDE DEF last
  <2> DEFINE len(k) == Len(parts[k])
             stop(k) == b[k] + len(k)
  <2>5. /\ At(text, pos) = OpenBracket
        /\ SkipWhitespace(text, pos + 1) = Upto(tear, b[1])
        /\ \A k \in 1 .. m :
              /\ b[k] \in Nat \ {0} /\ len(k) \in Nat \ {0}
              /\ b[k] < tear => /\ At(text, b[k]) \in Opening
                                /\ SkipWhitespace(text, b[k]) = b[k]
              /\ Cut(text, tear, b[k], parts[k])
              /\ stop(k) <= tear => /\ Spelt(text, b[k], parts[k])
                                    /\ At(text, stop(k)) \in Stops
        /\ \A k \in 1 .. m - 1 :
              stop(k) < tear =>
                 /\ At(text, stop(k)) = Comma
                 /\ SkipWhitespace(text, stop(k)) = stop(k)
                 /\ SkipWhitespace(text, stop(k) + 1) = Upto(tear, b[k + 1])
        /\ stop(m) <= tear => SkipWhitespace(text, stop(m)) = Upto(tear, last)
    <3> DEFINE c == CloseBracket
    <3>1. c \in {CloseBracket, CloseBrace} OBVIOUS
    <3>2. Listed(text, tear, pos, last, b, parts, OpenBracket, c) BY <2>4
    <3>3. At(text, tear) \in {"end", "torn"} BY TornIs
    <3> HIDE DEF c
    <3>4. ListIn(text, tear, pos, last, b, parts, OpenBracket, c)
      BY <1>2, <1>5, <2>1, <2>2, <3>1, <3>2, <3>3, ListStands
    <3>5. QED BY <1>2, <3>4 DEF ListIn, Cut
  <2> DEFINE from(k) == Upto(tear, b[k])
             r == [k \in 1 .. m |-> ParseItems(text, from(k), inner, rest)]
  <2>6. ASSUME NEW k \in 1 .. m
        PROVE  from(k) \in 1 .. Len(text) + 1 /\ At(text, from(k)) # CloseBracket
    <3>1. CASE b[k] < tear
      <4>1. from(k) = b[k] BY <3>1 DEF Upto
      <4>2. b[k] \in Nat \ {0} /\ b[k] <= Len(text) + 1 BY <1>9, <2>5, <3>1
      <4>3. CloseBracket \notin Opening
        BY PunctuationDiffers, PunctuationIsNoWord DEF Punctuation, Words, Opening, Literals
      <4>4. At(text, b[k]) \in Opening BY <2>5, <3>1
      <4>5. QED BY <4>1, <4>2, <4>3, <4>4
    <3>2. CASE ~(b[k] < tear)
      <4>1. from(k) = tear BY <3>2 DEF Upto
      <4>2. QED BY <1>9, <4>1, TornIs
    <3>3. QED BY <3>1, <3>2
  <2>7. CASE TooDeep(inner)
    <3>1. 1 \in 1 .. m BY <1>2, <1>12
    <3>2. from(1) \in 1 .. Len(text) + 1 /\ At(text, from(1)) # CloseBracket BY <2>6, <3>1
    <3> DEFINE q == from(1)
    <3>3. SkipWhitespace(text, pos + 1) = q BY <2>5
    <3> HIDE DEF q
    <3>4. QED BY <1>10, <2>5, <2>7, <3>2, <3>3 DEF q
  <2>8. CASE ~TooDeep(inner)
    <3>1. inner \in 1 .. kMaxNestingDepth /\ inner \in 0 .. kMaxNestingDepth BY <1>6, <2>8
    <3>2. ASSUME NEW k \in 1 .. m, k # m => r[k + 1] = Failed
          PROVE  r[k] = Failed
      <4> DEFINE x == ParseItems(text, from(k), inner, rest)
      <4>1. r[k] = x OBVIOUS
      <4>2. CASE ~(b[k] < tear)
        <5>1. from(k) = tear BY <4>2 DEF Upto
        <5>2. x = Failed BY <5>1, TornStays, ValueTorn, ItemFails
        <5> HIDE DEF x, r
        <5>3. QED BY <4>1, <5>2
      <4>3. CASE b[k] < tear
        <5> DEFINE s == parts[k]
                   bk == b[k]
                   e == stop(k)
                   value == items[k]
        <5>1. from(k) = bk BY <4>3 DEF Upto
        <5>2. /\ bk \in Nat \ {0} /\ SkipWhitespace(text, bk) = bk /\ bk < tear
              /\ Cut(text, tear, bk, s) /\ ReadsBack(text, rest, value, s)
              /\ Refused(text, rest, tear, value, s)
              /\ e <= tear => Spelt(text, bk, s) /\ At(text, e) \in Stops
          BY <1>3, <2>5, <4>3
        <5>3. e \in Nat /\ e = bk + Len(s)
          <6>1. bk \in Nat /\ len(k) \in Nat BY <2>5
          <6> HIDE DEF len, bk
          <6>2. bk + len(k) \in Nat BY <6>1
          <6>3. QED BY <6>2 DEF len, bk
        <5>4. ASSUME e <= tear
              PROVE  \/ SkipWhitespace(text, e) = tear
                     \/ \E next : /\ SkipWhitespace(text, e) = e
                                  /\ At(text, e) = Comma
                                  /\ SkipWhitespace(text, e + 1) = next
                                  /\ rest[<<"items", next, inner>>] = Failed
          <6>1. CASE k = m
            <7>1. SkipWhitespace(text, e) = Upto(tear, last) BY <2>5, <5>4, <6>1
            <7>2. Upto(tear, last) = tear BY <2>1 DEF Upto
            <7>3. QED BY <7>1, <7>2
          <6>2. CASE e = tear BY <6>2, TornStays
          <6>3. CASE k # m /\ e # tear
            <7>1. k \in 1 .. m - 1 /\ k + 1 \in 1 .. m /\ e < tear BY <1>2, <5>3, <5>4, <6>3
            <7> DEFINE next == from(k + 1)
                       place == <<"items", next, inner>>
            <7>2. /\ At(text, e) = Comma /\ SkipWhitespace(text, e) = e
                  /\ SkipWhitespace(text, e + 1) = next
              BY <2>5, <7>1
            <7>3. next \in 1 .. Len(text) + 1 BY <2>6, <7>1
            <7>4. r[k + 1] = ParseItems(text, next, inner, rest) BY <7>1
            <7> HIDE DEF next, r
            <7>5. place \in Places(text) BY <3>1, <7>3 DEF Places
            <7>6. rest[place] = Loop(text, place, rest) BY <7>5 DEF Reader
            <7>7. place[1] = "items" /\ place[2] = next /\ place[3] = inner OBVIOUS
            <7> HIDE DEF place
            <7>8. rest[place] = ParseItems(text, next, inner, rest) BY <7>6, <7>7 DEF Loop
            <7>9. rest[place] = Failed BY <3>2, <6>3, <7>4, <7>8
            <7> HIDE DEF e
            <7>10. QED BY <7>2, <7>9 DEF place
          <6>4. QED BY <6>1, <6>2, <6>3
        <5> HIDE DEF s, bk, e, value, r, x, stop
        <5>5. ParseItems(text, bk, inner, rest) = Failed
          BY <3>1, <5>2, <5>3, <5>4, ItemTorn
        <5>6. QED BY <4>1, <5>1, <5>5 DEF x
      <4>4. QED BY <4>2, <4>3
    <3> HIDE DEF r
    <3>3. r[1] = Failed BY <1>2, <1>12, <3>2, FailsBack
    <3>4. 1 \in 1 .. m BY <1>2, <1>12
    <3> DEFINE q == from(1)
    <3>5. ParseItems(text, q, inner, rest) = Failed BY <3>3, <3>4 DEF r
    <3>6. q \in 1 .. Len(text) + 1 /\ At(text, q) # CloseBracket BY <2>6, <3>4
    <3>7. SkipWhitespace(text, pos + 1) = q BY <2>5
    <3> HIDE DEF q
    <3>8. QED BY <1>10, <2>5, <3>5, <3>6, <3>7
  <2>9. QED BY <2>7, <2>8
<1>13. QED BY <1>11, <1>12

\* A member whose value is read, and what follows it cut off.
LEMMA MemberStalls ==
    ASSUME NEW text, NEW rest, NEW p, NEW depth, NEW b, SkipWhitespace(text, p) = b,
           NEW key, NEW q, ParseString(text, b) = Got(key, q),
           SkipWhitespace(text, q) = q, At(text, q) = Colon,
           Stalls(text, ParseValue(text, q + 1, depth, rest))
    PROVE  ParseMembers(text, p, depth, rest) = Failed
<1> DEFINE read == ParseValue(text, q + 1, depth, rest)
<1>1. CASE read = Failed BY <1>1, MemberFails
<1>2. ASSUME NEW v, NEW e, read = Got(v, e),
             At(text, SkipWhitespace(text, e)) \notin {Comma, CloseBracket, CloseBrace}
      PROVE  ParseMembers(text, p, depth, rest) = Failed
  <2> DEFINE after == SkipWhitespace(text, e)
  <2>1. after = SkipWhitespace(text, e) OBVIOUS
  <2>2. At(text, after) \notin {Comma, CloseBrace} BY <1>2
  <2>3. MemberAt(text, p, depth, rest, b, key, q, v, e) BY <1>2 DEF MemberAt
  <2> HIDE DEF after
  <2>4. QED BY <2>1, <2>2, <2>3, MemberIsCut
<1>3. QED BY <1>1, <1>2 DEF Stalls

\* A member that the tear is in, or before.
LEMMA MemberBroken ==
    ASSUME NEW T, NEW text \in Seq(T), NEW rest, NEW tear \in Nat, Torn(text, tear),
           NEW b \in Nat \ {0}, NEW key \in MemberKeys, NEW compact \in BOOLEAN,
           NEW value, NEW t, TextOk(t), MemberIn(text, tear, b, key, compact, t),
           Refused(text, rest, tear, value, t), NEW p, SkipWhitespace(text, p) = Upto(tear, b),
           NEW depth \in 0 .. kMaxNestingDepth,
           tear < b + Len(EscapeString(key)) + Len(ColonText(compact)) + Len(t)
    PROVE  ParseMembers(text, p, depth, rest) = Failed
<1> DEFINE e == EscapeString(key)
           len == Len(e)
           gap == Len(ColonText(compact))
           q == b + len
           v == q + gap
<1>1. /\ \A i \in 1 .. len : b + i - 1 < tear => At(text, b + i - 1) = e[i]
      /\ q <= tear => Spelt(text, b, e)
      /\ q < tear => /\ At(text, q) = Colon /\ SkipWhitespace(text, q) = q
                     /\ SkipWhitespace(text, q + 1) = Upto(tear, v)
      /\ \A i \in 1 .. Len(t) : v + i - 1 < tear => At(text, v + i - 1) = t[i]
  BY DEF MemberIn
<1>2. key \in Seq(Characters) /\ "end" \notin Characters /\ len \in Nat
  BY EscapedOk, JsonAssumption
<1>3. gap \in 1 .. 2
  <2>1. ColonText(compact) = <<Colon>> \/ ColonText(compact) = <<Colon, Blank>> BY DEF ColonText
  <2>2. QED BY <2>1
<1>4. tear < v + Len(t) OBVIOUS
<1> HIDE DEF gap
<1>5. CASE tear <= b
  <2>1. SkipWhitespace(text, p) = tear BY <1>5 DEF Upto
  <2>2. At(text, tear) # "quote" BY TornIs
  <2>3. ParseString(text, tear) = Failed BY <2>2 DEF ParseString
  <2>4. QED BY <2>1, <2>3, MemberFails
<1>6. b < tear => SkipWhitespace(text, p) = b BY DEF Upto
<1>7. CASE b < tear /\ tear < q
  <2> DEFINE cut == tear - b
  <2>1. cut \in Nat /\ cut < len /\ b + cut = tear
    <3> HIDE DEF len
    <3>1. QED BY <1>2, <1>7
  <2>2. Torn(text, b + cut) BY <2>1
  <2> HIDE DEF cut
  <2>3. Written(text, b, e, cut)
    <3> SUFFICES ASSUME NEW k \in 1 .. cut PROVE At(text, b + k - 1) = e[k]
      BY DEF Written
    <3> HIDE DEF len, e
    <3>1. k \in 1 .. len /\ b + k - 1 < tear BY <1>2, <2>1
    <3>2. QED BY <1>1, <3>1
  <2>4. ParseString(text, b) = Failed BY <1>2, <2>1, <2>2, <2>3, TornStringsAreRefused
  <2>5. QED BY <1>6, <1>7, <2>4, MemberFails
<1>8. CASE b < tear /\ q <= tear
  <2>1. ParseString(text, b) = Got(key, q)
    <3>1. Written(text, b, EscapeString(key), Len(EscapeString(key))) BY <1>1, <1>8 DEF Spelt
    <3>2. QED BY <1>2, <3>1, StringsAreReadBack
  <2> HIDE DEF len, e
  <2>2. q \in Nat \ {0} BY <1>2
  <2>3. CASE q = tear
    <3>1. SkipWhitespace(text, q) = q BY <2>3, TornStays
    <3>2. At(text, q) # Colon BY <2>3, TornIs
    <3> HIDE DEF q
    <3>3. QED BY <1>6, <1>8, <2>1, <3>1, <3>2, MemberFails
  <2>4. CASE q # tear
    <3>1. /\ At(text, q) = Colon /\ SkipWhitespace(text, q) = q
          /\ SkipWhitespace(text, q + 1) = Upto(tear, v)
      <4>1. q < tear BY <1>8, <2>2, <2>4
      <4>2. QED BY <1>1, <4>1
    <3>2. v \in Nat \ {0} /\ q + 1 \in Nat \ {0} /\ q + 1 \in Nat BY <1>3, <2>2
    <3>3. Stalls(text, ParseValue(text, q + 1, depth, rest))
      <4>1. CASE v < tear
        <5>1. SkipWhitespace(text, q + 1) = v BY <3>1, <4>1 DEF Upto
        <5>2. Cut(text, tear, v, t) BY <1>1 DEF Cut
        <5> HIDE DEF v, q
        <5>3. QED BY <1>4, <3>2, <4>1, <5>1, <5>2 DEF Refused
      <4>2. CASE ~(v < tear)
        <5>1. SkipWhitespace(text, q + 1) = tear BY <3>1, <4>2 DEF Upto
        <5> HIDE DEF q
        <5>2. ParseValue(text, q + 1, depth, rest) = Failed BY <3>2, <5>1, ValueTorn
        <5>3. QED BY <5>2 DEF Stalls
      <4>3. QED BY <4>1, <4>2
    <3> HIDE DEF q
    <3>4. QED BY <1>6, <1>8, <2>1, <3>1, <3>3, MemberStalls
  <2>5. QED BY <2>3, <2>4
<1>9. QED
  <2>1. q \in Nat
    <3> HIDE DEF len
    <3>1. QED BY <1>2
  <2> HIDE DEF q
  <2>2. tear <= b \/ (b < tear /\ tear < q) \/ (b < tear /\ q <= tear) BY <2>1
  <2>3. QED BY <1>5, <1>7, <1>8, <2>2

\* Behind a member that is read the text is torn, or the next one is refused.
FailsBehind(text, rest, tear, stop, depth) ==
    \/ SkipWhitespace(text, stop) = tear
    \/ /\ SkipWhitespace(text, stop) = stop /\ At(text, stop) = Comma
       /\ rest[<<"members", stop + 1, depth>>] = Failed

\* A member whose text is s stands from b up to stop, as far as the tear.
MemberUpto(text, rest, tear, b, key, compact, value, t, s, stop) ==
    /\ \E T : text \in Seq(T)
    /\ tear \in Nat /\ Torn(text, tear) /\ compact \in BOOLEAN
    /\ b \in Nat \ {0} /\ stop \in Nat /\ key \in MemberKeys /\ TextOk(t)
    /\ ReadsBack(text, rest, value, t) /\ Refused(text, rest, tear, value, t)
    /\ s = EscapeString(key) \o ColonText(compact) \o t /\ Cut(text, tear, b, s)
    /\ stop = b + Len(s)
    /\ stop <= tear => Spelt(text, b, s) /\ At(text, stop) \in Stops

\* A member of an object up to which the text is whole.
LEMMA MemberTorn ==
    ASSUME NEW text, NEW rest, NEW tear, NEW b, NEW key, NEW compact, NEW value, NEW t, NEW s,
           NEW stop, MemberUpto(text, rest, tear, b, key, compact, value, t, s, stop),
           NEW p, SkipWhitespace(text, p) = Upto(tear, b), NEW depth \in 0 .. kMaxNestingDepth,
           stop <= tear => FailsBehind(text, rest, tear, stop, depth)
    PROVE  ParseMembers(text, p, depth, rest) = Failed
<1>0. PICK T :
      /\ text \in Seq(T) /\ tear \in Nat /\ Torn(text, tear) /\ compact \in BOOLEAN
      /\ b \in Nat \ {0} /\ stop \in Nat /\ key \in MemberKeys /\ TextOk(t)
      /\ ReadsBack(text, rest, value, t) /\ Refused(text, rest, tear, value, t)
      /\ s = EscapeString(key) \o ColonText(compact) \o t /\ Cut(text, tear, b, s)
      /\ stop = b + Len(s)
      /\ stop <= tear => Spelt(text, b, s) /\ At(text, stop) \in Stops
  BY DEF MemberUpto
<1> DEFINE size == Len(s)
<1>1. size = Len(EscapeString(key)) + Len(ColonText(compact)) + Len(t) /\ size \in Nat \ {0}
  <2>1. TextOk(s) BY <1>0, MemberText
  <2>2. size \in Nat \ {0} BY <2>1 DEF TextOk
  <2>3. QED BY <1>0, <2>2, MemberText
<1>2. CASE tear < stop
  <2>1. tear < b + Len(EscapeString(key)) + Len(ColonText(compact)) + Len(t)
    <3> DEFINE x == Len(EscapeString(key))
               y == Len(ColonText(compact))
               z == Len(t)
    <3>1. x \in Nat BY <1>0, EscapedOk
    <3>2. y \in Nat
      <4>1. ColonText(compact) = <<Colon>> \/ ColonText(compact) = <<Colon, Blank>>
        BY <1>0 DEF ColonText
      <4>2. QED BY <4>1
    <3>3. z \in Nat BY <1>0 DEF TextOk
    <3>4. size = x + y + z /\ tear < b + size BY <1>0, <1>1, <1>2
    <3> HIDE DEF x, y, z, size
    <3>5. tear < b + x + y + z BY <1>0, <3>1, <3>2, <3>3, <3>4
    <3>6. QED BY <3>5 DEF x, y, z
  <2>2. MemberIn(text, tear, b, key, compact, t)
    <3>1. \A i \in 1 .. Len(s) : b + i - 1 < tear => At(text, b + i - 1) = s[i] BY <1>0 DEF Cut
    <3>2. At(text, tear) \in {"end", "torn"} BY <1>0, TornIs
    <3>3. QED BY <1>0, <3>1, <3>2, MemberStands
  <2>3. QED BY <1>0, <2>1, <2>2, MemberBroken
<1>3. CASE stop <= tear
  <2>1. b < tear
    <3>1. stop = b + size /\ b \in Nat /\ stop \in Nat BY <1>0
    <3> HIDE DEF size
    <3>2. QED BY <1>0, <1>1, <1>3, <3>1
  <2>2. SkipWhitespace(text, p) = b BY <2>1 DEF Upto
  <2>3. MemberRead(text, b, depth, rest, key, value, stop)
    <3>1. Spelt(text, b, s) /\ At(text, b + Len(s)) \in Stops BY <1>0, <1>3
    <3>2. QED BY <1>0, <2>2, <3>1, MemberIsRead
  <2>4. PICK q : /\ ParseString(text, b) = Got(key, q)
                 /\ SkipWhitespace(text, q) = q /\ At(text, q) = Colon
                 /\ ParseValue(text, q + 1, depth, rest) =
                      IF value \in Documents[kMaxNestingDepth - depth]
                      THEN Got(value, stop) ELSE Failed
    BY <2>3 DEF MemberRead
  <2>5. CASE ParseValue(text, q + 1, depth, rest) = Failed BY <2>2, <2>4, <2>5, MemberFails
  <2>6. CASE ParseValue(text, q + 1, depth, rest) = Got(value, stop)
    <3>1. MemberAt(text, p, depth, rest, b, key, q, value, stop)
      BY <2>2, <2>4, <2>6 DEF MemberAt
    <3>2. CASE SkipWhitespace(text, stop) = tear
      <4>1. At(text, tear) \notin {Comma, CloseBrace} BY <1>0, TornIs
      <4>2. QED BY <3>1, <3>2, <4>1, MemberIsCut
    <3>3. CASE /\ SkipWhitespace(text, stop) = stop /\ At(text, stop) = Comma
               /\ rest[<<"members", stop + 1, depth>>] = Failed
      <4>1. PICK after : after = stop OBVIOUS
      <4>2. /\ MemberAt(text, p, depth, rest, b, key, q, value, after)
            /\ SkipWhitespace(text, after) = after /\ At(text, after) = Comma
            /\ rest[<<"members", after + 1, depth>>] = Failed
        BY <3>1, <3>3, <4>1
      <4> DEFINE y == rest[<<"members", after + 1, depth>>]
      <4>3. ParseMembers(text, p, depth, rest) =
              IF y.ok THEN Got(<<(<<key, value>>)>> \o y.value, y.pos) ELSE Failed
        BY <4>2, MemberGoesOn
      <4>4. ~y.ok BY <4>2 DEF Failed
      <4> HIDE DEF y
      <4>5. QED BY <4>3, <4>4
    <3>4. QED BY <1>3, <3>2, <3>3 DEF FailsBehind
  <2>7. QED BY <2>4, <2>5, <2>6
<1>4. QED
  <2>1. stop <= tear \/ tear < stop BY <1>0
  <2>2. QED BY <1>2, <1>3, <2>1

\* An object whose text is torn is refused.
LEMMA ObjectRefused ==
    ASSUME NEW T, NEW text \in Seq(T), NEW rest, Reader(text, rest),
           NEW tear \in Nat, Torn(text, tear),
           NEW n \in Nat, NEW members \in Seq(MemberKeys \X Documents[n]), NEW level \in Nat,
           NEW compact \in BOOLEAN,
           \A value \in Documents[n] :
               /\ ReadsBack(text, rest, value, Texts[n][<<value, level + 1, compact>>])
               /\ Refused(text, rest, tear, value, Texts[n][<<value, level + 1, compact>>])
    PROVE  Refused(text, rest, tear, Object(members),
                   Texts[n + 1][<<Object(members), level, compact>>])
<1> DEFINE V == MemberKeys \X Documents[n]
           t == Texts[n + 1][<<Object(members), level, compact>>]
           parts == ObjectItems(n, members, level, compact)
           inside(k) == Texts[n][<<members[k][2], level + 1, compact>>]
           m == Len(members)
<1>1. t = Bracketed(OpenBrace, parts, level, compact, CloseBrace)
  BY TextIs DEF ObjectItems, ColonText
<1>2. ItemsOk(parts) /\ Len(parts) = m /\ m \in Nat
  <2>1. level + 1 \in Nat OBVIOUS
  <2>2. \A value \in Documents[n] : TextOk(Texts[n][<<value, level + 1, compact>>])
    BY <2>1, TextsAreOk
  <2>3. m \in Nat OBVIOUS
  <2> HIDE DEF V, t, inside, m
  <2>4. ItemsOk(parts) /\ Len(parts) = Len(members) BY <2>2, ObjectItemsOk, Zenon
  <2>5. QED BY <2>3, <2>4 DEF m
<1>3. \A k \in 1 .. m :
         /\ members[k][1] \in MemberKeys /\ TextOk(inside(k))
         /\ ReadsBack(text, rest, members[k][2], inside(k))
         /\ Refused(text, rest, tear, members[k][2], inside(k))
         /\ parts[k] = EscapeString(members[k][1]) \o ColonText(compact) \o inside(k)
  <2> SUFFICES ASSUME NEW k \in 1 .. m
               PROVE  /\ members[k][1] \in MemberKeys /\ TextOk(inside(k))
                      /\ ReadsBack(text, rest, members[k][2], inside(k))
                      /\ Refused(text, rest, tear, members[k][2], inside(k))
                      /\ parts[k] = EscapeString(members[k][1]) \o ColonText(compact) \o inside(k)
    OBVIOUS
  <2> DEFINE D == Documents[n]
  <2>1. members[k] \in MemberKeys \X D OBVIOUS
  <2>2. parts[k] = EscapeString(members[k][1]) \o ColonText(compact) \o inside(k)
    <3>1. k \in DOMAIN members BY DEF m
    <3>2. QED BY <3>1 DEF ObjectItems
  <2>3. \A value \in D : /\ ReadsBack(text, rest, value, Texts[n][<<value, level + 1, compact>>])
                         /\ Refused(text, rest, tear, value, Texts[n][<<value, level + 1, compact>>])
                         /\ TextOk(Texts[n][<<value, level + 1, compact>>])
    <3>1. level + 1 \in Nat OBVIOUS
    <3>2. QED BY <3>1, TextsAreOk
  <2> HIDE DEF D
  <2>4. members[k][1] \in MemberKeys /\ members[k][2] \in D BY <2>1
  <2>5. QED BY <2>2, <2>3, <2>4
<1>4. members \in Seq(V) OBVIOUS
<1> HIDE DEF V, t, parts, inside, m
<1>5. SUFFICES ASSUME NEW p \in Nat \ {0}, NEW pos \in Nat \ {0}, NEW depth \in 0 .. kMaxNestingDepth,
                      SkipWhitespace(text, p) = pos, pos < tear, tear < pos + Len(t),
                      Cut(text, tear, pos, t)
               PROVE  ParseValue(text, p, depth, rest) = Failed
  BY DEF Refused, Stalls, t
<1> DEFINE inner == depth + 1
<1>6. /\ kMaxNestingDepth \in Nat /\ inner \in Nat \ {0}
      /\ ~TooDeep(inner) => inner \in 1 .. kMaxNestingDepth /\ inner \in 0 .. kMaxNestingDepth
  BY JsonAssumption DEF TooDeep
<1> HIDE DEF inner
<1>7. TextOk(t) BY <1>1, <1>2, BracketedOk
<1>8. Len(t) \in Nat \ {0} BY <1>7 DEF TextOk
<1>9. tear \in 1 .. Len(text) + 1 BY <1>5, <1>7, TearInside
<1>10. ASSUME At(text, pos) = OpenBrace, NEW first \in 1 .. Len(text) + 1,
              SkipWhitespace(text, pos + 1) = first, At(text, first) # CloseBrace,
              ~TooDeep(inner) => ParseMembers(text, first, inner, rest) = Failed
       PROVE  ParseValue(text, p, depth, rest) = Failed
  <2>1. ParseValue(text, p, depth, rest) = ParseObject(text, pos, inner, rest)
    BY <1>5, <1>10, ObjectStarts DEF inner
  <2>2. CASE TooDeep(inner) BY <2>1, <2>2 DEF ParseObject
  <2>3. CASE ~TooDeep(inner)
    <3> DEFINE x == ParseMembers(text, first, inner, rest)
    <3>1. ParseObject(text, pos, inner, rest)
            = IF x.ok THEN Got(SetAll(x.value), x.pos) ELSE Failed
      BY <1>6, <1>10, <2>3, ObjectTurn
    <3>2. ~x.ok BY <1>10, <2>3 DEF Failed
    <3> HIDE DEF x
    <3>3. QED BY <2>1, <3>1, <3>2
  <2>4. QED BY <2>2, <2>3
<1>11. CASE m = 0
  <2>1. parts = <<>>
    <3>1. parts \in Seq(Seq(TextTokens)) BY <1>2 DEF ItemsOk
    <3>2. QED BY <1>2, <1>11, <3>1
  <2>2. t = Bracketed(OpenBrace, <<>>, level, compact, CloseBrace) BY <1>1, <2>1
  <2>3. At(text, pos) = OpenBrace /\ SkipWhitespace(text, pos + 1) = tear
    BY <1>5, <2>2, EmptyTorn
  <2>4. At(text, tear) # CloseBrace /\ At(text, tear) # "quote" BY TornIs
  <2>5. ParseMembers(text, tear, inner, rest) = Failed
    <3>1. ParseString(text, tear) = Failed BY <2>4 DEF ParseString
    <3>2. QED BY <3>1, TornStays, MemberFails
  <2>6. QED BY <1>9, <1>10, <2>3, <2>4, <2>5
<1>12. CASE m # 0
  <2> DEFINE last == (pos + Len(t)) - 1
  <2>1. last \in Nat /\ tear <= last /\ tear <= last + 1 /\ tear # last + 1 BY <1>5, <1>8
  <2>2. parts # <<>>
    <3>1. Len(<<>>) = 0 OBVIOUS
    <3>2. QED BY <1>2, <1>12, <3>1
  <2>3. \A i \in 1 .. Len(t) : pos + i - 1 < tear => At(text, pos + i - 1) = t[i]
    BY <1>5 DEF Cut
  <2>4. PICK b : Listed(text, tear, pos, last, b, parts, OpenBrace, CloseBrace)
    BY <1>1, <1>2, <2>2, <2>3, ListWritten
  <2> HIDE DEF last
  <2> DEFINE len(k) == Len(parts[k])
             stop(k) == b[k] + len(k)
  <2>5. /\ At(text, pos) = OpenBrace
        /\ SkipWhitespace(text, pos + 1) = Upto(tear, b[1])
        /\ \A k \in 1 .. m :
              /\ b[k] \in Nat \ {0} /\ len(k) \in Nat \ {0}
              /\ b[k] < tear => /\ At(text, b[k]) \in Opening
                                /\ SkipWhitespace(text, b[k]) = b[k]
              /\ Cut(text, tear, b[k], parts[k])
              /\ stop(k) <= tear => /\ Spelt(text, b[k], parts[k])
                                    /\ At(text, stop(k)) \in Stops
        /\ \A k \in 1 .. m - 1 :
              /\ stop(k) < b[k + 1]
              /\ stop(k) < tear =>
                 /\ At(text, stop(k)) = Comma
                 /\ SkipWhitespace(text, stop(k)) = stop(k)
                 /\ SkipWhitespace(text, stop(k) + 1) = Upto(tear, b[k + 1])
        /\ stop(m) <= tear => SkipWhitespace(text, stop(m)) = Upto(tear, last)
    <3> DEFINE c == CloseBrace
    <3>1. c \in {CloseBracket, CloseBrace} OBVIOUS
    <3>2. Listed(text, tear, pos, last, b, parts, OpenBrace, c) BY <2>4
    <3>3. At(text, tear) \in {"end", "torn"} BY TornIs
    <3> HIDE DEF c
    <3>4. ListIn(text, tear, pos, last, b, parts, OpenBrace, c)
      BY <1>2, <1>5, <2>1, <2>2, <3>1, <3>2, <3>3, ListStands
    <3>5. QED BY <1>2, <3>4 DEF ListIn, Cut
  <2>6. \A k \in 1 .. m : stop(k) \in Nat \ {0} /\ b[k] < stop(k)
    <3> SUFFICES ASSUME NEW k \in 1 .. m PROVE stop(k) \in Nat \ {0} /\ b[k] < stop(k)
      OBVIOUS
    <3> DEFINE l == len(k)
               bk == b[k]
    <3>1. bk \in Nat /\ l \in Nat \ {0} BY <2>5
    <3> HIDE DEF l, bk
    <3>2. bk + l \in Nat \ {0} /\ bk < bk + l BY <3>1
    <3>3. QED BY <3>2 DEF l, bk
  \* Where the reader is before each member.
  <2> DEFINE from(k) == IF k = 1 THEN Upto(tear, b[1]) ELSE stop(k - 1) + 1
             met(k) == k = 1 \/ stop(k - 1) < tear
             r == [k \in 1 .. m |-> IF met(k) THEN ParseMembers(text, from(k), inner, rest)
                                    ELSE Failed]
  <2>7. Upto(tear, b[1]) \in 1 .. Len(text) + 1 /\ At(text, Upto(tear, b[1])) # CloseBrace
        /\ SkipWhitespace(text, Upto(tear, b[1])) = Upto(tear, b[1])
    <3>1. 1 \in 1 .. m BY <1>2, <1>12
    <3>2. CASE b[1] < tear
      <4>1. Upto(tear, b[1]) = b[1] BY <3>2 DEF Upto
      <4>2. b[1] \in Nat \ {0} /\ b[1] <= Len(text) + 1 BY <1>9, <2>5, <3>1, <3>2
      <4>3. CloseBrace \notin Opening
        BY PunctuationDiffers, PunctuationIsNoWord DEF Punctuation, Words, Opening, Literals
      <4>4. At(text, b[1]) \in Opening /\ SkipWhitespace(text, b[1]) = b[1] BY <2>5, <3>1, <3>2
      <4>5. QED BY <4>1, <4>2, <4>3, <4>4
    <3>3. CASE ~(b[1] < tear)
      <4>1. Upto(tear, b[1]) = tear BY <3>3 DEF Upto
      <4>2. QED BY <1>9, <4>1, TornIs, TornStays
    <3>4. QED BY <3>2, <3>3
  <2>8. ASSUME NEW k \in 1 .. m, met(k)
        PROVE  SkipWhitespace(text, from(k)) = Upto(tear, b[k])
    <3>1. CASE k = 1 BY <2>7, <3>1
    <3>2. CASE k # 1
      <4> DEFINE j == k - 1
      <4>1. j \in 1 .. m - 1 /\ j + 1 = k BY <1>2, <3>2
      <4>2. from(k) = stop(j) + 1 /\ stop(j) < tear BY <2>8, <3>2
      <4> HIDE DEF j
      <4>3. SkipWhitespace(text, stop(j) + 1) = Upto(tear, b[j + 1]) BY <2>5, <4>1, <4>2
      <4>4. QED BY <4>1, <4>2, <4>3
    <3>3. QED BY <3>1, <3>2
  <2>9. CASE TooDeep(inner) BY <1>10, <2>5, <2>7, <2>9
  <2>10. CASE ~TooDeep(inner)
    <3>1. inner \in 1 .. kMaxNestingDepth /\ inner \in 0 .. kMaxNestingDepth BY <1>6, <2>10
    <3>2. \A k \in 1 .. m - 1 : /\ from(k + 1) = stop(k) + 1 /\ k + 1 \in 1 .. m
                                /\ met(k + 1) <=> stop(k) < tear
      <4> SUFFICES ASSUME NEW k \in 1 .. m - 1
                   PROVE  /\ from(k + 1) = stop(k) + 1 /\ k + 1 \in 1 .. m
                          /\ met(k + 1) <=> stop(k) < tear
        OBVIOUS
      <4>1. (k + 1) - 1 = k /\ k + 1 # 1 /\ k + 1 \in 1 .. m BY <1>2
      <4> HIDE DEF stop
      <4>2. QED BY <4>1
    <3>3. ASSUME NEW k \in 1 .. m, k # m => r[k + 1] = Failed
          PROVE  r[k] = Failed
      <4> DEFINE x == ParseMembers(text, from(k), inner, rest)
      <4>1. r[k] = IF met(k) THEN x ELSE Failed OBVIOUS
      <4>2. CASE met(k)
        <5> DEFINE s == parts[k]
                   bk == b[k]
                   e == stop(k)
                   key == members[k][1]
                   value == members[k][2]
                   tk == inside(k)
                   q == from(k)
        <5>1. /\ bk \in Nat \ {0} /\ key \in MemberKeys /\ TextOk(tk)
              /\ ReadsBack(text, rest, value, tk) /\ Refused(text, rest, tear, value, tk)
              /\ s = EscapeString(key) \o ColonText(compact) \o tk
              /\ Cut(text, tear, bk, s)
              /\ e <= tear => Spelt(text, bk, s) /\ At(text, e) \in Stops
          BY <1>3, <2>5
        <5>2. e \in Nat /\ e = bk + Len(s) BY <2>6
        <5>3. SkipWhitespace(text, q) = Upto(tear, bk) BY <2>8, <4>2
        <5>4. ASSUME e <= tear
              PROVE  FailsBehind(text, rest, tear, e, inner)
          <6>1. CASE k = m
            <7>1. SkipWhitespace(text, e) = Upto(tear, last) BY <2>5, <5>4, <6>1
            <7>2. Upto(tear, last) = tear BY <2>1 DEF Upto
            <7>3. QED BY <7>1, <7>2 DEF FailsBehind
          <6>2. CASE e = tear BY <6>2, TornStays DEF FailsBehind
          <6>3. CASE k # m /\ e # tear
            <7>1. k \in 1 .. m - 1 /\ e < tear BY <1>2, <5>2, <5>4, <6>3
            <7>2. At(text, e) = Comma /\ SkipWhitespace(text, e) = e BY <2>5, <7>1
            <7>3. e + 1 \in 1 .. Len(text) + 1 BY <1>9, <5>2, <7>1
            <7>4. /\ from(k + 1) = e + 1 /\ k + 1 \in 1 .. m /\ met(k + 1)
              BY <3>2, <7>1
            <7>5. r[k + 1] = ParseMembers(text, e + 1, inner, rest) BY <7>4
            <7> DEFINE place == <<"members", e + 1, inner>>
            <7> HIDE DEF e, r
            <7>6. place \in Places(text) BY <3>1, <7>3 DEF Places
            <7>7. rest[place] = Loop(text, place, rest) BY <7>6 DEF Reader
            <7>8. place[1] = "members" /\ place[2] = e + 1 /\ place[3] = inner OBVIOUS
            <7>9. "members" # "items" OBVIOUS
            <7> HIDE DEF place
            <7>10. rest[place] = ParseMembers(text, e + 1, inner, rest)
              BY <7>7, <7>8, <7>9 DEF Loop
            <7>11. rest[place] = Failed BY <3>3, <6>3, <7>5, <7>10
            <7>12. QED BY <7>2, <7>11 DEF place, FailsBehind
          <6>4. QED BY <6>1, <6>2, <6>3
        <5> HIDE DEF s, bk, e, key, value, tk, q, r, x, met
        <5>5. ParseMembers(text, q, inner, rest) = Failed
          <6>1. MemberUpto(text, rest, tear, bk, key, compact, value, tk, s, e)
            BY <1>5, <5>1, <5>2 DEF MemberUpto
          <6>2. QED BY <3>1, <5>3, <5>4, <6>1, MemberTorn
        <5>6. QED BY <4>1, <4>2, <5>5 DEF x, q
      <4>3. CASE ~met(k)
        <5> HIDE DEF r, x, met
        <5>1. QED BY <4>1, <4>3
      <4>4. QED BY <4>2, <4>3
    <3> HIDE DEF r
    <3>4. r[1] = Failed BY <1>2, <1>12, <3>3, FailsBack
    <3>5. 1 \in 1 .. m BY <1>2, <1>12
    <3> DEFINE q == Upto(tear, b[1])
    <3>6. ParseMembers(text, q, inner, rest) = Failed BY <3>4, <3>5 DEF r
    <3>7. q \in 1 .. Len(text) + 1 /\ At(text, q) # CloseBrace BY <2>7
    <3>8. SkipWhitespace(text, pos + 1) = q BY <2>5
    <3> HIDE DEF q
    <3>9. QED BY <1>10, <2>5, <3>6, <3>7, <3>8
  <2>11. QED BY <2>9, <2>10
<1>13. QED BY <1>11, <1>12

\* No value is taken for a whole one that the tear is in.
LEMMA ValuesRefused ==
    ASSUME NEW T, NEW text \in Seq(T), NEW rest, Reader(text, rest),
           NEW tear \in Nat, Torn(text, tear), NEW n \in Nat
    PROVE  \A value \in Documents[n], level \in Nat, compact \in BOOLEAN :
               Refused(text, rest, tear, value, Texts[n][<<value, level, compact>>])
<1> DEFINE Good(j) == \A value \in Documents[j], level \in Nat, compact \in BOOLEAN :
                          Refused(text, rest, tear, value, Texts[j][<<value, level, compact>>])
           N == {j \in Nat : Good(j)}
<1>1. ASSUME NEW j \in Nat, NEW value \in Scalars, NEW level \in Nat, NEW compact \in BOOLEAN
      PROVE  Refused(text, rest, tear, value, Texts[j][<<value, level, compact>>])
  <2> DEFINE t == Texts[j][<<value, level, compact>>]
  <2>1. IsWritten(value, t) BY ScalarIsWritten
  <2> HIDE DEF t
  <2>2. Refused(text, rest, tear, value, t) BY <2>1, ScalarStalls DEF Refused
  <2>3. QED BY <2>2 DEF t
<1>2. 0 \in N
  <2>1. Good(0) BY <1>1, DocumentsAre
  <2> HIDE DEF Good
  <2>2. QED BY <2>1
<1>3. ASSUME NEW j \in N PROVE j + 1 \in N
  <2>1. j \in Nat /\ Good(j) OBVIOUS
  <2>2. ASSUME NEW value \in Documents[j + 1], NEW level \in Nat, NEW compact \in BOOLEAN
        PROVE  Refused(text, rest, tear, value, Texts[j + 1][<<value, level, compact>>])
    <3> DEFINE d == Documents[j]
               t == Texts[j + 1][<<value, level, compact>>]
    <3>1. Documents[j + 1] = Scalars \cup {v \in Containers(d) : HasKeysOnce(v)}
      BY <2>1, DocumentsAre
    <3>2. \A v \in Documents[j] :
            /\ ReadsBack(text, rest, v, Texts[j][<<v, level + 1, compact>>])
            /\ Refused(text, rest, tear, v, Texts[j][<<v, level + 1, compact>>])
      <4>1. level + 1 \in Nat OBVIOUS
      <4>2. QED BY <2>1, <4>1, ValuesRead
    <3>3. CASE value \in Scalars
      <4>1. j + 1 \in Nat BY <2>1
      <4>2. QED BY <1>1, <3>3, <4>1
    <3>4. ASSUME NEW items \in Seq(Documents[j]), value = Array(items)
          PROVE  Refused(text, rest, tear, value, t)
      BY <2>1, <3>2, <3>4, ArrayRefused
    <3>5. ASSUME NEW members \in Seq(MemberKeys \X Documents[j]), value = Object(members)
          PROVE  Refused(text, rest, tear, value, t)
      BY <2>1, <3>2, <3>5, ObjectRefused
    <3>6. value \in Containers(d) =>
            \/ \E items \in Seq(d) : value = Array(items)
            \/ \E members \in Seq(MemberKeys \X d) : value = Object(members)
      <4> HIDE DEF d
      <4>1. QED BY ContainersAre
    <3>7. value \in Scalars \/ value \in Containers(d) BY <3>1
    <3> HIDE DEF t
    <3>8. Refused(text, rest, tear, value, t) BY <3>3, <3>4, <3>5, <3>6, <3>7 DEF t
    <3>9. QED BY <3>8 DEF t
  <2>3. Good(j + 1) BY <2>2
  <2> HIDE DEF Good
  <2>4. QED BY <2>1, <2>3
<1> HIDE DEF Good
<1>4. N = Nat BY <1>2, <1>3, NatSetInduction
<1>5. Good(n) BY <1>4
<1>6. QED BY <1>5 DEF Good

\* The beginnings of a text are torn where they end.
LEMMA TornTextIs ==
    ASSUME NEW text, TextOk(text), NEW torn \in TornTexts(text)
    PROVE  /\ \E T : torn \in Seq(T)
           /\ \E tear \in 1 .. Len(text) : Torn(torn, tear) /\ Cut(torn, tear, 1, text)
<1> DEFINE n == Len(text)
<1>1. text \in Seq(TextTokens) /\ n \in Nat BY DEF TextOk
<1>2. ASSUME NEW k \in 0 .. n
      PROVE  /\ SubSeq(text, 1, k) \in Seq(TextTokens) /\ Len(SubSeq(text, 1, k)) = k
             /\ \A i \in 1 .. k : SubSeq(text, 1, k)[i] = text[i]
  BY <1>1
<1> HIDE DEF n
<1>3. ASSUME NEW k \in 0 .. n - 1, torn = SubSeq(text, 1, k)
      PROVE  torn \in Seq(TextTokens) /\ Torn(torn, k + 1) /\ Cut(torn, k + 1, 1, text)
  <2>1. /\ torn \in Seq(TextTokens) /\ DOMAIN torn = 1 .. k
        /\ \A i \in 1 .. k : torn[i] = text[i]
    <3>1. k \in 0 .. n BY <1>1
    <3>2. QED BY <1>2, <1>3, <3>1
  <2>2. At(torn, k + 1) = "end" BY <2>1 DEF At
  <2>3. Cut(torn, k + 1, 1, text)
    <3> SUFFICES ASSUME NEW i \in 1 .. Len(text), 1 + i - 1 < k + 1
                 PROVE  At(torn, 1 + i - 1) = text[i]
      BY DEF Cut
    <3>1. i \in 1 .. k /\ 1 + i - 1 = i BY <1>1 DEF n
    <3>2. QED BY <2>1, <3>1 DEF At
  <2>4. QED BY <2>1, <2>2, <2>3 DEF Torn
<1>4. ASSUME NEW k \in 1 .. n, torn = Append(SubSeq(text, 1, k - 1), "torn")
      PROVE  /\ torn \in Seq(TextTokens \cup {"torn"})
             /\ Torn(torn, k) /\ Cut(torn, k, 1, text)
  <2> DEFINE C == TextTokens \cup {"torn"}
             s == SubSeq(text, 1, k - 1)
  <2>1. s \in Seq(C) /\ Len(s) = k - 1 /\ \A i \in 1 .. k - 1 : s[i] = text[i]
    <3>1. k - 1 \in 0 .. n BY <1>1
    <3>2. s \in Seq(TextTokens) /\ Len(s) = k - 1 /\ \A i \in 1 .. k - 1 : s[i] = text[i]
      BY <1>2, <3>1
    <3> HIDE DEF s
    <3>3. TextTokens \subseteq C OBVIOUS
    <3> HIDE DEF C
    <3>4. QED BY <3>2, <3>3
  <2>2. "torn" \in C OBVIOUS
  <2> HIDE DEF C, s
  <2>3. /\ torn \in Seq(C) /\ DOMAIN torn = 1 .. k /\ torn[k] = "torn"
        /\ \A i \in 1 .. k - 1 : torn[i] = text[i]
    <3>1. torn = Append(s, "torn") BY <1>4 DEF s
    <3>2. k \in Nat /\ k = (k - 1) + 1 BY <1>1
    <3>3. Append(s, "torn") \in Seq(C) /\ Len(Append(s, "torn")) = (k - 1) + 1
          /\ Append(s, "torn")[(k - 1) + 1] = "torn"
          /\ \A i \in 1 .. k - 1 : Append(s, "torn")[i] = s[i]
      BY <2>1, <2>2
    <3>4. QED BY <2>1, <3>1, <3>2, <3>3
  <2>4. At(torn, k) = "torn" /\ At(torn, k + 1) = "end" BY <2>3 DEF At
  <2>5. Cut(torn, k, 1, text)
    <3> SUFFICES ASSUME NEW i \in 1 .. Len(text), 1 + i - 1 < k
                 PROVE  At(torn, 1 + i - 1) = text[i]
      BY DEF Cut
    <3>1. i \in 1 .. k - 1 /\ i \in 1 .. k /\ 1 + i - 1 = i BY <1>1 DEF n
    <3>2. QED BY <2>3, <3>1 DEF At
  <2>6. QED BY <2>3, <2>4, <2>5 DEF Torn, C
<1>5. DOMAIN text = 1 .. n BY <1>1 DEF n
<1>6. \/ \E k \in 0 .. n - 1 : torn = SubSeq(text, 1, k)
      \/ \E k \in 1 .. n : torn = Append(SubSeq(text, 1, k - 1), "torn")
  BY <1>5 DEF TornTexts, n
<1>7. CASE \E k \in 0 .. n - 1 : torn = SubSeq(text, 1, k)
  <2>1. PICK k \in 0 .. n - 1 : torn = SubSeq(text, 1, k) BY <1>7
  <2>2. k + 1 \in 1 .. Len(text) BY <1>1 DEF n
  <2>3. QED BY <1>3, <2>1, <2>2
<1>8. CASE \E k \in 1 .. n : torn = Append(SubSeq(text, 1, k - 1), "torn")
  BY <1>4, <1>8 DEF n
<1>9. QED BY <1>6, <1>7, <1>8

(* What is left of an array's or an object's text when its end is cut off  *)
(* is refused, wherever the cut is: no document is taken for another one   *)
(* (json.cpp:178-385, 704-719).                                            *)
THEOREM TornDocumentsAreRefused ==
    ASSUME NEW n \in Nat, NEW value \in Documents[n], value \notin Scalars, NEW level \in Nat,
           NEW compact \in BOOLEAN, NEW torn \in TornTexts(Texts[n][<<value, level, compact>>])
    PROVE  Parse(torn) = Failed
<1> DEFINE text == Texts[n][<<value, level, compact>>]
<1>1. TextOk(text) BY TextsAreOk
<1> HIDE DEF text
<1>2. torn \in TornTexts(text) BY DEF text
<1>3. PICK T : torn \in Seq(T) BY <1>1, <1>2, TornTextIs
<1>4. PICK tear \in 1 .. Len(text) : Torn(torn, tear) /\ Cut(torn, tear, 1, text)
  BY <1>1, <1>2, TornTextIs
<1>5. tear \in Nat /\ 1 \in 1 .. Len(text) /\ tear < 1 + Len(text)
      /\ text[1] \in Opening
  <2>1. Len(text) \in Nat BY <1>1 DEF TextOk
  <2>2. QED BY <1>1, <2>1 DEF TextOk
<1>6. PICK rest :
        /\ \A place \in Places(torn) : rest[place] = Loop(torn, place, rest)
        /\ Parse(torn) =
             LET read == ParseValue(torn, 1, 0, rest)
             IN  IF read.ok /\ At(torn, SkipWhitespace(torn, read.pos)) = "end"
                 THEN read.value ELSE Failed
  BY <1>3, ParseIs
<1>7. ParseValue(torn, 1, 0, rest) = Failed
  <2>1. CASE tear = 1
    <3>1. SkipWhitespace(torn, 1) = tear BY <1>3, <1>4, <2>1, TornStays
    <3>2. QED BY <1>3, <1>4, <1>5, <3>1, ValueTorn
  <2>2. CASE tear # 1
    <3>1. 1 < tear /\ 1 + 1 - 1 = 1 BY <2>2
    <3>2. At(torn, 1) = text[1] BY <1>4, <1>5, <3>1 DEF Cut
    <3>3. At(torn, 1) \notin Whitespace BY <1>5, <3>2, TokensDiffer
    <3>4. SkipWhitespace(torn, 1) = 1
      <4>1. Len(torn) \in Nat /\ 1 \in Nat BY <1>3
      <4>2. QED BY <3>3, <4>1, PastHere DEF SkipWhitespace
    <3>5. Reader(torn, rest) BY <1>6 DEF Reader
    <3>6. Refused(torn, rest, tear, value, text)
      BY <1>3, <1>4, <1>5, <3>5, ValuesRefused DEF text
    <3>7. 0 \in 0 .. kMaxNestingDepth /\ 1 \in Nat \ {0} BY JsonAssumption
    <3>8. QED BY <1>4, <1>5, <3>1, <3>4, <3>6, <3>7 DEF Refused
  <2>3. QED BY <2>1, <2>2
<1>8. QED BY <1>6, <1>7 DEF Failed

(* A settings file cut short by a failed write is never taken for a whole  *)
(* one (json.cpp:704-719, Settings.cpp:66-80).                             *)
THEOREM TornIsRejectedHolds ==
    JsonSpec => []TornIsRejected
<1>1. JsonInv => TornIsRejected
  <2>1. SUFFICES ASSUME JsonInv, doc.type = "object",
                        NEW text \in TornTexts(Serialize(doc, FALSE))
                 PROVE  Parse(text) = Failed
    BY DEF TornIsRejected
  <2>2. MaxBuilt + 1 \in Nat /\ doc \in Documents[MaxBuilt + 1]
    BY <2>1, DocumentIsBuilt, JsonAssumption
  <2>3. doc \notin Scalars BY <2>1, TypesDiffer
  <2>4. Serialize(doc, FALSE) = Texts[MaxBuilt + 1][<<doc, 0, FALSE>>] BY DEF Serialize
  <2>5. QED BY <2>1, <2>2, <2>3, <2>4, TornDocumentsAreRefused
<1>2. QED BY <1>1, DocumentsStayShallow, PTL

==============================================================================
