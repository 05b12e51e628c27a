----------------------------- MODULE TextProofs -----------------------------
(* Theorems about the strings, the terminal and the text console, for      *)
(* every width of an int, every base, all strings to split, every size of  *)
(* the screens and every line typed.                                       *)
EXTENDS ListProofs, Terminal, Console, FiniteSetTheorems

-----------------------------------------------------------------------------
(* f goes from e through n steps.                                          *)
IsRun(f, e, step, n) ==
  f = [k \in 0 .. n |-> IF k = 0 THEN e ELSE step[k][f[k - 1]]]

(* A loop of n steps that each lead from S into S.                         *)
LEMMA LoopRuns ==
  ASSUME NEW S, NEW n \in Nat, NEW e \in S, NEW step \in [1 .. n -> [S -> S]]
  PROVE  \E f \in [0 .. n -> S] : IsRun(f, e, step, n)
<1> DEFINE Runs(m) == \E f \in [0 .. m -> S] : IsRun(f, e, step, m)
           I == {m \in 0 .. n : ~Runs(m)}
           least == Min(I)
<1>1. ASSUME I # {} PROVE FALSE
  <2>0. I \subseteq Nat
    OBVIOUS
  <2>1. least \in I /\ \A m \in I : least <= m
    BY <1>1, <2>0, Smallest
  <2>2. Runs(0)
    <3> DEFINE f == [k \in 0 .. 0 |-> e]
    <3>1. f \in [0 .. 0 -> S] /\ DOMAIN f = 0 .. 0 /\ \A k \in 0 .. 0 : k = 0 /\ f[k] = e
      OBVIOUS
    <3>2. IsRun(f, e, step, 0)
      BY DEF IsRun
    <3>. QED BY <3>1, <3>2
  <2> HIDE DEF least
  <2>3. least \in Nat /\ least <= n /\ least # 0 /\ ~Runs(least)
    <3> HIDE DEF Runs
    <3>1. least \in 0 .. n /\ ~Runs(least)
      BY <2>1
    <3>. QED BY <2>2, <3>1
  <2>4. least - 1 \in 0 .. n /\ ~(least <= least - 1)
    BY <2>3
  <2>5. PICK g \in [0 .. least - 1 -> S] : IsRun(g, e, step, least - 1)
    BY <2>1, <2>4
  <2> DEFINE f == [k \in 0 .. least |-> IF k < least THEN g[k] ELSE step[least][g[least - 1]]]
  <2>6. \A k \in 0 .. least - 1 : g[k] \in S /\ g[k] = IF k = 0 THEN e ELSE step[k][g[k - 1]]
    BY <2>5 DEF IsRun
  <2>7. least - 1 \in 0 .. least - 1 /\ least \in 1 .. n
    BY <2>3
  <2>8. step[least][g[least - 1]] \in S
    BY <2>6, <2>7
  <2>9. f \in [0 .. least -> S]
    <3> SUFFICES ASSUME NEW k \in 0 .. least
                 PROVE  (IF k < least THEN g[k] ELSE step[least][g[least - 1]]) \in S
      OBVIOUS
    <3>1. k < least => k \in 0 .. least - 1
      BY <2>3
    <3>. QED BY <2>6, <2>8, <3>1
  <2>10. ASSUME NEW k \in 0 .. least
         PROVE  f[k] = IF k = 0 THEN e ELSE step[k][f[k - 1]]
    <3>0. k \in Nat /\ k <= least
      BY <2>3
    <3>1. CASE k = 0
      <4>1. f[k] = g[k] /\ k \in 0 .. least - 1
        BY <2>3, <3>1
      <4>. QED BY <2>6, <3>1, <4>1
    <3>2. CASE k # 0 /\ k < least
      <4>1. k \in 0 .. least - 1 /\ k - 1 \in 0 .. least /\ k - 1 < least
        BY <2>3, <3>0, <3>2
      <4>2. f[k] = g[k] /\ f[k - 1] = g[k - 1]
        BY <3>2, <4>1
      <4>. QED BY <2>6, <3>2, <4>1, <4>2
    <3>3. CASE k = least
      <4>1. f[k - 1] = g[least - 1]
        BY <2>3, <3>3
      <4>. QED BY <2>3, <3>3, <4>1
    <3>. QED BY <2>3, <3>0, <3>1, <3>2, <3>3
  <2>11. f = [k \in 0 .. least |-> f[k]]
    OBVIOUS
  <2> HIDE DEF f
  <2>12. f = [k \in 0 .. least |-> IF k = 0 THEN e ELSE step[k][f[k - 1]]]
    BY <2>10, <2>11
  <2>13. IsRun(f, e, step, least)
    BY <2>12 DEF IsRun
  <2>. QED BY <2>3, <2>9, <2>13
<1>. QED BY <1>1

(* Two runs from the same state agree, wherever the second one's steps are *)
(* known.                                                                  *)
Alongside(f, g, n) ==
  f[0] = g[0] /\ \A k \in 1 .. n : f[k - 1] = g[k - 1] => f[k] = g[k]

LEMMA RunsAgree ==
  ASSUME NEW n \in Nat, NEW f, NEW g, Alongside(f, g, n)
  PROVE  \A k \in 0 .. n : f[k] = g[k]
<1> DEFINE J == {k \in 0 .. n : f[k] # g[k]}
           first == Min(J)
<1> SUFFICES ASSUME J # {} PROVE FALSE
  OBVIOUS
<1>0. J \subseteq Nat
  OBVIOUS
<1>1. first \in J /\ \A k \in J : first <= k
  BY <1>0, Smallest
<1> HIDE DEF first
<1>2. first \in 1 .. n
  BY <1>1 DEF Alongside
<1>3. first - 1 \in 0 .. n /\ ~(first <= first - 1)
  BY <1>2
<1>4. f[first - 1] = g[first - 1]
  BY <1>1, <1>3
<1>. QED BY <1>1, <1>2, <1>4 DEF Alongside

-----------------------------------------------------------------------------
(* Numbers.  What a sequence of digits denotes, digit after digit.         *)
Sums(f, s, b) ==
  /\ f \in [0 .. Len(s) -> Int] /\ f[0] = 0
  /\ \A k \in 1 .. Len(s) : f[k] = b * f[k - 1] + s[k]

LEMMA DenotesIs ==
  ASSUME NEW s \in Seq(Int), NEW b \in Int
  PROVE  \E f : Sums(f, s, b) /\ Denotes(s, b) = f[Len(s)]
<1> DEFINE n == Len(s)
           step == [k \in 1 .. n |-> [v \in Int |-> b * v + s[k]]]
           Rec(g) == g = [k \in 0 .. n |-> IF k = 0 THEN 0 ELSE b * g[k - 1] + s[k]]
           value == CHOOSE g : Rec(g)
<1>1. n \in Nat /\ \A k \in 1 .. n : s[k] \in Int
  OBVIOUS
<1>2. Denotes(s, b) = value[n]
  BY DEF Denotes
<1> HIDE DEF n
<1>3. step \in [1 .. n -> [Int -> Int]]
  <2>1. \A k \in 1 .. n, v \in Int : b * v + s[k] \in Int
    BY <1>1
  <2>. QED BY <2>1
<1>4. \A k \in 1 .. n, v \in Int : step[k][v] = b * v + s[k]
  OBVIOUS
<1> HIDE DEF step
<1>5. PICK f \in [0 .. n -> Int] : IsRun(f, 0, step, n)
  <2>1. 0 \in Int
    OBVIOUS
  <2>. QED BY ONLY <1>1, <1>3, <2>1, LoopRuns
<1>6. /\ DOMAIN f = 0 .. n /\ f[0] = 0
      /\ \A k \in 1 .. n : k \in 0 .. n /\ k # 0 /\ k - 1 \in 0 .. n /\ f[k] = step[k][f[k - 1]]
  BY <1>1, <1>5 DEF IsRun
<1>7. \A k \in 1 .. n : f[k] = b * f[k - 1] + s[k]
  BY <1>4, <1>5, <1>6
<1>8. Rec(f)
  <2>1. \A k \in 0 .. n : f[k] = IF k = 0 THEN 0 ELSE b * f[k - 1] + s[k]
    BY <1>6, <1>7
  <2>. QED BY <1>6, <2>1
<1>9. Rec(value)
  BY <1>8
<1> HIDE DEF value
<1>10. /\ DOMAIN value = 0 .. n /\ value[0] = 0
       /\ \A k \in 1 .. n : value[k] = b * value[k - 1] + s[k]
  BY <1>1, <1>6, <1>9
<1>11. \A k \in 1 .. n : value[k - 1] = f[k - 1] => value[k] = f[k]
  BY <1>7, <1>10
<1>12. \A k \in 0 .. n : value[k] = f[k]
  <2>1. Alongside(value, f, n)
    BY <1>6, <1>10, <1>11 DEF Alongside
  <2>. QED BY <1>1, <2>1, RunsAgree
<1>13. value[n] = f[n]
  BY <1>1, <1>12
<1>14. Sums(f, s, b)
  BY <1>5, <1>6, <1>7 DEF Sums, n
<1>. QED BY <1>2, <1>13, <1>14 DEF n

(* One more digit.                                                         *)
LEMMA DenotesMore ==
  ASSUME NEW s \in Seq(Int), NEW b \in Int, NEW d \in Int
  PROVE  Denotes(s, b) \in Int /\ Denotes(Append(s, d), b) = b * Denotes(s, b) + d
<1> DEFINE t == Append(s, d)
           n == Len(s)
<1>1. n \in Nat /\ t \in Seq(Int) /\ Len(t) = n + 1
      /\ \A k \in 1 .. n : t[k] = s[k]
  BY Appended
<1>2. t[n + 1] = d
  BY Appended
<1> HIDE DEF t
<1>3. PICK f : Sums(f, s, b) /\ Denotes(s, b) = f[n]
  BY DenotesIs
<1>4. PICK g : Sums(g, t, b) /\ Denotes(t, b) = g[n + 1]
  BY <1>1, DenotesIs
<1>5. f \in [0 .. n -> Int] /\ f[0] = 0 /\ \A k \in 1 .. n : f[k] = b * f[k - 1] + s[k]
  BY <1>3 DEF Sums
<1>6. /\ g \in [0 .. n + 1 -> Int] /\ g[0] = 0
      /\ \A k \in 1 .. n + 1 : g[k] = b * g[k - 1] + t[k]
  BY <1>1, <1>4 DEF Sums
<1> HIDE DEF n
<1> DEFINE h == [k \in 0 .. n |-> g[k]]
<1>7. DOMAIN h = 0 .. n /\ \A k \in 0 .. n : h[k] = g[k]
  OBVIOUS
<1> HIDE DEF h
<1>8. \A k \in 1 .. n : k \in 1 .. n + 1 /\ k \in 0 .. n /\ k - 1 \in 0 .. n
  BY <1>1
<1>9. \A k \in 1 .. n : h[k] = b * h[k - 1] + s[k]
  BY <1>1, <1>6, <1>7, <1>8
<1>10. h[0] = 0 /\ DOMAIN f = 0 .. n
  BY <1>1, <1>5, <1>6, <1>7
<1>11. \A k \in 1 .. n : h[k - 1] = f[k - 1] => h[k] = f[k]
  BY <1>5, <1>9
<1>12. \A k \in 0 .. n : h[k] = f[k]
  <2>1. Alongside(h, f, n)
    BY <1>5, <1>10, <1>11 DEF Alongside
  <2>. QED BY <1>1, <2>1, RunsAgree
<1>13. n \in 0 .. n /\ n + 1 \in 1 .. n + 1 /\ n + 1 - 1 = n
  BY <1>1
<1>14. g[n] = f[n]
  BY <1>7, <1>12, <1>13
<1>15. g[n + 1] = b * g[n] + d
  BY <1>2, <1>6, <1>13
<1>. QED BY <1>3, <1>4, <1>5, <1>13, <1>14, <1>15 DEF t, n

(* The least digit and the rest.                                           *)
LEMMA Divided ==
  ASSUME NEW v \in Nat, NEW b \in Nat, b > 1
  PROVE  /\ v % b \in Nat /\ v \div b \in Nat /\ v = b * (v \div b) + (v % b)
         /\ v >= b => v \div b < v
<1> DEFINE q == v \div b
           r == v % b
<1>1. q \in Int /\ r \in Nat /\ r < b /\ v = b * q + r
  OBVIOUS
<1> HIDE DEF q, r
<1>2. q >= 0
  <2>1. q <= -1 => b * q <= b * (-1)
    BY <1>1
  <2>. QED BY <1>1, <2>1
<1>3. b * q >= 2 * q
  BY <1>1, <1>2
<1>4. v >= b => q < v
  BY <1>1, <1>2, <1>3
<1>5. q \in Nat
  BY <1>1, <1>2
<1>. QED BY <1>1, <1>4, <1>5 DEF q, r

IsSpelling(f, b, m) ==
  f = [k \in 0 .. m |-> IF k < b THEN <<k>> ELSE Append(f[k \div b], k % b)]

LEMMA SpellingExists ==
  ASSUME NEW b \in Nat, b > 1, NEW v \in Nat
  PROVE  \E f : IsSpelling(f, b, v)
<1> DEFINE I == {m \in Nat : ~\E f : IsSpelling(f, b, m)}
           least == Min(I)
<1>1. ASSUME I # {} PROVE FALSE
  <2>0. I \subseteq Nat
    OBVIOUS
  <2>1. least \in I /\ \A m \in I : least <= m
    BY <1>1, <2>0, Smallest
  <2> HIDE DEF least
  <2>2. IsSpelling([k \in 0 .. 0 |-> <<k>>], b, 0)
    BY DEF IsSpelling
  <2>3. least \in Nat /\ least # 0
    BY <2>1, <2>2
  <2>4. least - 1 \in Nat /\ ~(least <= least - 1)
    BY <2>3
  <2>5. PICK g : IsSpelling(g, b, least - 1)
    BY <2>1, <2>4
  <2> DEFINE Digit(f, k) == IF k < b THEN <<k>> ELSE Append(f[k \div b], k % b)
             f == [k \in 0 .. least |-> IF k < least THEN g[k] ELSE Digit(g, k)]
  <2>6. \A k \in 0 .. least - 1 : g[k] = Digit(g, k)
    BY <2>5 DEF IsSpelling
  <2>7. ASSUME NEW k \in 0 .. least PROVE f[k] = Digit(f, k)
    <3>0. k \in Nat /\ k <= least
      BY <2>3
    <3>1. f[k] = Digit(g, k)
      BY <2>3, <2>6, <3>0
    <3>2. k >= b => k \div b \in 0 .. least /\ k \div b < least
      <4>1. k >= b => k \div b \in Nat /\ k \div b < k
        BY <3>0, Divided
      <4> DEFINE q == k \div b
      <4> HIDE DEF q
      <4>2. k >= b => q \in Nat /\ q < k
        BY <4>1 DEF q
      <4>3. k >= b => q \in 0 .. least /\ q < least
        BY <2>3, <3>0, <4>2
      <4>. QED BY <4>3 DEF q
    <3>3. k >= b => f[k \div b] = g[k \div b]
      BY <3>2
    <3> HIDE DEF f
    <3>. QED BY <3>0, <3>1, <3>3
  <2>8. f = [k \in 0 .. least |-> f[k]]
    OBVIOUS
  <2> HIDE DEF f
  <2>9. IsSpelling(f, b, least)
    BY <2>7, <2>8 DEF IsSpelling
  <2>. QED BY <2>1, <2>9
<1>. QED BY <1>1

(* The digits of a number denote it.                                       *)
LEMMA DigitsDenote ==
  ASSUME NEW v \in Nat, NEW b \in Nat, b > 1
  PROVE  /\ DigitsOf(v, b) \in Seq(Nat) /\ Len(DigitsOf(v, b)) > 0
         /\ Denotes(DigitsOf(v, b), b) = v
<1> DEFINE digits == CHOOSE f : IsSpelling(f, b, v)
           Good(m) == /\ digits[m] \in Seq(Nat) /\ Len(digits[m]) > 0
                      /\ Denotes(digits[m], b) = m
           I == {m \in 0 .. v : ~Good(m)}
           least == Min(I)
<1>1. DigitsOf(v, b) = digits[v]
  BY DEF DigitsOf, IsSpelling
<1>2. IsSpelling(digits, b, v)
  BY SpellingExists
<1> HIDE DEF digits
<1>3. \A k \in 0 .. v : digits[k] = IF k < b THEN <<k>> ELSE Append(digits[k \div b], k % b)
  BY <1>2 DEF IsSpelling
<1>4. ASSUME I # {} PROVE FALSE
  <2>0. I \subseteq Nat
    OBVIOUS
  <2>1. least \in I /\ \A m \in I : least <= m
    BY <1>4, <2>0, Smallest
  <2> HIDE DEF least
  <2>2. least \in 0 .. v /\ least \in Nat /\ ~Good(least)
    BY <2>1
  <2>3. CASE least < b
    <3> DEFINE empty == <<>>
               one   == <<least>>
    <3>1. digits[least] = one
      BY <1>3, <2>2, <2>3
    <3>2. one \in Seq(Nat) /\ Len(one) = 1
      BY <2>2
    <3>3. empty \in Seq(Int) /\ one = Append(empty, least) /\ Len(empty) = 0
      BY <2>2
    <3>4. least \in Int /\ b \in Int
      BY <2>2
    <3> HIDE DEF empty, one
    <3>5. PICK f : Sums(f, empty, b) /\ Denotes(empty, b) = f[0]
      BY <3>3, <3>4, DenotesIs
    <3>6. Denotes(empty, b) = 0
      BY <3>5 DEF Sums
    <3>7. Denotes(one, b) = b * 0 + least
      <4>1. Denotes(Append(empty, least), b) = b * Denotes(empty, b) + least
        BY <3>3, <3>4, DenotesMore
      <4>. QED BY <3>3, <3>6, <4>1
    <3>8. Good(least)
      BY <3>1, <3>2, <3>4, <3>7
    <3>. QED BY <2>2, <3>8
  <2>4. CASE ~(least < b)
    <3> DEFINE q == least \div b
               r == least % b
               s == digits[q]
    <3>1. q \in Nat /\ r \in Nat /\ least = b * q + r /\ q < least
      BY <2>2, <2>4, Divided
    <3>2. digits[least] = Append(s, r)
      BY <1>3, <2>2, <2>4
    <3> HIDE DEF q, r, s
    <3>3. q \in 0 .. v /\ ~(least <= q)
      BY <2>2, <3>1
    <3>4. Good(q)
      BY <2>1, <3>3
    <3>5. s \in Seq(Nat) /\ Denotes(s, b) = q
      BY <3>4 DEF s
    <3> HIDE DEF Good
    <3>6. Append(s, r) \in Seq(Nat) /\ Len(Append(s, r)) > 0
      BY <3>1, <3>5
    <3>7. s \in Seq(Int) /\ r \in Int
      BY <3>1, <3>5
    <3>8. Denotes(Append(s, r), b) = b * q + r
      BY <3>5, <3>7, DenotesMore
    <3>. QED BY <2>2, <3>1, <3>2, <3>6, <3>8 DEF Good
  <2>. QED BY <2>3, <2>4
<1>. QED BY <1>1, <1>4

(* What the conversions print reads back.                                  *)
LEMMA PlainReadsBack ==
  ASSUME NEW v \in Nat, NEW b \in Nat, b > 1
  PROVE  Number(Digits(v, b), b) = v /\ Digits(v, b) \in Seq(Nat)
         /\ Denotes(Digits(v, b), b) = v
<1>1. Digits(v, b) = DigitsOf(v, b)
  BY DEF Digits
<1>2. /\ DigitsOf(v, b) \in Seq(Nat) /\ Len(DigitsOf(v, b)) > 0
      /\ Denotes(DigitsOf(v, b), b) = v
  BY DigitsDenote
<1> DEFINE s == DigitsOf(v, b)
<1> HIDE DEF s
<1>3. s[1] \in Nat /\ s[1] # MINUS
  <2>1. s \in Seq(Nat) /\ Len(s) > 0
    BY <1>2 DEF s
  <2>2. s[1] \in Nat
    BY <2>1
  <2>. QED BY <2>2 DEF MINUS
<1>. QED BY <1>1, <1>2, <1>3 DEF Number, s

LEMMA ItoaReadsBack ==
  ASSUME NEW bits \in 0 .. INTS - 1, bits # INTS \div 2
  PROVE  Number(Itoa(Signed(bits), Base), Base) = Signed(bits)
<1> DEFINE half == INTS \div 2
           v == Signed(bits)
<1>1. half \in Nat /\ INTS = 2 * half /\ INTS \in Nat /\ INTS > 0 /\ Base \in Nat /\ Base > 1
  BY StringsAssumption
<1>2. v = IF bits < half THEN bits ELSE bits - INTS
  BY DEF Signed
<1> HIDE DEF v
<1>3. CASE bits < half
  <2>1. v \in Nat /\ v >= 0
    BY <1>2, <1>3
  <2>2. Itoa(v, Base) = Digits(v, Base)
    BY <2>1 DEF Itoa
  <2>. QED BY <1>1, <2>1, <2>2, PlainReadsBack DEF v
<1>4. CASE ~(bits < half)
  <2> DEFINE w == -v
             m == w % INTS
  <2> HIDE DEF half
  <2>1. v \in Int /\ v < 0 /\ w \in Nat /\ w < half /\ w \in 0 .. INTS - 1
    BY <1>1, <1>2, <1>4 DEF half
  <2>2. m = w
    BY <1>1, <2>1
  <2>3. Signed(m) = w
    BY <2>1, <2>2 DEF Signed, half
  <2>4. Itoa(v, Base) = <<MINUS>> \o Digits(Signed(m), Base)
    BY <2>1 DEF Itoa
  <2> HIDE DEF m
  <2> DEFINE d == Digits(w, Base)
  <2>5. d \in Seq(Nat) /\ Denotes(d, Base) = w
    BY <1>1, <2>1, PlainReadsBack
  <2>6. Itoa(v, Base) = <<MINUS>> \o d
    BY <2>3, <2>4
  <2> HIDE DEF d
  <2>7. (<<MINUS>> \o d)[1] = MINUS /\ Tail(<<MINUS>> \o d) = d
    BY <2>5
  <2>8. Number(<<MINUS>> \o d, Base) = -w
    BY <2>5, <2>7 DEF Number
  <2>9. -w = v
    BY <2>1
  <2>. QED BY <2>6, <2>8, <2>9 DEF v
<1>. QED BY <1>3, <1>4

LEMMA PointerReadsBack ==
  ASSUME NEW v \in Nat
  PROVE  LET s == <<0, LETTER_X>> \o Utoa(v, Base16)
         IN  Number(SubSeq(s, 3, Len(s)), Base16) = v
<1> DEFINE d == Utoa(v, Base16)
           s == <<0, LETTER_X>> \o d
<1>1. d \in Seq(Nat) /\ Number(d, Base16) = v
  BY StringsAssumption, PlainReadsBack DEF Utoa
<1> HIDE DEF d
<1>2. SubSeq(s, 3, Len(s)) = d
  BY <1>1
<1>. QED BY <1>1, <1>2 DEF d

LEMMA PrintsStart == StringsInit => PrintsReadBack
<1> SUFFICES ASSUME StringsInit PROVE PrintsReadBack
  OBVIOUS
<1>1. printed.kind = "u" /\ printed.bits = 0 /\ printed.chars = <<0>>
  BY DEF StringsInit
<1>2. 0 < Base /\ Base \in Nat /\ Base > 1
  BY StringsAssumption
<1>3. DigitsOf(0, Base) = <<0>>
  <2> DEFINE digits == CHOOSE f : IsSpelling(f, Base, 0)
  <2>1. IsSpelling(digits, Base, 0)
    BY <1>2, SpellingExists
  <2>2. DigitsOf(0, Base) = digits[0]
    BY DEF DigitsOf, IsSpelling
  <2> HIDE DEF digits
  <2>. QED BY <1>2, <2>1, <2>2 DEF IsSpelling
<1>4. Digits(0, Base) = <<0>>
  BY <1>3 DEF Digits
<1>5. Number(Digits(0, Base), Base) = 0
  BY <1>2, PlainReadsBack
<1>6. Number(<<0>>, Base) = 0
  BY <1>4, <1>5
<1>. QED BY <1>1, <1>6 DEF PrintsReadBack

LEMMA PrintsStep == PrintsReadBack /\ [TokensNext \/ PrintNext]_strings_vars => PrintsReadBack'
<1> SUFFICES ASSUME PrintsReadBack, [TokensNext \/ PrintNext]_strings_vars PROVE PrintsReadBack'
  OBVIOUS
<1>1. CASE TokensNext \/ UNCHANGED strings_vars
  <2>1. UNCHANGED printed
    BY <1>1 DEF TokensNext, FirstToken, NextToken, strings_vars
  <2>. QED BY <2>1 DEF PrintsReadBack
<1>2. ASSUME NEW kind \in {"d", "i", "u", "x", "p"}, NEW bits \in 0 .. INTS - 1,
             Sprintf(kind, bits)
      PROVE  PrintsReadBack'
  <2>1. /\ printed'.kind = kind /\ printed'.bits = bits
        /\ printed'.chars = Converted(kind, bits)
    BY <1>2 DEF Sprintf
  <2>2. bits \in Nat /\ Base \in Nat /\ Base > 1 /\ Base16 \in Nat /\ Base16 > 1
    BY StringsAssumption
  <2>3. CASE kind \in {"d", "i"}
    <3>1. Converted(kind, bits) = Itoa(Signed(bits), Base)
      BY <2>3 DEF Converted
    <3>2. bits = INTS \div 2 \/ Number(Itoa(Signed(bits), Base), Base) = Signed(bits)
      BY ItoaReadsBack
    <3>. QED BY <2>1, <2>3, <3>1, <3>2 DEF PrintsReadBack
  <2>4. CASE kind = "u"
    <3>1. Number(Converted(kind, bits), Base) = bits
      BY <2>2, <2>4, PlainReadsBack DEF Converted, Utoa
    <3>. QED BY <2>1, <2>4, <3>1 DEF PrintsReadBack
  <2>5. CASE kind = "x"
    <3>1. Number(Converted(kind, bits), Base16) = bits
      BY <2>2, <2>5, PlainReadsBack DEF Converted, Utoa
    <3>. QED BY <2>1, <2>5, <3>1 DEF PrintsReadBack
  <2>6. CASE kind = "p"
    <3>1. Converted(kind, bits) = <<0, LETTER_X>> \o Utoa(bits, Base16)
      BY <2>6 DEF Converted
    <3>2. LET s == Converted(kind, bits)
          IN  Number(SubSeq(s, 3, Len(s)), Base16) = bits
      BY <2>2, <3>1, PointerReadsBack
    <3>. QED BY <2>1, <2>6, <3>2 DEF PrintsReadBack
  <2>. QED BY <2>3, <2>4, <2>5, <2>6
<1>. QED BY <1>1, <1>2 DEF PrintNext

-----------------------------------------------------------------------------
(* strtok.  A word begins where no blank is, behind one or at the start.   *)
Starts(s) == {b \in DOMAIN s : s[b] # BLANK /\ (b = 1 \/ s[b - 1] = BLANK)}

(* A first place that is good, when one is.                                *)
LEMMA FirstPlace ==
  ASSUME NEW lo \in Nat, NEW hi \in Nat, NEW Q, Q \subseteq lo .. hi, Q # {}
  PROVE  \E q \in Q : \A r \in lo .. q - 1 : r \notin Q
<1>1. Q \subseteq Nat
  OBVIOUS
<1> DEFINE m == Min(Q)
<1>2. m \in Q /\ \A r \in Q : m <= r
  BY <1>1, Smallest
<1> HIDE DEF m
<1>3. ASSUME NEW r \in lo .. m - 1 PROVE r \notin Q
  <2>1. m \in Nat /\ r \in Int /\ r <= m - 1
    BY <1>1, <1>2
  <2>2. ~(m <= r)
    BY <2>1
  <2>. QED BY <1>2, <2>2
<1>. QED BY <1>2, <1>3

LEMMA SkipIs ==
  ASSUME NEW S, NEW s \in Seq(S), NEW p \in 1 .. Len(s) + 1
  PROVE  LET q == SkipBlanks(s, p)
         IN  q \in p .. Len(s) + 1 /\ At(s, q) # BLANK /\ \A r \in p .. q - 1 : s[r] = BLANK
<1> DEFINE n == Len(s)
           Q == {q \in p .. n + 1 : At(s, q) # BLANK}
<1>1. n \in Nat /\ p \in Nat /\ n + 1 \in Nat /\ DOMAIN s = 1 .. n /\ p <= n + 1 /\ 1 <= p
  OBVIOUS
<1> HIDE DEF n
<1>2. n + 1 \in Q
  <2>1. n + 1 \notin 1 .. n
    BY <1>1
  <2>2. At(s, n + 1) = NUL
    BY <1>1, <2>1 DEF At
  <2>. QED BY <1>1, <2>2 DEF NUL, BLANK
<1>3. Q \subseteq p .. n + 1 /\ Q # {}
  BY <1>2
<1> HIDE DEF Q
<1>4. PICK q \in Q : \A r \in p .. q - 1 : r \notin Q
  BY <1>1, <1>3, FirstPlace
<1>5. \A r \in p .. q - 1 : s[r] = BLANK
  <2> SUFFICES ASSUME NEW r \in p .. q - 1 PROVE s[r] = BLANK
    OBVIOUS
  <2>1. q \in p .. n + 1
    BY <1>3
  <2>2. r \in p .. n + 1 /\ r \in 1 .. n
    BY <1>1, <2>1
  <2>3. At(s, r) = BLANK
    BY <1>4, <2>2 DEF Q
  <2>. QED BY <1>1, <2>2, <2>3 DEF At
<1>6. q \in p .. n + 1 /\ At(s, q) # BLANK
  BY DEF Q
<1>. QED BY <1>5, <1>6 DEF SkipBlanks, n

LEMMA EndIs ==
  ASSUME NEW S, NEW s \in Seq(S), NEW p \in 1 .. Len(s) + 1
  PROVE  LET q == TokenEnd(s, p)
         IN  /\ q \in p .. Len(s) + 1 /\ At(s, q) \in {BLANK, NUL}
             /\ \A r \in p .. q - 1 : s[r] \notin {BLANK, NUL}
<1> DEFINE n == Len(s)
           Q == {q \in p .. n + 1 : At(s, q) \in {BLANK, NUL}}
<1>1. n \in Nat /\ p \in Nat /\ n + 1 \in Nat /\ DOMAIN s = 1 .. n /\ p <= n + 1 /\ 1 <= p
  OBVIOUS
<1> HIDE DEF n
<1>2. n + 1 \in Q
  <2>1. n + 1 \notin 1 .. n
    BY <1>1
  <2>2. At(s, n + 1) = NUL
    BY <1>1, <2>1 DEF At
  <2>. QED BY <1>1, <2>2
<1>3. Q \subseteq p .. n + 1 /\ Q # {}
  BY <1>2
<1> HIDE DEF Q
<1>4. PICK q \in Q : \A r \in p .. q - 1 : r \notin Q
  BY <1>1, <1>3, FirstPlace
<1>5. \A r \in p .. q - 1 : s[r] \notin {BLANK, NUL}
  <2> SUFFICES ASSUME NEW r \in p .. q - 1 PROVE s[r] \notin {BLANK, NUL}
    OBVIOUS
  <2>1. q \in p .. n + 1
    BY <1>3
  <2>2. r \in p .. n + 1 /\ r \in 1 .. n
    BY <1>1, <2>1
  <2>3. At(s, r) \notin {BLANK, NUL}
    BY <1>4, <2>2 DEF Q
  <2>. QED BY <1>1, <2>2, <2>3 DEF At
<1>6. q \in p .. n + 1 /\ At(s, q) \in {BLANK, NUL}
  BY DEF Q
<1>. QED BY <1>5, <1>6 DEF TokenEnd, n

(* A word ends in one place only.                                          *)
LEMMA WordIs ==
  ASSUME NEW S, NEW s \in Seq(S), NEW b \in DOMAIN s, NEW e \in DOMAIN s, WordAt(s, b, e)
  PROVE  b \in Begins(s) /\ b \in Starts(s) /\ EndOf(s, b) = e
<1>1. b \in Begins(s)
  BY DEF Begins
<1>2. b \in Starts(s)
  BY DEF Starts, WordAt
<1>3. ASSUME NEW f \in DOMAIN s, WordAt(s, b, f) PROVE f = e
  <2>1. \A k \in b .. e : s[k] # BLANK
    BY DEF WordAt
  <2>2. \A k \in b .. f : s[k] # BLANK
    BY <1>3 DEF WordAt
  <2>3. b <= e /\ b <= f /\ (e = Len(s) \/ s[e + 1] = BLANK) /\ (f = Len(s) \/ s[f + 1] = BLANK)
    BY <1>3 DEF WordAt
  <2>4. b \in Nat /\ e \in Nat /\ f \in Nat /\ e <= Len(s) /\ f <= Len(s) /\ Len(s) \in Nat
    OBVIOUS
  <2>5. ~(e < f)
    <3>1. e < f => e + 1 \in b .. f /\ e # Len(s)
      BY <2>3, <2>4
    <3>. QED BY <2>2, <2>3, <3>1
  <2>6. ~(f < e)
    <3>1. f < e => f + 1 \in b .. e /\ f # Len(s)
      BY <2>3, <2>4
    <3>. QED BY <2>1, <2>3, <3>1
  <2>. QED BY <2>4, <2>5, <2>6
<1>. QED BY <1>1, <1>2, <1>3 DEF EndOf

(* The words of a string are as many as its places where one begins.       *)
LEMMA UptoIs ==
  ASSUME NEW S, NEW s \in Seq(S), NEW p \in Int
  PROVE  /\ IsFiniteSet(Begins(s)) /\ Cardinality(Begins(s)) \in Nat
         /\ IsFiniteSet({b \in Begins(s) : b <= p})
         /\ Upto(s, p) \in Nat /\ Upto(s, p) <= Cardinality(Begins(s))
<1>1. DOMAIN s = 1 .. Len(s) /\ Len(s) \in Int
  OBVIOUS
<1>2. IsFiniteSet(DOMAIN s)
  BY <1>1, FS_Interval
<1>3. Begins(s) \in SUBSET DOMAIN s
  BY DEF Begins
<1>4. IsFiniteSet(Begins(s))
  BY <1>2, <1>3, FS_Subset
<1> DEFINE B == {b \in Begins(s) : b <= p}
<1>5. B \in SUBSET Begins(s)
  OBVIOUS
<1> HIDE DEF B
<1>6. IsFiniteSet(B) /\ Cardinality(B) <= Cardinality(Begins(s))
  BY <1>4, <1>5, FS_Subset
<1>7. Cardinality(B) \in Nat /\ Cardinality(Begins(s)) \in Nat
  BY <1>4, <1>6, FS_CardinalityType
<1>. QED BY <1>4, <1>6, <1>7 DEF Upto, B

LEMMA UptoRests ==
  ASSUME NEW s, NEW p \in Int, NEW q \in Int, p <= q, Begins(s) \subseteq Nat,
         \A b \in p + 1 .. q : b \notin Begins(s)
  PROVE  Upto(s, q) = Upto(s, p)
<1>1. \A b \in Begins(s) : b <= q <=> b <= p
  <2> SUFFICES ASSUME NEW b \in Begins(s) PROVE b <= q <=> b <= p
    OBVIOUS
  <2>1. b \in Nat /\ b \notin p + 1 .. q
    OBVIOUS
  <2>. QED BY <2>1
<1>2. {b \in Begins(s) : b <= q} = {b \in Begins(s) : b <= p}
  BY <1>1
<1>. QED BY <1>2 DEF Upto

LEMMA UptoGrows ==
  ASSUME NEW S, NEW s \in Seq(S), NEW p \in Int, NEW b \in Begins(s), p < b,
         \A c \in p + 1 .. b - 1 : c \notin Begins(s)
  PROVE  Upto(s, b) = Upto(s, p) + 1
<1>0. Begins(s) \subseteq Nat
  BY DEF Begins
<1>1. b \in Nat
  BY <1>0
<1> DEFINE B == {c \in Begins(s) : c <= p}
           D == {c \in Begins(s) : c <= b}
<1>2. IsFiniteSet(B) /\ Cardinality(B) = Upto(s, p) /\ Cardinality(D) = Upto(s, b)
  BY UptoIs DEF Upto
<1>3. b \notin B
  BY <1>1
<1>4. D = B \cup {b}
  <2>1. \A c \in Begins(s) : c <= b <=> c <= p \/ c = b
    <3> SUFFICES ASSUME NEW c \in Begins(s) PROVE c <= b <=> c <= p \/ c = b
      OBVIOUS
    <3>1. c \in Nat /\ c \notin p + 1 .. b - 1
      BY <1>0
    <3>. QED BY <1>1, <3>1
  <2>. QED BY <2>1
<1> HIDE DEF B, D
<1>5. Cardinality(D) = Cardinality(B) + 1
  BY <1>2, <1>3, <1>4, FS_AddElement
<1>. QED BY <1>2, <1>5

LEMMA UptoDiffers ==
  ASSUME NEW S, NEW s \in Seq(S), NEW b \in Begins(s), NEW c \in Begins(s),
         Upto(s, b) = Upto(s, c)
  PROVE  b = c
<1>0. Begins(s) \subseteq Nat
  BY DEF Begins
<1>1. ASSUME NEW x \in Begins(s), NEW y \in Begins(s), x < y PROVE Upto(s, x) < Upto(s, y)
  <2> DEFINE B == {d \in Begins(s) : d <= x}
             C == B \cup {y}
             D == {d \in Begins(s) : d <= y}
  <2>1. x \in Nat /\ y \in Nat /\ x \in Int /\ y \in Int
    BY <1>0
  <2>2. y \notin B /\ C \in SUBSET D
    BY <1>0, <1>1, <2>1
  <2>3. IsFiniteSet(B) /\ IsFiniteSet(D) /\ Cardinality(B) = Upto(s, x)
        /\ Cardinality(D) = Upto(s, y) /\ Upto(s, x) \in Nat /\ Upto(s, y) \in Nat
    BY <2>1, UptoIs DEF Upto
  <2>4. Cardinality(C) = Cardinality(B) + 1
    <3> HIDE DEF B
    <3>. QED BY <2>2, <2>3, FS_AddElement
  <2> HIDE DEF B, C, D
  <2>5. Cardinality(C) <= Cardinality(D)
    BY <2>2, <2>3, FS_Subset
  <2>. QED BY <2>3, <2>4, <2>5
<1>2. b \in Nat /\ c \in Nat /\ Upto(s, b) \in Nat /\ Upto(s, c) \in Nat
  <2>1. b \in Nat /\ c \in Nat /\ b \in Int /\ c \in Int
    BY <1>0
  <2>. QED BY <2>1, UptoIs
<1>3. ~(b < c) /\ ~(c < b)
  BY <1>1, <1>2
<1>. QED BY <1>2, <1>3

(* The array reads as the string from place p on, where a word may begin.  *)
Agrees(s, t, p) ==
  /\ p \in 1 .. Len(s) + 1 /\ Len(t) = Len(s)
  /\ \A k \in p .. Len(s) : t[k] = s[k]
  /\ p = 1 \/ p = Len(s) + 1 \/ s[p - 1] = BLANK

(* A call hands out the next word, or finds that there is none.            *)
LEMMA NoToken ==
  ASSUME NEW S, NUL \notin S, NEW s \in Seq(S), NEW t \in Seq(S \cup {NUL}), NEW p,
         Agrees(s, t, p), At(t, SkipBlanks(t, p)) = NUL
  PROVE  /\ StrTok(t, p) = [token |-> <<>>, place |-> Len(s) + 1, array |-> t]
         /\ Agrees(s, t, Len(s) + 1)
         /\ Upto(s, p - 1) = Cardinality(Begins(s)) /\ Upto(s, Len(s)) = Cardinality(Begins(s))
<1> DEFINE n == Len(s)
           b == SkipBlanks(t, p)
<1>1. /\ n \in Nat /\ p \in 1 .. n + 1 /\ p \in Nat /\ 1 <= p /\ p <= n + 1
      /\ Len(t) = n /\ DOMAIN s = 1 .. n /\ DOMAIN t = 1 .. n
      /\ \A k \in p .. n : t[k] = s[k]
      /\ \A k \in 1 .. n : s[k] \in S
  BY DEF Agrees
<1>2. b \in p .. n + 1 /\ \A r \in p .. b - 1 : t[r] = BLANK
  BY <1>1, SkipIs
<1> HIDE DEF b
<1>3. At(t, b) = NUL
  BY DEF b
<1>4. b = n + 1
  <2>1. SUFFICES ASSUME b \in p .. n PROVE FALSE
    BY <1>1, <1>2
  <2>2. b \in 1 .. n /\ t[b] = s[b] /\ s[b] # NUL
    BY <1>1, <2>1
  <2>. QED BY <1>1, <1>3, <2>2 DEF At
<1>5. StrTok(t, p) = [token |-> <<>>, place |-> n + 1, array |-> t]
  BY <1>3, <1>4 DEF StrTok, b
<1>6. Agrees(s, t, n + 1)
  BY <1>1 DEF Agrees
<1>7. \A k \in p .. n : k \notin Begins(s)
  <2> SUFFICES ASSUME NEW k \in p .. n PROVE k \notin Begins(s)
    OBVIOUS
  <2>1. k \in p .. b - 1 /\ t[k] = s[k] /\ k \in Nat
    BY <1>1, <1>4
  <2>2. s[k] = BLANK
    BY <1>2, <2>1
  <2>3. \A e \in DOMAIN s : ~WordAt(s, k, e)
    <3> SUFFICES ASSUME NEW e \in DOMAIN s, WordAt(s, k, e) PROVE FALSE
      OBVIOUS
    <3>1. k <= e /\ \A j \in k .. e : s[j] # BLANK
      BY DEF WordAt
    <3>2. k \in k .. e
      BY <1>1, <2>1, <3>1
    <3>. QED BY <2>2, <3>1, <3>2
  <2>. QED BY <2>3 DEF Begins
<1>8. Begins(s) \subseteq 1 .. n
  BY <1>1 DEF Begins
<1>9. {c \in Begins(s) : c <= n} = Begins(s)
  BY <1>1, <1>8
<1>10. Upto(s, n) = Cardinality(Begins(s))
  BY <1>9 DEF Upto
<1>11. p - 1 \in Int /\ n \in Int /\ p - 1 <= n /\ p - 1 + 1 = p /\ Begins(s) \subseteq Nat
  BY <1>1, <1>8
<1>12. \A k \in p - 1 + 1 .. n : k \notin Begins(s)
  BY <1>7, <1>11
<1> HIDE DEF n
<1>13. Upto(s, n) = Upto(s, p - 1)
  BY <1>11, <1>12, UptoRests
<1>. QED BY <1>5, <1>6, <1>10, <1>13 DEF n

LEMMA ListsEqual ==
  ASSUME NEW S, NEW s \in Seq(S), NEW t \in Seq(S), Len(s) = Len(t),
         \A k \in 1 .. Len(s) : s[k] = t[k]
  PROVE  s = t
<1>1. s = [k \in 1 .. Len(s) |-> s[k]] /\ t = [k \in 1 .. Len(s) |-> t[k]]
  OBVIOUS
<1>2. [k \in 1 .. Len(s) |-> s[k]] = [k \in 1 .. Len(s) |-> t[k]]
  OBVIOUS
<1>. QED BY ONLY <1>1, <1>2

LEMMA SomeToken ==
  ASSUME NEW S, NUL \notin S, NEW s \in Seq(S), NEW t \in Seq(S \cup {NUL}), NEW p,
         Agrees(s, t, p), At(t, SkipBlanks(t, p)) # NUL
  PROVE  LET got == StrTok(t, p)
             k   == Upto(s, p - 1) + 1
         IN  /\ Agrees(s, got.array, got.place)
             /\ got.array \in Seq(S \cup {NUL})
             /\ k <= Cardinality(Begins(s)) /\ Upto(s, got.place - 1) = k
             /\ got.token = Words(s)[k] /\ got.token \in Seq(S \cup {NUL})
<1> DEFINE n == Len(s)
           Z == S \cup {NUL}
           b == SkipBlanks(t, p)
           e == TokenEnd(t, b)
           cut == At(t, e) = BLANK
           q == IF cut THEN e + 1 ELSE e
           u == IF cut THEN [t EXCEPT ![e] = NUL] ELSE t
           w == SubSeq(t, b, e - 1)
<1>1. /\ n \in Nat /\ p \in 1 .. n + 1 /\ p \in Nat /\ 1 <= p /\ p <= n + 1
      /\ Len(t) = n /\ DOMAIN s = 1 .. n /\ DOMAIN t = 1 .. n
      /\ \A k \in p .. n : t[k] = s[k]
      /\ \A k \in 1 .. n : s[k] \in S
      /\ p = 1 \/ p = n + 1 \/ s[p - 1] = BLANK
  BY DEF Agrees
<1>2. b \in p .. n + 1 /\ At(t, b) # BLANK /\ \A r \in p .. b - 1 : t[r] = BLANK
  BY <1>1, SkipIs
<1>3. At(t, b) # NUL
  OBVIOUS
<1>4. StrTok(t, p) = [token |-> w, place |-> q, array |-> u]
  BY <1>3 DEF StrTok
<1> HIDE DEF b
<1>5. b \in 1 .. n /\ b \in p .. n /\ b \in Nat /\ b <= n /\ p <= b
  <2>1. b = n + 1 => b \notin 1 .. n
    BY <1>1
  <2>2. b # n + 1
    BY <1>1, <1>3, <2>1 DEF At
  <2>. QED BY <1>1, <1>2, <2>2
<1>6. s[b] = t[b] /\ t[b] = At(t, b)
  BY <1>1, <1>5 DEF At
<1>7. /\ e \in b .. n + 1 /\ At(t, e) \in {BLANK, NUL}
      /\ \A r \in b .. e - 1 : t[r] \notin {BLANK, NUL}
  <2>1. b \in 1 .. Len(t) + 1
    BY <1>1, <1>5
  <2>. QED BY <1>1, <2>1, EndIs
<1> HIDE DEF e
<1>8. e \in Nat /\ b < e /\ e <= n + 1 /\ e - 1 \in 1 .. n /\ e - 1 \in b .. n
  <2>1. e # b
    BY <1>2, <1>3, <1>7
  <2>. QED BY <1>1, <1>5, <1>7, <2>1
<1>9. \A r \in b .. n : r \in p .. n /\ t[r] = s[r]
  BY <1>1, <1>5
<1>10. cut => e <= n /\ s[e] = BLANK
  <2>1. cut => e \in 1 .. n
    <3>1. cut => e \in DOMAIN t
      BY DEF At, NUL, BLANK
    <3>. QED BY <1>1, <3>1
  <2>2. cut => e \in b .. n /\ t[e] = BLANK
    <3>1. cut => e \in b .. n
      BY <1>1, <1>5, <1>8, <2>1
    <3>. QED BY <1>1, <2>1, <3>1 DEF At
  <2>. QED BY <1>8, <1>9, <2>2
<1>11. ~cut => e = n + 1
  <2> SUFFICES ASSUME ~cut, e # n + 1 PROVE FALSE
    OBVIOUS
  <2>1. e \in 1 .. n /\ e \in b .. n
    BY <1>1, <1>5, <1>8
  <2>2. At(t, e) = s[e] /\ s[e] \in S
    BY <1>1, <1>9, <2>1 DEF At
  <2>. QED BY <1>7, <2>2
<1> HIDE DEF cut
<1>12. WordAt(s, b, e - 1)
  <2>1. \A k \in b .. e - 1 : s[k] # BLANK
    <3> SUFFICES ASSUME NEW k \in b .. e - 1 PROVE s[k] # BLANK
      OBVIOUS
    <3>1. k \in b .. n
      BY <1>5, <1>8
    <3>. QED BY <1>7, <1>9, <3>1
  <2>2. b = 1 \/ s[b - 1] = BLANK
    <3>1. CASE b = p
      BY <1>1, <1>5, <3>1
    <3>2. CASE b # p
      <4>1. b - 1 \in p .. b - 1 /\ b - 1 \in p .. n
        BY <1>1, <1>5, <3>2
      <4>. QED BY <1>1, <1>2, <4>1
    <3>. QED BY <3>1, <3>2
  <2>3. e - 1 = n \/ s[e - 1 + 1] = BLANK
    <3>1. e - 1 + 1 = e
      BY <1>8
    <3>. QED BY <1>1, <1>8, <1>10, <1>11, <3>1
  <2>. QED BY <1>5, <1>8, <2>1, <2>2, <2>3 DEF WordAt
<1>13. b \in Begins(s) /\ EndOf(s, b) = e - 1
  BY <1>1, <1>5, <1>8, <1>12, WordIs
<1>14. Begins(s) \subseteq Starts(s) /\ Begins(s) \subseteq Nat
  <2>1. \A c \in Begins(s) : c \in DOMAIN s /\ \E f \in DOMAIN s : WordAt(s, c, f)
    BY DEF Begins
  <2>2. \A c \in Begins(s) : c \in Starts(s)
    BY <2>1, WordIs
  <2>. QED BY <1>1, <2>1, <2>2
<1>15. \A c \in p - 1 + 1 .. b - 1 : c \notin Begins(s)
  <2> SUFFICES ASSUME NEW c \in p .. b - 1 PROVE c \notin Starts(s)
    BY <1>1, <1>14
  <2>1. c \in p .. n
    BY <1>5
  <2>2. s[c] = BLANK
    BY <1>1, <1>2, <2>1
  <2>. QED BY <2>2 DEF Starts
<1>16. Upto(s, b) = Upto(s, p - 1) + 1
  <2>1. p - 1 \in Int /\ p - 1 < b
    BY <1>1, <1>5
  <2>. QED BY <1>13, <1>15, <2>1, UptoGrows
<1>17. q \in Nat /\ b <= q - 1 /\ q <= n + 1 /\ q - 1 <= e
  <2>1. cut => q = e + 1 /\ e <= n
    BY <1>10
  <2>2. ~cut => q = e
    OBVIOUS
  <2> HIDE DEF q
  <2>. QED BY <1>5, <1>8, <2>1, <2>2
<1>18. \A c \in b + 1 .. q - 1 : c \notin Begins(s)
  <2> SUFFICES ASSUME NEW c \in b + 1 .. q - 1 PROVE c \notin Starts(s)
    BY <1>14
  <2> HIDE DEF q
  <2>1. c \in Int /\ b < c /\ c <= q - 1 /\ q - 1 <= e
    BY <1>5, <1>8, <1>17
  <2>2. CASE c = e
    <3>1. cut
      <4>1. ~cut => q = e
        BY DEF q
      <4>. QED BY <1>8, <2>1, <2>2, <4>1
    <3>. QED BY <1>10, <2>2, <3>1 DEF Starts
  <2>3. CASE c # e
    <3>1. c - 1 \in b .. e - 1 /\ c - 1 \in b .. n /\ c # 1
      <4> HIDE DEF n
      <4>1. b \in Int /\ e \in Int /\ n \in Int /\ 1 <= b /\ e <= n + 1
        BY <1>1, <1>5, <1>8
      <4>2. c <= e - 1
        BY <1>17, <2>1, <2>3, <4>1
      <4>. QED BY <2>1, <4>1, <4>2
    <3>2. s[c - 1] # BLANK
      BY <1>7, <1>9, <3>1
    <3>. QED BY <3>1, <3>2 DEF Starts
  <2>. QED BY <2>2, <2>3
<1>19. Upto(s, q - 1) = Upto(s, b)
  <2> HIDE DEF q
  <2>1. q - 1 \in Int /\ b \in Int
    BY <1>5, <1>17
  <2>. QED BY <1>14, <1>17, <1>18, <2>1, UptoRests
<1>20. Agrees(s, u, q) /\ u \in Seq(Z)
  <2>1. u \in Seq(Z) /\ Len(u) = n
    <3>1. NUL \in Z /\ t \in Seq(Z)
      OBVIOUS
    <3> HIDE DEF Z, cut
    <3>2. t \in [1 .. n -> Z]
      BY <1>1, <3>1
    <3>3. [t EXCEPT ![e] = NUL] \in [1 .. n -> Z]
      BY <3>1, <3>2
    <3>4. [t EXCEPT ![e] = NUL] \in Seq(Z) /\ Len([t EXCEPT ![e] = NUL]) = n
      BY <1>1, <3>3, ListOfLen
    <3>. QED BY <1>1, <3>1, <3>4
  <2>2. \A k \in q .. n : u[k] = s[k]
    <3> SUFFICES ASSUME NEW k \in q .. n PROVE u[k] = s[k]
      OBVIOUS
    <3>1. CASE cut
      <4>1. k \in b .. n /\ k # e /\ k \in 1 .. n
        BY <1>5, <1>8, <3>1
      <4>2. u[k] = t[k]
        BY <1>1, <3>1, <4>1
      <4>. QED BY <1>9, <4>1, <4>2
    <3>2. CASE ~cut
      BY <1>1, <1>8, <1>11, <3>2
    <3>. QED BY <3>1, <3>2
  <2>3. q = 1 \/ q = n + 1 \/ s[q - 1] = BLANK
    <3>1. cut => s[q - 1] = BLANK
      <4>1. cut => q - 1 = e
        BY <1>8
      <4>. QED BY <1>10, <4>1
    <3>2. ~cut => q = n + 1
      BY <1>11
    <3>. QED BY <3>1, <3>2
  <2>4. q \in 1 .. n + 1
    <3> HIDE DEF q
    <3>. QED BY <1>1, <1>5, <1>17
  <2> HIDE DEF q, u
  <2>. QED BY <2>1, <2>2, <2>3, <2>4 DEF Agrees
<1>21. w = SubSeq(s, b, e - 1) /\ w \in Seq(Z)
  <2> DEFINE v == SubSeq(s, b, e - 1)
  <2>1. b \in Int /\ e - 1 \in Int /\ b <= e - 1
    BY <1>5, <1>8
  <2>2. \A k \in b .. e - 1 : t[k] \in Z /\ s[k] \in Z /\ s[k] = t[k]
    <3> SUFFICES ASSUME NEW k \in b .. e - 1 PROVE t[k] \in Z /\ s[k] \in Z /\ s[k] = t[k]
      OBVIOUS
    <3>1. k \in b .. n /\ k \in 1 .. n
      BY <1>5, <1>8
    <3>. QED BY <1>1, <1>9, <3>1
  <2> HIDE DEF Z
  <2>3. /\ w \in Seq(Z) /\ Len(w) = e - 1 - b + 1
        /\ \A k \in 1 .. e - 1 - b + 1 : w[k] = t[b + k - 1]
    BY <2>1, <2>2, SubSeqProperties
  <2>4. /\ v \in Seq(Z) /\ Len(v) = e - 1 - b + 1
        /\ \A k \in 1 .. e - 1 - b + 1 : v[k] = s[b + k - 1]
    BY <2>1, <2>2, SubSeqProperties
  <2> HIDE DEF v, w
  <2>5. \A k \in 1 .. Len(w) : w[k] = v[k]
    <3> SUFFICES ASSUME NEW k \in 1 .. Len(w) PROVE w[k] = v[k]
      OBVIOUS
    <3>1. k \in 1 .. e - 1 - b + 1 /\ b + k - 1 \in b .. e - 1
      BY <2>1, <2>3
    <3>. QED BY <2>2, <2>3, <2>4, <3>1
  <2>6. w = v
    BY <2>3, <2>4, <2>5, ListsEqual
  <2>. QED BY <2>3, <2>6 DEF v
<1>22. Upto(s, b) \in Nat /\ Upto(s, b) >= 1 /\ Upto(s, b) <= Cardinality(Begins(s))
       /\ Cardinality(Begins(s)) \in Nat
  <2>1. b \in Int /\ p - 1 \in Int
    BY <1>1, <1>5
  <2>2. Upto(s, p - 1) \in Nat /\ Upto(s, b) \in Nat /\ Upto(s, b) <= Cardinality(Begins(s))
        /\ Cardinality(Begins(s)) \in Nat
    BY <2>1, UptoIs
  <2>. QED BY <1>16, <2>2
<1>23. Words(s)[Upto(s, b)] = SubSeq(s, b, e - 1)
  <2> DEFINE c == CHOOSE begin \in Begins(s) : Upto(s, begin) = Upto(s, b)
  <2>1. c \in Begins(s) /\ Upto(s, c) = Upto(s, b)
    BY <1>13
  <2>2. c = b
    BY <1>13, <2>1, UptoDiffers
  <2>3. Words(s)[Upto(s, b)] = SubSeq(s, c, EndOf(s, c))
    <3> DEFINE k == Upto(s, b)
               m == Cardinality(Begins(s))
    <3>1. k \in 1 .. m
      <4> HIDE DEF k, m
      <4>. QED BY <1>22 DEF k, m
    <3> HIDE DEF c
    <3>2. Words(s) = [j \in 1 .. m |->
             LET begin == CHOOSE a \in Begins(s) : Upto(s, a) = j
             IN  SubSeq(s, begin, EndOf(s, begin))]
      BY DEF Words
    <3> HIDE DEF m
    <3>. QED BY <3>1, <3>2 DEF c
  <2>. QED BY <1>13, <2>2, <2>3
<1> HIDE DEF w, q, u
<1>24. /\ StrTok(t, p).token = w /\ StrTok(t, p).place = q /\ StrTok(t, p).array = u
  BY <1>4
<1>25. w = Words(s)[Upto(s, p - 1) + 1] /\ Upto(s, q - 1) = Upto(s, p - 1) + 1
       /\ Upto(s, p - 1) + 1 <= Cardinality(Begins(s))
  BY <1>16, <1>19, <1>21, <1>22, <1>23
<1>. QED BY <1>20, <1>21, <1>24, <1>25

(* list holds the first k words of s, and NULLs once it has all.           *)
Handed(list, s, k) ==
  /\ Len(list) = k \/ (k = Cardinality(Begins(s)) /\ k <= Len(list))
  /\ \A j \in 1 .. Len(list) :
       list[j] = IF j <= Cardinality(Begins(s)) THEN Words(s)[j] ELSE <<>>

LEMMA TokenStep ==
  ASSUME NEW S, NUL \notin S, NEW s \in Seq(S), NEW t \in Seq(S \cup {NUL}), NEW p,
         NEW list \in Seq(Seq(S \cup {NUL})),
         Agrees(s, t, p), Handed(list, s, Upto(s, p - 1))
  PROVE  LET got == StrTok(t, p)
         IN  /\ got.array \in Seq(S \cup {NUL}) /\ Agrees(s, got.array, got.place)
             /\ Append(list, got.token) \in Seq(Seq(S \cup {NUL}))
             /\ Handed(Append(list, got.token), s, Upto(s, got.place - 1))
<1> DEFINE Z == S \cup {NUL}
           W == Seq(Z)
           m == Cardinality(Begins(s))
           k == Upto(s, p - 1)
           got == StrTok(t, p)
           more == Append(list, got.token)
<1>0. p - 1 \in Int
  BY DEF Agrees
<1>1. m \in Nat /\ k \in Nat /\ k <= m /\ Len(list) \in Nat
  <2>1. m \in Nat /\ k \in Nat /\ k <= m
    BY <1>0, UptoIs
  <2>. QED BY <2>1
<1>2. /\ Len(list) = k \/ (k = m /\ k <= Len(list))
      /\ \A j \in 1 .. Len(list) : list[j] = IF j <= m THEN Words(s)[j] ELSE <<>>
  BY DEF Handed
<1>3. /\ got.array \in Seq(Z) /\ Agrees(s, got.array, got.place) /\ got.token \in W
      /\ \/ got.token = <<>> /\ k = m /\ Upto(s, got.place - 1) = m
         \/ got.token = Words(s)[k + 1] /\ k + 1 <= m /\ Upto(s, got.place - 1) = k + 1
  <2>1. CASE At(t, SkipBlanks(t, p)) = NUL
    <3>1. got = [token |-> <<>>, place |-> Len(s) + 1, array |-> t]
          /\ Agrees(s, t, Len(s) + 1) /\ k = m /\ Upto(s, Len(s)) = m
      BY <2>1, NoToken
    <3> HIDE DEF got, k, m
    <3>2. got.token = <<>> /\ got.place = Len(s) + 1 /\ got.array = t
      BY <3>1
    <3>3. Len(s) + 1 - 1 = Len(s)
      OBVIOUS
    <3>4. got.token \in W
      BY <3>2
    <3>. QED BY <3>1, <3>2, <3>3, <3>4
  <2>2. CASE At(t, SkipBlanks(t, p)) # NUL
    <3>1. /\ Agrees(s, got.array, got.place) /\ got.array \in Seq(Z) /\ k + 1 <= m
          /\ Upto(s, got.place - 1) = k + 1
          /\ got.token = Words(s)[k + 1] /\ got.token \in W
      BY <2>2, SomeToken
    <3>. QED BY <3>1
  <2>. QED BY <2>1, <2>2
<1>4. list \in Seq(W)
  OBVIOUS
<1> HIDE DEF got, Z, W, m, k
<1>5. /\ more \in Seq(W) /\ Len(more) = Len(list) + 1 /\ more[Len(list) + 1] = got.token
      /\ \A j \in 1 .. Len(list) : more[j] = list[j]
  BY <1>3, <1>4, Appended
<1>6. more[Len(list) + 1] = IF Len(list) + 1 <= m THEN Words(s)[Len(list) + 1] ELSE <<>>
  <2>1. CASE got.token = <<>> /\ k = m
    <3>1. ~(Len(list) + 1 <= m)
      BY <1>1, <1>2, <2>1
    <3>. QED BY <1>5, <2>1, <3>1
  <2>2. CASE got.token = Words(s)[k + 1] /\ k + 1 <= m
    <3>1. Len(list) = k
      BY <1>1, <1>2, <2>2
    <3>. QED BY <1>5, <2>2, <3>1
  <2>. QED BY <1>3, <2>1, <2>2
<1>7. ASSUME NEW j \in 1 .. Len(more)
      PROVE  more[j] = IF j <= m THEN Words(s)[j] ELSE <<>>
  <2>1. j \in 1 .. Len(list) \/ j = Len(list) + 1
    BY <1>1, <1>5
  <2>. QED BY <1>2, <1>5, <1>6, <2>1
<1> DEFINE r == Upto(s, got.place - 1)
<1>8. (k = m /\ r = m) \/ (k + 1 <= m /\ r = k + 1)
  BY <1>3
<1> HIDE DEF r, more
<1>9. Len(more) = r \/ (r = m /\ r <= Len(more))
  BY <1>1, <1>2, <1>5, <1>8
<1>10. Handed(more, s, r)
  BY <1>7, <1>9 DEF Handed, m
<1>. QED BY <1>3, <1>5, <1>10 DEF got, more, r, W, Z

TokensInv ==
  \E S :
    /\ NUL \notin S
    /\ source \in Seq(S) /\ text \in Seq(S \cup {NUL}) /\ tokens \in Seq(Seq(S \cup {NUL}))
    /\ \/ last_token = ABSENT /\ tokens = <<>>
       \/ Agrees(source, text, last_token) /\ Handed(tokens, source, Upto(source, last_token - 1))

LEMMA TokensStart == StringsInit => TokensInv
<1> SUFFICES ASSUME StringsInit PROVE TokensInv
  OBVIOUS
<1> DEFINE S == {}
<1>1. source \in Seq(S) /\ text \in Seq(S \cup {NUL}) /\ tokens \in Seq(Seq(S \cup {NUL}))
  BY DEF StringsInit
<1>2. NUL \notin S
  OBVIOUS
<1>3. last_token = ABSENT /\ tokens = <<>>
  BY DEF StringsInit
<1> HIDE DEF S
<1>. QED BY <1>1, <1>2, <1>3 DEF TokensInv

LEMMA FirstTokenKeeps ==
  ASSUME NEW s \in Sources, FirstToken(s)
  PROVE  TokensInv'
<1> DEFINE S == ToSet(s) \ {NUL}
           none == <<>>
           got == StrTok(s, 1)
<1>1. NUL \notin S /\ s \in Seq(S)
  BY SourcesAssumption
<1> HIDE DEF S
<1>2. s \in Seq(S \cup {NUL})
  BY <1>1
<1>3. Agrees(s, s, 1)
  BY <1>1 DEF Agrees
<1>4. none \in Seq(Seq(S \cup {NUL})) /\ Len(none) = 0
  OBVIOUS
<1> HIDE DEF none
<1>5. Upto(s, 1 - 1) = 0
  <2>1. Begins(s) \subseteq 1 .. Len(s) /\ Len(s) \in Nat
    BY <1>1 DEF Begins
  <2>2. {b \in Begins(s) : b <= 1 - 1} = {}
    BY <2>1
  <2>. QED BY <2>2, FS_EmptySet DEF Upto
<1>6. Handed(none, s, Upto(s, 1 - 1))
  BY <1>4, <1>5 DEF Handed
<1>7. /\ got.array \in Seq(S \cup {NUL}) /\ Agrees(s, got.array, got.place)
      /\ Append(none, got.token) \in Seq(Seq(S \cup {NUL}))
      /\ Handed(Append(none, got.token), s, Upto(s, got.place - 1))
  BY <1>1, <1>2, <1>3, <1>4, <1>6, TokenStep
<1> HIDE DEF got
<1>8. source' = s /\ text' = got.array /\ last_token' = got.place /\ tokens' = <<got.token>>
  BY DEF FirstToken, got
<1>9. tokens' = Append(none, got.token)
  BY <1>8 DEF none
<1>10. /\ NUL \notin S
       /\ source' \in Seq(S) /\ text' \in Seq(S \cup {NUL})
       /\ tokens' \in Seq(Seq(S \cup {NUL}))
       /\ Agrees(source', text', last_token')
       /\ Handed(tokens', source', Upto(source', last_token' - 1))
  BY ONLY <1>1, <1>7, <1>8, <1>9
<1>. QED BY ONLY <1>10 DEF TokensInv, Agrees, Handed, Upto, Words, Begins, EndOf, WordAt

LEMMA NextTokenKeeps == TokensInv /\ NextToken => TokensInv'
<1> SUFFICES ASSUME TokensInv, NextToken PROVE TokensInv'
  OBVIOUS
<1> DEFINE got == StrTok(text, last_token)
<1>1. PICK S :
        /\ NUL \notin S /\ source \in Seq(S) /\ text \in Seq(S \cup {NUL})
        /\ tokens \in Seq(Seq(S \cup {NUL}))
        /\ \/ last_token = ABSENT /\ tokens = <<>>
           \/ /\ Agrees(source, text, last_token)
              /\ Handed(tokens, source, Upto(source, last_token - 1))
  BY DEF TokensInv
<1>2. last_token # ABSENT
  BY DEF NextToken
<1>3. Agrees(source, text, last_token) /\ Handed(tokens, source, Upto(source, last_token - 1))
  BY <1>1, <1>2
<1>4. /\ got.array \in Seq(S \cup {NUL}) /\ Agrees(source, got.array, got.place)
      /\ Append(tokens, got.token) \in Seq(Seq(S \cup {NUL}))
      /\ Handed(Append(tokens, got.token), source, Upto(source, got.place - 1))
  BY <1>1, <1>3, TokenStep
<1> HIDE DEF got
<1>5. /\ source' = source /\ text' = got.array /\ last_token' = got.place
      /\ tokens' = Append(tokens, got.token)
  BY DEF NextToken, got
<1>6. /\ NUL \notin S
      /\ source' \in Seq(S) /\ text' \in Seq(S \cup {NUL})
      /\ tokens' \in Seq(Seq(S \cup {NUL}))
      /\ Agrees(source', text', last_token')
      /\ Handed(tokens', source', Upto(source', last_token' - 1))
  BY ONLY <1>1, <1>4, <1>5
<1>. QED BY ONLY <1>6 DEF TokensInv, Agrees, Handed, Upto, Words, Begins, EndOf, WordAt

LEMMA TokensKept == TokensInv /\ [TokensNext \/ PrintNext]_strings_vars => TokensInv'
<1> SUFFICES ASSUME TokensInv, [TokensNext \/ PrintNext]_strings_vars PROVE TokensInv'
  OBVIOUS
<1>1. CASE PrintNext \/ UNCHANGED strings_vars
  <2>1. UNCHANGED <<source, text, last_token, tokens>>
    BY <1>1 DEF PrintNext, Sprintf, strings_vars
  <2>2. source' = source /\ text' = text /\ last_token' = last_token /\ tokens' = tokens
    BY <2>1
  <2>3. PICK S :
          /\ NUL \notin S /\ source \in Seq(S) /\ text \in Seq(S \cup {NUL})
          /\ tokens \in Seq(Seq(S \cup {NUL}))
          /\ \/ last_token = ABSENT /\ tokens = <<>>
             \/ /\ Agrees(source, text, last_token)
                /\ Handed(tokens, source, Upto(source, last_token - 1))
    BY DEF TokensInv
  <2>4. /\ NUL \notin S
        /\ source' \in Seq(S) /\ text' \in Seq(S \cup {NUL})
        /\ tokens' \in Seq(Seq(S \cup {NUL}))
        /\ \/ last_token' = ABSENT /\ tokens' = <<>>
           \/ /\ Agrees(source', text', last_token')
              /\ Handed(tokens', source', Upto(source', last_token' - 1))
    BY ONLY <2>2, <2>3
  <2>. QED BY ONLY <2>4 DEF TokensInv, Agrees, Handed, Upto, Words, Begins, EndOf, WordAt
<1>2. CASE TokensNext
  BY <1>2, FirstTokenKeeps, NextTokenKeeps DEF TokensNext
<1>. QED BY <1>1, <1>2

LEMMA TokensInvImplies == TokensInv => TokensAreWords
<1> SUFFICES ASSUME TokensInv PROVE TokensAreWords
  OBVIOUS
<1>1. PICK S :
        /\ NUL \notin S /\ source \in Seq(S) /\ text \in Seq(S \cup {NUL})
        /\ tokens \in Seq(Seq(S \cup {NUL}))
        /\ \/ last_token = ABSENT /\ tokens = <<>>
           \/ /\ Agrees(source, text, last_token)
              /\ Handed(tokens, source, Upto(source, last_token - 1))
  BY DEF TokensInv
<1> DEFINE m == Cardinality(Begins(source))
<1>2. m \in Nat
  <2>1. 0 \in Int
    OBVIOUS
  <2>. QED BY <1>1, <2>1, UptoIs
<1> HIDE DEF m
<1>3. Words(source) \in [1 .. m -> {Words(source)[k] : k \in 1 .. m}]
  BY DEF Words, m
<1>4. Len(Words(source)) = m
  BY <1>2, <1>3, ListOfLen
<1>5. DOMAIN tokens = 1 .. Len(tokens)
  BY <1>1
<1>6. \A k \in 1 .. Len(tokens) : tokens[k] = IF k <= m THEN Words(source)[k] ELSE <<>>
  <2>1. CASE tokens = <<>>
    BY <2>1
  <2>2. CASE Handed(tokens, source, Upto(source, last_token - 1))
    BY <2>2 DEF Handed, m
  <2>. QED BY <1>1, <2>1, <2>2
<1>. QED BY <1>4, <1>5, <1>6 DEF TokensAreWords

(* strtok hands out the words of every string in their order, each once,   *)
(* and then NULL, and what sprintf prints reads back as its argument, but  *)
(* for the least int: for every width of an int, every base and all        *)
(* strings.                                                                *)
THEOREM WordsAndNumbers == StringsSpec => []StringsSound
<1>1. TokensInv /\ PrintsReadBack /\ [TokensNext \/ PrintNext]_strings_vars
      => (TokensInv /\ PrintsReadBack)'
  BY TokensKept, PrintsStep
<1>2. StringsInit => TokensInv /\ PrintsReadBack
  BY TokensStart, PrintsStart
<1>3. TokensInv /\ PrintsReadBack => StringsSound
  BY TokensInvImplies DEF StringsSound
<1>. QED BY <1>1, <1>2, <1>3, PTL DEF StringsSpec

-----------------------------------------------------------------------------
(* The terminal's screen.                                                  *)
Inks == SUBSET (0 .. CELLS - 1)
RowStart(i) == i * TERMINAL_WIDTH

LEMMA ScreenIs ==
  /\ TERMINAL_WIDTH \in Nat /\ TERMINAL_WIDTH > 0
  /\ TERMINAL_HEIGHT \in Nat /\ TERMINAL_HEIGHT > 0
  /\ CELLS \in Nat /\ CELLS = RowStart(TERMINAL_HEIGHT)
<1>1. /\ TERMINAL_WIDTH \in Nat /\ TERMINAL_WIDTH > 0
      /\ TERMINAL_HEIGHT \in Nat /\ TERMINAL_HEIGHT > 0
  BY TerminalAssumption
<1>. QED BY <1>1 DEF CELLS, RowStart

LEMMA RowsLie ==
  ASSUME NEW i \in Nat
  PROVE  /\ RowStart(i) \in Nat /\ RowStart(i + 1) = RowStart(i) + TERMINAL_WIDTH
         /\ \A j \in Nat : i < j => RowStart(i) + TERMINAL_WIDTH <= RowStart(j)
         /\ \A j \in Nat : i <= j => RowStart(i) <= RowStart(j)
<1>1. TERMINAL_WIDTH \in Nat /\ TERMINAL_WIDTH > 0
  BY ScreenIs
<1>2. RowStart(i) \in Nat
  BY <1>1 DEF RowStart
<1>3. RowStart(i + 1) = RowStart(i) + TERMINAL_WIDTH
  BY <1>1 DEF RowStart
<1>4. ASSUME NEW j \in Nat, i < j PROVE RowStart(i) + TERMINAL_WIDTH <= RowStart(j)
  <2>1. j - i - 1 \in Nat
    BY <1>4
  <2>2. (j - i - 1) * TERMINAL_WIDTH \in Nat
    BY <1>1, <2>1
  <2>3. j * TERMINAL_WIDTH = i * TERMINAL_WIDTH + TERMINAL_WIDTH + (j - i - 1) * TERMINAL_WIDTH
    BY <1>1
  <2>. QED BY <1>1, <1>2, <2>2, <2>3 DEF RowStart
<1>5. ASSUME NEW j \in Nat, i <= j PROVE RowStart(i) <= RowStart(j)
  <2>1. i = j \/ i < j
    BY <1>5
  <2>2. RowStart(j) \in Nat
    BY <1>1 DEF RowStart
  <2>. QED BY <1>1, <1>2, <1>4, <2>1, <2>2
<1>. QED BY <1>2, <1>3, <1>4, <1>5

(* What strcpy copies ends at the next NUL.                                *)
EndsAt(ink, from, nul) ==
  nul \in from .. CELLS /\ nul \notin ink /\ \A q \in from .. nul - 1 : q \in ink

LEMMA CopyIs ==
  ASSUME NEW ink \in Inks, NEW i \in 0 .. TERMINAL_HEIGHT - 2
  PROVE  \E nul : /\ EndsAt(ink, RowStart(i + 1), nul)
                  /\ RowCopied(ink, i) = (ink \ {nul - TERMINAL_WIDTH})
                       \cup (RowStart(i) .. nul - TERMINAL_WIDTH - 1)
<1> DEFINE from == RowStart(i + 1)
           Q == {p \in from .. CELLS : p \notin ink}
           nul == CHOOSE p \in from .. CELLS : p \notin ink /\ \A q \in from .. p - 1 : q \in ink
<1>1. i \in Nat /\ i + 1 \in Nat /\ i + 1 <= TERMINAL_HEIGHT /\ TERMINAL_HEIGHT \in Nat
  BY ScreenIs
<1>2. /\ from \in Nat /\ CELLS \in Nat /\ from <= CELLS /\ TERMINAL_WIDTH \in Nat
      /\ RowStart(i) \in Nat /\ from = RowStart(i) + TERMINAL_WIDTH
  BY <1>1, ScreenIs, RowsLie
<1>3. from = (i + 1) * TERMINAL_WIDTH
  BY DEF RowStart
<1>4. from - TERMINAL_WIDTH = RowStart(i)
  BY <1>2
<1>5. RowCopied(ink, i) = (ink \ {nul - TERMINAL_WIDTH})
                            \cup (RowStart(i) .. nul - TERMINAL_WIDTH - 1)
  BY <1>3, <1>4 DEF RowCopied
<1> HIDE DEF from
<1>6. CELLS \in Q
  BY <1>2 DEF Inks
<1>7. Q \subseteq from .. CELLS /\ Q # {}
  BY <1>6
<1>8. \A p \in from .. CELLS : p \in Q \/ p \in ink
  OBVIOUS
<1> HIDE DEF Q
<1>9. PICK q \in Q : \A r \in from .. q - 1 : r \notin Q
  BY <1>2, <1>7, FirstPlace
<1>10. q \in from .. CELLS /\ q \notin ink
  BY DEF Q
<1>11. \A r \in from .. q - 1 : r \in ink
  <2>1. \A r \in from .. q - 1 : r \in from .. CELLS
    BY <1>2, <1>10
  <2>. QED BY <1>8, <1>9, <2>1
<1>12. nul \in from .. CELLS /\ nul \notin ink /\ \A r \in from .. nul - 1 : r \in ink
  BY <1>10, <1>11
<1> HIDE DEF nul
<1>. QED BY <1>5, <1>12 DEF EndsAt, from

LEMMA CopyStays ==
  ASSUME NEW ink \in Inks, NEW i \in 0 .. TERMINAL_HEIGHT - 2
  PROVE  RowCopied(ink, i) \in Inks
<1>1. PICK nul : /\ EndsAt(ink, RowStart(i + 1), nul)
                 /\ RowCopied(ink, i) = (ink \ {nul - TERMINAL_WIDTH})
                      \cup (RowStart(i) .. nul - TERMINAL_WIDTH - 1)
  BY CopyIs
<1>2. /\ i \in Nat /\ RowStart(i) \in Nat /\ CELLS \in Nat
      /\ TERMINAL_WIDTH \in Nat /\ TERMINAL_WIDTH > 0
  <2>1. i \in Nat
    BY ScreenIs
  <2>. QED BY <2>1, RowsLie, ScreenIs
<1>3. nul \in RowStart(i + 1) .. CELLS
  BY <1>1 DEF EndsAt
<1>4. nul \in Int /\ nul <= CELLS
  <2>1. RowStart(i + 1) \in Nat
    BY <1>2, RowsLie
  <2>. QED BY <1>2, <1>3, <2>1
<1>5. RowStart(i) .. nul - TERMINAL_WIDTH - 1 \subseteq 0 .. CELLS - 1
  BY <1>2, <1>4
<1>. QED BY <1>1, <1>5 DEF Inks

(* A row's text is what lies before its first NUL.                         *)
LEMMA TextIs ==
  ASSUME NEW ink, NEW i \in Nat, NEW nul \in Int, RowStart(i) <= nul, nul \notin ink,
         RowStart(i) .. nul - 1 \subseteq ink
  PROVE  RowText(ink, i) = {p \in 0 .. TERMINAL_WIDTH - 1 : RowStart(i) + p < nul}
<1>1. RowStart(i) \in Nat
  BY RowsLie
<1>2. ASSUME NEW p \in 0 .. TERMINAL_WIDTH - 1
      PROVE  (\A q \in 0 .. p : RowStart(i) + q \in ink) <=> RowStart(i) + p < nul
  <2>1. p \in Nat
    OBVIOUS
  <2>2. ASSUME RowStart(i) + p < nul, NEW q \in 0 .. p PROVE RowStart(i) + q \in ink
    <3>1. RowStart(i) + q \in RowStart(i) .. nul - 1
      BY <1>1, <2>1, <2>2
    <3>. QED BY <3>1
  <2>3. ASSUME ~(RowStart(i) + p < nul) PROVE ~(\A q \in 0 .. p : RowStart(i) + q \in ink)
    <3>1. nul - RowStart(i) \in 0 .. p /\ RowStart(i) + (nul - RowStart(i)) = nul
      BY <1>1, <2>1, <2>3
    <3>. QED BY <3>1
  <2>. QED BY <2>2, <2>3
<1>3. RowText(ink, i)
        = {p \in 0 .. TERMINAL_WIDTH - 1 : \A q \in 0 .. p : RowStart(i) + q \in ink}
  BY DEF RowText, RowStart
<1>. QED BY <1>2, <1>3

(* The same cells from lo to hi.                                           *)
Alike(c, d, lo, hi) == \A p \in lo .. hi : p \in c <=> p \in d

LEMMA TextKept ==
  ASSUME NEW c, NEW d, NEW j \in Nat, NEW lo \in Int, NEW hi \in Int, Alike(c, d, lo, hi),
         lo <= RowStart(j), RowStart(j) + TERMINAL_WIDTH - 1 <= hi
  PROVE  RowText(c, j) = RowText(d, j)
<1>1. RowStart(j) \in Nat /\ TERMINAL_WIDTH \in Nat
  BY RowsLie, ScreenIs
<1>2. ASSUME NEW p \in 0 .. TERMINAL_WIDTH - 1, NEW q \in 0 .. p
      PROVE  RowStart(j) + q \in c <=> RowStart(j) + q \in d
  <2>1. RowStart(j) + q \in lo .. hi
    BY <1>1
  <2>. QED BY <2>1 DEF Alike
<1>. QED BY <1>2 DEF RowText, RowStart

(* A row that is copied over the one above reads there as it did, unless   *)
(* it and the next are full.                                               *)
TwoFull(ink, j) ==
  j + 1 < TERMINAL_HEIGHT /\ RowFull(ink, j) /\ RowFull(ink, j + 1)

LEMMA CopyKeepsText ==
  ASSUME NEW ink \in Inks, NEW c \in Inks, NEW i \in 0 .. TERMINAL_HEIGHT - 2,
         Alike(c, ink, RowStart(i + 1), CELLS - 1), ~TwoFull(ink, i + 1)
  PROVE  /\ Alike(RowCopied(c, i), ink, RowStart(i + 2), CELLS - 1)
         /\ Alike(RowCopied(c, i), c, 0, RowStart(i) - 1)
         /\ RowText(RowCopied(c, i), i) = RowText(ink, i + 1)
<1> DEFINE W == TERMINAL_WIDTH
           H == TERMINAL_HEIGHT
           A == RowStart(i)
           d == RowCopied(c, i)
<1>1. PICK nul : EndsAt(c, RowStart(i + 1), nul)
                 /\ d = (c \ {nul - W}) \cup (A .. nul - W - 1)
  BY CopyIs
<1>2. i \in Nat /\ i + 1 \in Nat /\ i + 2 \in Nat /\ H \in Nat /\ i + 2 <= H /\ i + 1 + 1 = i + 2
  BY ScreenIs
<1>3. W \in Nat /\ W > 0 /\ CELLS \in Nat /\ CELLS = RowStart(H)
  BY ScreenIs
<1>4. A \in Nat /\ RowStart(i + 1) = A + W /\ RowStart(i + 2) = A + W + W
  <2>1. A \in Nat /\ RowStart(i + 1) = A + W
    BY <1>2, RowsLie
  <2>2. RowStart(i + 1 + 1) = RowStart(i + 1) + W
    BY <1>2, RowsLie
  <2>. QED BY <1>2, <2>1, <2>2
<1>5. A + W + W <= CELLS
  <2>1. RowStart(i + 2) <= RowStart(H)
    BY <1>2, RowsLie
  <2>. QED BY <1>3, <1>4, <2>1
<1> HIDE DEF W, A, d
<1>6. /\ nul \in Int /\ A + W <= nul /\ nul <= CELLS /\ nul \notin c
      /\ \A q \in A + W .. nul - 1 : q \in c
  BY <1>1, <1>3, <1>4 DEF EndsAt
<1>7. \A p \in A + W .. CELLS - 1 : p \in c <=> p \in ink
  BY <1>4 DEF Alike
<1>8. nul < A + W + W + W
  <2> SUFFICES ASSUME A + W + W + W <= nul PROVE FALSE
    BY <1>3, <1>4, <1>6
  <2>1. \A p \in A + W .. A + W + W + W - 1 : p \in ink
    <3> SUFFICES ASSUME NEW p \in A + W .. A + W + W + W - 1 PROVE p \in ink
      OBVIOUS
    <3>1. p \in A + W .. nul - 1 /\ p \in A + W .. CELLS - 1
      BY <1>3, <1>4, <1>6
    <3>. QED BY <1>6, <1>7, <3>1
  <2>2. i + 2 < H
    <3>1. i + 2 = H => CELLS = A + W + W
      BY <1>3, <1>4
    <3>. QED BY <1>2, <1>3, <1>4, <1>6, <3>1
  <2>3. ASSUME NEW x \in 0 .. W - 1
        PROVE  RowStart(i + 1) + x \in ink /\ RowStart(i + 2) + x \in ink
    <3>1. A + W + x \in A + W .. A + W + W + W - 1
          /\ A + W + W + x \in A + W .. A + W + W + W - 1
      BY <1>3, <1>4
    <3>. QED BY <1>4, <2>1, <3>1
  <2>4. RowFull(ink, i + 1) /\ RowFull(ink, i + 2)
    BY <2>3 DEF RowFull, RowStart, W
  <2>. QED BY <1>2, <2>2, <2>4 DEF TwoFull
<1>9. Alike(d, ink, RowStart(i + 2), CELLS - 1)
  <2> SUFFICES ASSUME NEW p \in A + W + W .. CELLS - 1 PROVE p \in d <=> p \in ink
    BY <1>4 DEF Alike
  <2>1. p \in A + W .. CELLS - 1 /\ p # nul - W /\ p \notin A .. nul - W - 1
    BY <1>3, <1>4, <1>6, <1>8
  <2>. QED BY <1>1, <1>7, <2>1
<1>10. Alike(d, c, 0, A - 1)
  <2> SUFFICES ASSUME NEW p \in 0 .. A - 1 PROVE p \in d <=> p \in c
    BY DEF Alike
  <2>1. p # nul - W /\ p \notin A .. nul - W - 1
    BY <1>3, <1>4, <1>6
  <2>. QED BY <1>1, <2>1
<1>11. RowText(d, i) = {p \in 0 .. W - 1 : A + p < nul - W}
  <2> DEFINE end == nul - W
  <2>1. end \in Int /\ A <= end
    BY <1>3, <1>4, <1>6
  <2>2. end \notin d /\ A .. end - 1 \subseteq d
    <3>1. end \notin A .. end - 1
      BY <1>4, <2>1
    <3>. QED BY <1>1, <3>1
  <2> HIDE DEF end
  <2>3. RowText(d, i) = {p \in 0 .. W - 1 : A + p < end}
    BY <1>2, <2>1, <2>2, TextIs DEF A, W
  <2>. QED BY <2>3 DEF end
<1>12. RowText(ink, i + 1) = {p \in 0 .. W - 1 : A + W + p < nul}
  <2>1. nul \notin ink
    <3>1. nul \in A + W .. CELLS - 1 \/ nul = CELLS
      BY <1>3, <1>4, <1>6
    <3>2. CELLS \notin ink
      BY <1>3 DEF Inks
    <3>. QED BY <1>6, <1>7, <3>1, <3>2
  <2>2. A + W .. nul - 1 \subseteq ink
    <3> SUFFICES ASSUME NEW q \in A + W .. nul - 1 PROVE q \in ink
      OBVIOUS
    <3>1. q \in A + W .. CELLS - 1
      BY <1>3, <1>4, <1>6
    <3>. QED BY <1>6, <1>7, <3>1
  <2>. QED BY <1>2, <1>4, <1>6, <2>1, <2>2, TextIs DEF W
<1>13. \A p \in 0 .. W - 1 : A + p < nul - W <=> A + W + p < nul
  BY <1>3, <1>4, <1>6
<1>14. RowText(d, i) = RowText(ink, i + 1)
  BY <1>11, <1>12, <1>13
<1>. QED BY <1>9, <1>10, <1>14 DEF d, A

(* The screen after each row's copy.                                       *)
Copies(f, ink) ==
  /\ f \in [0 .. TERMINAL_HEIGHT - 1 -> Inks] /\ f[0] = ink
  /\ \A k \in 1 .. TERMINAL_HEIGHT - 1 : f[k] = RowCopied(f[k - 1], k - 1)

LEMMA ScrollIs ==
  ASSUME NEW ink \in Inks
  PROVE  \E f : Copies(f, ink) /\ Scrolled(ink) = f[TERMINAL_HEIGHT - 1] \ LastRow
<1> DEFINE n == TERMINAL_HEIGHT - 1
           step == [k \in 1 .. n |-> [c \in Inks |-> RowCopied(c, k - 1)]]
           Rec(g) == g = [k \in 0 .. n |-> IF k = 0 THEN ink ELSE RowCopied(g[k - 1], k - 1)]
           copied == CHOOSE g : Rec(g)
<1>1. n \in Nat /\ TERMINAL_HEIGHT - 2 = n - 1
  BY ScreenIs
<1>2. Scrolled(ink) = copied[n] \ LastRow
  BY DEF Scrolled
<1>3. ASSUME NEW k \in 1 .. n, NEW c \in Inks PROVE RowCopied(c, k - 1) \in Inks
  <2>1. k - 1 \in 0 .. TERMINAL_HEIGHT - 2
    BY <1>1
  <2>. QED BY <2>1, CopyStays
<1> HIDE DEF n
<1>4. step \in [1 .. n -> [Inks -> Inks]]
  BY <1>3
<1>5. \A k \in 1 .. n, c \in Inks : step[k][c] = RowCopied(c, k - 1)
  OBVIOUS
<1> HIDE DEF step
<1>6. PICK f \in [0 .. n -> Inks] : IsRun(f, ink, step, n)
  BY ONLY <1>1, <1>4, ink \in Inks, LoopRuns
<1>7. /\ DOMAIN f = 0 .. n /\ f[0] = ink
      /\ \A k \in 1 .. n : k \in 0 .. n /\ k # 0 /\ k - 1 \in 0 .. n /\ f[k] = step[k][f[k - 1]]
  BY <1>1, <1>6 DEF IsRun
<1>8. \A k \in 1 .. n : f[k] = RowCopied(f[k - 1], k - 1)
  BY <1>5, <1>6, <1>7
<1>9. Rec(f)
  <2>1. \A k \in 0 .. n : f[k] = IF k = 0 THEN ink ELSE RowCopied(f[k - 1], k - 1)
    BY <1>7, <1>8
  <2>. QED BY <1>7, <2>1
<1>10. Rec(copied)
  BY <1>9
<1> HIDE DEF copied
<1>11. copied[0] = ink /\ \A k \in 1 .. n : copied[k] = RowCopied(copied[k - 1], k - 1)
  BY <1>1, <1>7, <1>10
<1>12. Alongside(copied, f, n)
  BY <1>7, <1>8, <1>11 DEF Alongside
<1>13. copied[n] = f[n]
  <2>1. \A k \in 0 .. n : copied[k] = f[k]
    BY <1>1, <1>12, RunsAgree
  <2>. QED BY <1>1, <2>1
<1>14. Copies(f, ink)
  BY <1>6, <1>7, <1>8 DEF Copies, n
<1>. QED BY <1>2, <1>13, <1>14 DEF n

LEMMA ScrollStays ==
  ASSUME NEW ink \in Inks
  PROVE  Scrolled(ink) \in Inks
<1>1. PICK f : Copies(f, ink) /\ Scrolled(ink) = f[TERMINAL_HEIGHT - 1] \ LastRow
  BY ScrollIs
<1>2. TERMINAL_HEIGHT - 1 \in 0 .. TERMINAL_HEIGHT - 1
  BY ScreenIs
<1>3. f[TERMINAL_HEIGHT - 1] \in Inks
  BY <1>1, <1>2 DEF Copies
<1>. QED BY <1>1, <1>3 DEF Inks

LEMMA ScrollMovesText ==
  ASSUME NEW ink \in Inks, \A i \in 1 .. TERMINAL_HEIGHT - 2 : ~TwoFull(ink, i)
  PROVE  \A i \in 0 .. TERMINAL_HEIGHT - 2 : RowText(Scrolled(ink), i) = RowText(ink, i + 1)
<1> DEFINE H == TERMINAL_HEIGHT
<1>1. PICK f : Copies(f, ink) /\ Scrolled(ink) = f[H - 1] \ LastRow
  BY ScrollIs
<1>2. /\ f \in [0 .. H - 1 -> Inks] /\ f[0] = ink
      /\ \A k \in 1 .. H - 1 : f[k] = RowCopied(f[k - 1], k - 1)
  BY <1>1 DEF Copies
<1>3. H \in Nat /\ H > 0 /\ TERMINAL_WIDTH \in Nat /\ TERMINAL_WIDTH > 0
      /\ CELLS \in Nat /\ CELLS = RowStart(H)
  BY ScreenIs
<1> DEFINE Good(k) == /\ Alike(f[k], ink, RowStart(k + 1), CELLS - 1)
                      /\ \A j \in 0 .. k - 1 : RowText(f[k], j) = RowText(ink, j + 1)
           I == {k \in 0 .. H - 1 : ~Good(k)}
           least == Min(I)
<1>4. ASSUME I # {} PROVE FALSE
  <2>0. I \subseteq Nat
    OBVIOUS
  <2>1. least \in I /\ \A m \in I : least <= m
    BY <1>4, <2>0, Smallest
  <2> HIDE DEF least
  <2>2. Good(0)
    BY <1>2 DEF Alike
  <2>3. least \in 1 .. H - 1 /\ ~Good(least)
    <3> HIDE DEF Good
    <3>1. least \in 0 .. H - 1 /\ ~Good(least)
      BY <2>1
    <3>. QED BY <2>2, <3>1
  <2> DEFINE i == least - 1
  <2>4. i \in 0 .. H - 2 /\ i \in Nat /\ i + 1 = least /\ i + 2 = least + 1 /\ i \in 0 .. H - 1
        /\ ~(least <= i)
    BY <1>3, <2>3
  <2> HIDE DEF i
  <2>5. Good(i)
    <3> HIDE DEF Good
    <3>. QED BY <2>1, <2>4
  <2>6. f[least] = RowCopied(f[i], i) /\ f[i] \in Inks
    BY <1>2, <2>3, <2>4 DEF i
  <2>7. ~TwoFull(ink, i + 1)
    <3>1. CASE i + 1 \in 1 .. H - 2
      BY <3>1
    <3>2. CASE i + 1 \notin 1 .. H - 2
      <4>1. ~(i + 1 + 1 < H)
        BY <1>3, <2>4, <3>2
      <4>. QED BY <4>1 DEF TwoFull
    <3>. QED BY <3>1, <3>2
  <2>8. Alike(f[i], ink, RowStart(i + 1), CELLS - 1)
        /\ \A j \in 0 .. i - 1 : RowText(f[i], j) = RowText(ink, j + 1)
    BY <2>5
  <2>9. /\ Alike(f[least], ink, RowStart(least + 1), CELLS - 1)
        /\ Alike(f[least], f[i], 0, RowStart(i) - 1)
        /\ RowText(f[least], i) = RowText(ink, i + 1)
    BY <2>4, <2>6, <2>7, <2>8, CopyKeepsText
  <2>10. ASSUME NEW j \in 0 .. least - 1
         PROVE  RowText(f[least], j) = RowText(ink, j + 1)
    <3>1. CASE j = i
      BY <2>9, <3>1
    <3>2. CASE j # i
      <4>1. j \in 0 .. i - 1 /\ j \in Nat /\ j < i
        BY <2>4, <3>2
      <4>2. /\ RowStart(j) + TERMINAL_WIDTH <= RowStart(i)
            /\ RowStart(j) \in Nat /\ RowStart(i) \in Nat
        BY <2>4, <4>1, RowsLie
      <4>3. 0 <= RowStart(j) /\ RowStart(j) + TERMINAL_WIDTH - 1 <= RowStart(i) - 1
            /\ 0 \in Int /\ RowStart(i) - 1 \in Int
        BY <1>3, <4>2
      <4>4. RowText(f[least], j) = RowText(f[i], j)
        BY <2>9, <4>1, <4>3, TextKept
      <4>. QED BY <2>8, <4>1, <4>4
    <3>. QED BY <3>1, <3>2
  <2>. QED BY <2>3, <2>9, <2>10
<1>5. Good(H - 1)
  <2>1. H - 1 \in 0 .. H - 1
    BY <1>3
  <2> HIDE DEF Good
  <2>. QED BY <1>4, <2>1
<1>6. ASSUME NEW j \in 0 .. H - 2
      PROVE  RowText(Scrolled(ink), j) = RowText(ink, j + 1)
  <2>1. j \in 0 .. H - 1 - 1 /\ j \in Nat /\ j < H - 1 /\ H - 1 \in Nat
    BY <1>3
  <2>2. RowText(f[H - 1], j) = RowText(ink, j + 1)
    BY <1>5, <2>1
  <2>3. RowStart(j) + TERMINAL_WIDTH <= RowStart(H - 1) /\ RowStart(j) \in Nat
        /\ RowStart(H - 1) \in Nat /\ RowStart(H - 1 + 1) = RowStart(H - 1) + TERMINAL_WIDTH
    BY <2>1, RowsLie
  <2>4. H - 1 + 1 = H
    BY <1>3
  <2>5. CELLS - TERMINAL_WIDTH = RowStart(H - 1)
    BY <1>3, <2>3, <2>4
  <2>6. Alike(Scrolled(ink), f[H - 1], 0, RowStart(H - 1) - 1)
    <3> SUFFICES ASSUME NEW p \in 0 .. RowStart(H - 1) - 1
                 PROVE  p \in Scrolled(ink) <=> p \in f[H - 1]
      BY DEF Alike
    <3>1. p \notin CELLS - TERMINAL_WIDTH .. CELLS - 1
      BY <1>3, <2>3, <2>5
    <3>. QED BY <1>1, <3>1 DEF LastRow
  <2>7. 0 <= RowStart(j) /\ RowStart(j) + TERMINAL_WIDTH - 1 <= RowStart(H - 1) - 1
        /\ 0 \in Int /\ RowStart(H - 1) - 1 \in Int
    BY <1>3, <2>3
  <2>8. RowText(Scrolled(ink), j) = RowText(f[H - 1], j)
    BY <2>1, <2>6, <2>7, TextKept
  <2>. QED BY <2>2, <2>8
<1>. QED BY <1>6

(* The terminal's structure.                                               *)
Characters == Keys \cup {"X"}
Lines == {line \in Seq(Characters) : Len(line) < INPUT_BUFFER_SIZE}
Screens ==
  [ink : Inks, x : Nat, y : 0 .. TERMINAL_HEIGHT - 1, lost : BOOLEAN, edged : BOOLEAN,
   input : Lines, history : Seq(Lines), index : Nat, bash : BOOLEAN]

(* Up and Down stay inside a history that has not outgrown its array.      *)
HistoryFits(t) == t.index <= Len(t.history) /\ Len(t.history) <= HISTORY_SIZE

OnScreen(t) == ~t.edged => t.x < TERMINAL_WIDTH /\ ~t.lost
Good == {t \in Screens : OnScreen(t) /\ HistoryFits(t)}

LEMMA FieldsAre ==
  ASSUME NEW t \in Screens
  PROVE  /\ t.ink \in Inks /\ t.x \in Nat /\ t.y \in 0 .. TERMINAL_HEIGHT - 1
         /\ t.lost \in BOOLEAN /\ t.edged \in BOOLEAN /\ t.input \in Lines
         /\ t.history \in Seq(Lines) /\ t.index \in Nat /\ t.bash \in BOOLEAN
<1> DEFINE A == Seq(Lines)
<1>1. A = Seq(Lines)
  OBVIOUS
<1> HIDE DEF A
<1>2. t \in [ink : Inks, x : Nat, y : 0 .. TERMINAL_HEIGHT - 1, lost : BOOLEAN, edged : BOOLEAN,
              input : Lines, history : A, index : Nat, bash : BOOLEAN]
  BY <1>1 DEF Screens
<1>3. /\ t.ink \in Inks /\ t.x \in Nat /\ t.y \in 0 .. TERMINAL_HEIGHT - 1
      /\ t.lost \in BOOLEAN /\ t.edged \in BOOLEAN /\ t.input \in Lines
      /\ t.history \in A /\ t.index \in Nat /\ t.bash \in BOOLEAN
  BY <1>2
<1>. QED BY <1>1, <1>3

(* The cursor and the cells, without what the keys have left.              *)
Moved(t, ink, x, y) == [t EXCEPT !.ink = ink, !.x = x, !.y = y]

LEMMA MovedIs ==
  ASSUME NEW t \in Screens, HistoryFits(t),
         NEW ink \in Inks, NEW x \in Nat, NEW y \in 0 .. TERMINAL_HEIGHT - 1
  PROVE  LET u == Moved(t, ink, x, y)
         IN  /\ u \in Screens /\ HistoryFits(u)
             /\ u.ink = ink /\ u.x = x /\ u.y = y /\ u.lost = t.lost /\ u.edged = t.edged
             /\ (t.edged \/ (x < TERMINAL_WIDTH /\ ~t.lost)) => u \in Good
<1> DEFINE u == Moved(t, ink, x, y)
           A == Seq(Lines)
           Y == 0 .. TERMINAL_HEIGHT - 1
<1> HIDE DEF A, Y
<1>2. t \in [ink : Inks, x : Nat, y : Y, lost : BOOLEAN, edged : BOOLEAN,
              input : Lines, history : A, index : Nat, bash : BOOLEAN]
  BY DEF Screens, A, Y
<1>3. y \in Y
  BY DEF Y
<1>4. u \in [ink : Inks, x : Nat, y : Y, lost : BOOLEAN, edged : BOOLEAN,
              input : Lines, history : A, index : Nat, bash : BOOLEAN]
  BY <1>2, <1>3 DEF Moved
<1>5. u \in Screens
  BY <1>4 DEF Screens, A, Y
<1>6. /\ u.edged = t.edged /\ u.lost = t.lost /\ u.x = x /\ u.index = t.index
      /\ u.history = t.history /\ u.ink = ink /\ u.y = y
  BY <1>2 DEF Moved
<1> HIDE DEF u
<1>7. t.edged \/ (x < TERMINAL_WIDTH /\ ~t.lost) => OnScreen(u)
  BY <1>6 DEF OnScreen
<1>8. HistoryFits(u)
  BY <1>6 DEF HistoryFits
<1>. QED BY <1>5, <1>6, <1>7, <1>8 DEF Good, u

(* A structure that differs in what only the property reads.               *)
LEMMA MarkedIs ==
  ASSUME NEW t \in Screens, HistoryFits(t), NEW x \in Nat, NEW lost \in BOOLEAN,
         NEW edged \in BOOLEAN, edged \/ (x < TERMINAL_WIDTH /\ ~lost)
  PROVE  [t EXCEPT !.x = x, !.lost = lost, !.edged = edged] \in Good
<1> DEFINE u == [t EXCEPT !.x = x, !.lost = lost, !.edged = edged]
           A == Seq(Lines)
           Y == 0 .. TERMINAL_HEIGHT - 1
<1> HIDE DEF A, Y
<1>2. t \in [ink : Inks, x : Nat, y : Y, lost : BOOLEAN, edged : BOOLEAN,
              input : Lines, history : A, index : Nat, bash : BOOLEAN]
  BY DEF Screens, A, Y
<1>4. u \in [ink : Inks, x : Nat, y : Y, lost : BOOLEAN, edged : BOOLEAN,
              input : Lines, history : A, index : Nat, bash : BOOLEAN]
  BY <1>2
<1>5. u \in Screens
  BY <1>4 DEF Screens, A, Y
<1>6. /\ u.edged = edged /\ u.lost = lost /\ u.x = x /\ u.index = t.index
      /\ u.history = t.history
  BY <1>2
<1> HIDE DEF u
<1>7. OnScreen(u)
  BY <1>6 DEF OnScreen
<1>8. HistoryFits(u)
  BY <1>6 DEF HistoryFits
<1>. QED BY <1>5, <1>7, <1>8 DEF Good, u

LEMMA NewLineKeeps ==
  ASSUME NEW t \in Screens, HistoryFits(t), t.edged \/ ~t.lost
  PROVE  NewLine(t) \in Good
<1>1. /\ t.ink \in Inks /\ t.x \in Nat /\ t.y \in 0 .. TERMINAL_HEIGHT - 1
  BY FieldsAre
<1>2. TERMINAL_HEIGHT \in Nat /\ TERMINAL_HEIGHT > 0 /\ 0 < TERMINAL_WIDTH
  BY ScreenIs
<1>3. CASE t.y + 1 < TERMINAL_HEIGHT
  <2>1. NewLine(t) = Moved(t, t.ink, 0, t.y + 1)
    BY <1>3 DEF NewLine, Moved, Screens
  <2>2. t.y + 1 \in 0 .. TERMINAL_HEIGHT - 1
    BY <1>1, <1>2, <1>3
  <2>. QED BY <1>1, <1>2, <2>1, <2>2, MovedIs
<1>4. CASE ~(t.y + 1 < TERMINAL_HEIGHT)
  <2>1. NewLine(t) = Moved(t, Scrolled(t.ink), 0, t.y)
    BY <1>4 DEF NewLine, Moved, Screens
  <2>2. Scrolled(t.ink) \in Inks
    BY <1>1, ScrollStays
  <2>. QED BY <1>1, <1>2, <2>1, <2>2, MovedIs
<1>. QED BY <1>3, <1>4

LEMMA CellIs ==
  ASSUME NEW t \in Screens
  PROVE  /\ Cell(t) \in Nat /\ Cell(t) = RowStart(t.y) + t.x /\ RowStart(t.y) \in Nat
         /\ t.x < TERMINAL_WIDTH => Cell(t) < CELLS
<1>1. t.x \in Nat /\ t.y \in Nat /\ t.y < TERMINAL_HEIGHT
  <2>1. t.x \in Nat /\ t.y \in 0 .. TERMINAL_HEIGHT - 1
    BY FieldsAre
  <2>. QED BY <2>1, ScreenIs
<1>2. TERMINAL_HEIGHT \in Nat /\ TERMINAL_WIDTH \in Nat /\ CELLS \in Nat
      /\ CELLS = RowStart(TERMINAL_HEIGHT)
  BY ScreenIs
<1>3. RowStart(t.y) \in Nat /\ RowStart(t.y) + TERMINAL_WIDTH <= CELLS
  BY <1>1, <1>2, RowsLie
<1>4. Cell(t) = RowStart(t.y) + t.x
  BY DEF Cell, RowStart
<1>. QED BY <1>1, <1>2, <1>3, <1>4

LEMMA WrittenKeeps ==
  ASSUME NEW t \in Good
  PROVE  Written(t) \in Good
<1>1. t \in Screens /\ OnScreen(t) /\ HistoryFits(t)
  BY DEF Good
<1>2. /\ t.ink \in Inks /\ t.x \in Nat /\ t.y \in 0 .. TERMINAL_HEIGHT - 1
      /\ t.lost \in BOOLEAN /\ t.edged \in BOOLEAN
  BY <1>1, FieldsAre
<1>3. Cell(t) \in Nat /\ (t.x < TERMINAL_WIDTH => Cell(t) < CELLS) /\ CELLS \in Nat
      /\ TERMINAL_WIDTH \in Nat
  BY <1>1, CellIs, ScreenIs
<1>4. CASE Cell(t) >= CELLS
  <2>1. ~(t.x < TERMINAL_WIDTH)
    BY <1>3, <1>4
  <2>2. t.edged
    BY <1>1, <2>1 DEF OnScreen
  <2>3. Written(t) = [t EXCEPT !.x = t.x, !.lost = TRUE, !.edged = t.edged]
    BY <1>1, <1>4 DEF Written, Screens
  <2>4. TRUE \in BOOLEAN /\ (t.edged \/ (t.x < TERMINAL_WIDTH /\ ~TRUE))
    BY <2>2
  <2>5. [t EXCEPT !.x = t.x, !.lost = TRUE, !.edged = t.edged] \in Good
    BY ONLY <1>1, <1>2, <2>4, MarkedIs
  <2>. QED BY <2>3, <2>5
<1>5. CASE ~(Cell(t) >= CELLS)
  <2> DEFINE ink == t.ink \cup {Cell(t)}
             x == t.x + 1
             u == Moved(t, ink, x, t.y)
  <2>1. [t EXCEPT !.ink = @ \cup {Cell(t)}, !.x = @ + 1] = u
    BY <1>1 DEF Moved, Screens
  <2>2. ink \in Inks /\ x \in Nat
    BY <1>2, <1>3, <1>5 DEF Inks
  <2>3. Written(t) = IF u.x >= TERMINAL_WIDTH THEN NewLine(u) ELSE u
    BY <1>5, <2>1 DEF Written
  <2> HIDE DEF ink, x
  <2>4. /\ u \in Screens /\ HistoryFits(u)
        /\ u.x = x /\ u.lost = t.lost /\ u.edged = t.edged
        /\ (t.edged \/ (x < TERMINAL_WIDTH /\ ~t.lost)) => u \in Good
    BY ONLY <1>1, <1>2, <2>2, MovedIs
  <2> HIDE DEF u
  <2>5. t.edged \/ ~t.lost
    BY <1>1 DEF OnScreen
  <2>6. CASE u.x >= TERMINAL_WIDTH
    <3>1. u.edged \/ ~u.lost
      BY <2>4, <2>5
    <3>2. NewLine(u) \in Good
      BY <2>4, <3>1, NewLineKeeps
    <3>. QED BY <2>3, <2>6, <3>2
  <2>7. CASE ~(u.x >= TERMINAL_WIDTH)
    <3>1. x < TERMINAL_WIDTH
      BY <1>2, <1>3, <2>2, <2>4, <2>7
    <3>2. u \in Good
      BY <2>4, <2>5, <3>1
    <3>. QED BY <2>3, <2>7, <3>2
  <2>. QED BY <2>6, <2>7
<1>. QED BY <1>4, <1>5

LEMMA TabKeeps ==
  ASSUME NEW t \in Good
  PROVE  Tabbed(t) \in Good
<1>1. t \in Screens /\ OnScreen(t) /\ HistoryFits(t)
  BY DEF Good
<1>2. t.x \in Nat /\ t.lost \in BOOLEAN /\ t.edged \in BOOLEAN
  BY <1>1, FieldsAre
<1> DEFINE x == TAB * ((t.x + TAB) \div TAB)
           edged == t.edged \/ x >= TERMINAL_WIDTH
<1>3. x \in Nat
  <2>1. TAB \in Nat /\ TAB > 0
    BY TerminalAssumption
  <2>2. t.x + TAB \in Nat
    BY <1>2, <2>1
  <2> DEFINE q == (t.x + TAB) \div TAB
  <2>3. q \in Nat
    BY <2>1, <2>2
  <2> HIDE DEF q
  <2>4. TAB * q \in Nat
    BY <2>1, <2>3
  <2>. QED BY <2>4 DEF q
<1>4. Tabbed(t) = [t EXCEPT !.x = x, !.lost = t.lost, !.edged = edged]
  BY <1>1 DEF Tabbed, Screens
<1> HIDE DEF x
<1>5. edged \in BOOLEAN
  OBVIOUS
<1>6. edged \/ (x < TERMINAL_WIDTH /\ ~t.lost)
  <2>1. t.edged \/ ~t.lost
    BY <1>1 DEF OnScreen
  <2>2. x >= TERMINAL_WIDTH \/ x < TERMINAL_WIDTH
    BY <1>3, ScreenIs
  <2>. QED BY <2>1, <2>2
<1> HIDE DEF edged
<1>7. [t EXCEPT !.x = x, !.lost = t.lost, !.edged = edged] \in Good
  BY ONLY <1>1, <1>2, <1>3, <1>5, <1>6, MarkedIs
<1>. QED BY <1>4, <1>7

LEMMA BackSpaceKeeps ==
  ASSUME NEW t \in Good
  PROVE  BackSpaced(t) \in Good
<1>1. t \in Screens /\ OnScreen(t) /\ HistoryFits(t)
  BY DEF Good
<1>2. /\ t.ink \in Inks /\ t.x \in Nat /\ t.y \in 0 .. TERMINAL_HEIGHT - 1
      /\ t.lost \in BOOLEAN /\ t.edged \in BOOLEAN
  BY <1>1, FieldsAre
<1>3. /\ Cell(t) \in Nat /\ Cell(t) = RowStart(t.y) + t.x /\ RowStart(t.y) \in Nat
      /\ (t.x < TERMINAL_WIDTH => Cell(t) < CELLS) /\ CELLS \in Nat /\ TERMINAL_WIDTH \in Nat
  BY <1>1, CellIs, ScreenIs
<1>4. CASE t.x = 0
  BY <1>4 DEF BackSpaced
<1>5. CASE t.x # 0 /\ Cell(t) > CELLS
  <2>1. ~(t.x < TERMINAL_WIDTH)
    BY <1>3, <1>5
  <2>2. t.edged
    BY <1>1, <2>1 DEF OnScreen
  <2>3. BackSpaced(t) = [t EXCEPT !.x = t.x, !.lost = TRUE, !.edged = t.edged]
    BY <1>1, <1>5 DEF BackSpaced, Screens
  <2>4. TRUE \in BOOLEAN /\ (t.edged \/ (t.x < TERMINAL_WIDTH /\ ~TRUE))
    BY <2>2
  <2>5. [t EXCEPT !.x = t.x, !.lost = TRUE, !.edged = t.edged] \in Good
    BY ONLY <1>1, <1>2, <2>4, MarkedIs
  <2>. QED BY <2>3, <2>5
<1>6. CASE t.x # 0 /\ ~(Cell(t) > CELLS)
  <2> DEFINE ink == t.ink \cup {Cell(t) - 1}
  <2>1. BackSpaced(t) = Moved(t, ink, t.x - 1, t.y)
    BY <1>1, <1>6 DEF BackSpaced, Moved, Screens
  <2>2. t.x - 1 \in Nat /\ Cell(t) - 1 \in 0 .. CELLS - 1
    BY <1>2, <1>3, <1>6
  <2>3. ink \in Inks
    BY <1>2, <2>2 DEF Inks
  <2> HIDE DEF ink
  <2>4. t.edged \/ (t.x - 1 < TERMINAL_WIDTH /\ ~t.lost)
    <3>1. t.x < TERMINAL_WIDTH => t.x - 1 < TERMINAL_WIDTH
      BY <1>2, <1>3
    <3>. QED BY <1>1, <3>1 DEF OnScreen
  <2>5. Moved(t, ink, t.x - 1, t.y) \in Good
    BY ONLY <1>1, <1>2, <2>2, <2>3, <2>4, MovedIs
  <2>. QED BY <2>1, <2>5
<1>. QED BY <1>4, <1>5, <1>6

LEMMA PutCharKeeps ==
  ASSUME NEW t \in Good, NEW c
  PROVE  PutChar(t, c) \in Good
<1>1. t \in Screens /\ OnScreen(t) /\ HistoryFits(t)
  BY DEF Good
<1>2. t.ink \in Inks /\ t.y \in 0 .. TERMINAL_HEIGHT - 1
  BY <1>1, FieldsAre
<1>3. NewLine(t) \in Good
  BY <1>1, NewLineKeeps DEF OnScreen
<1>4. [t EXCEPT !.x = 0] \in Good
  <2>1. [t EXCEPT !.x = 0] = Moved(t, t.ink, 0, t.y)
    BY <1>1 DEF Moved, Screens
  <2>2. t.edged \/ (0 < TERMINAL_WIDTH /\ ~t.lost)
    BY <1>1, ScreenIs DEF OnScreen
  <2>3. 0 \in Nat
    OBVIOUS
  <2>4. Moved(t, t.ink, 0, t.y) \in Good
    BY ONLY <1>1, <1>2, <2>2, <2>3, MovedIs
  <2>. QED BY <2>1, <2>4
<1>. QED BY <1>3, <1>4, WrittenKeeps, TabKeeps, BackSpaceKeeps DEF PutChar

(* A string of any characters.                                             *)
LEMMA PutKeeps ==
  ASSUME NEW t \in Good, NEW S, NEW string \in Seq(S)
  PROVE  Put(t, string) \in Good
<1> DEFINE n == Len(string)
           step == [k \in 1 .. n |-> [u \in Good |-> PutChar(u, string[k])]]
           Rec(g) == g = [k \in 0 .. n |-> IF k = 0 THEN t ELSE PutChar(g[k - 1], string[k])]
           put == CHOOSE g : Rec(g)
<1>1. n \in Nat
  OBVIOUS
<1>2. Put(t, string) = put[n]
  BY DEF Put
<1> HIDE DEF n
<1>3. step \in [1 .. n -> [Good -> Good]]
  BY PutCharKeeps
<1>4. \A k \in 1 .. n, u \in Good : step[k][u] = PutChar(u, string[k])
  OBVIOUS
<1> HIDE DEF step
<1>5. PICK f \in [0 .. n -> Good] : IsRun(f, t, step, n)
  BY ONLY <1>1, <1>3, t \in Good, LoopRuns
<1>6. /\ DOMAIN f = 0 .. n /\ f[0] = t
      /\ \A k \in 1 .. n : k \in 0 .. n /\ k # 0 /\ k - 1 \in 0 .. n /\ f[k] = step[k][f[k - 1]]
  BY <1>1, <1>5 DEF IsRun
<1>7. \A k \in 1 .. n : f[k] = PutChar(f[k - 1], string[k])
  BY <1>4, <1>5, <1>6
<1>8. Rec(f)
  <2>1. \A k \in 0 .. n : f[k] = IF k = 0 THEN t ELSE PutChar(f[k - 1], string[k])
    BY <1>6, <1>7
  <2>. QED BY <1>6, <2>1
<1>9. Rec(put)
  BY <1>8
<1> HIDE DEF put
<1>10. put[0] = t /\ \A k \in 1 .. n : put[k] = PutChar(put[k - 1], string[k])
  BY <1>1, <1>6, <1>9
<1>11. Alongside(put, f, n)
  BY <1>6, <1>7, <1>10 DEF Alongside
<1>12. put[n] = f[n]
  <2>1. \A k \in 0 .. n : put[k] = f[k]
    BY <1>1, <1>11, RunsAgree
  <2>. QED BY <1>1, <2>1
<1>. QED BY <1>1, <1>2, <1>5, <1>12

(* The words of a line are strings of its characters.                      *)
LEMMA WordsAre ==
  ASSUME NEW S, NEW s \in Seq(S)
  PROVE  Words(s) \in Seq(Seq(S)) /\ Len(Words(s)) \in Nat
<1> DEFINE n == Len(s)
           m == Cardinality(Begins(s))
           b(k) == CHOOSE begin \in Begins(s) : Upto(s, begin) = k
           word(k) == SubSeq(s, b(k), EndOf(s, b(k)))
<1>1. n \in Nat /\ DOMAIN s = 1 .. n /\ \A k \in 1 .. n : s[k] \in S
  OBVIOUS
<1>2. m \in Nat
  <2>1. 0 \in Int
    OBVIOUS
  <2>. QED BY <2>1, UptoIs
<1>3. Words(s) = [k \in 1 .. m |-> word(k)]
  BY DEF Words
<1>4. Begins(s) \subseteq 1 .. n
  BY <1>1 DEF Begins
<1> HIDE DEF n
<1>5. Upto(s, n) = m /\ Upto(s, 0) = 0
  <2>1. {c \in Begins(s) : c <= n} = Begins(s) /\ {c \in Begins(s) : c <= 0} = {}
    BY <1>1, <1>4
  <2>. QED BY <2>1, FS_EmptySet DEF Upto
<1> HIDE DEF m
<1>6. ASSUME NEW k \in 1 .. m PROVE \E begin \in Begins(s) : Upto(s, begin) = k
  <2> DEFINE Q == {p \in 0 .. n : Upto(s, p) >= k}
             least == Min(Q)
  <2>1. n \in Q /\ Q \subseteq Nat
    BY <1>1, <1>2, <1>5
  <2>2. Q # {}
    BY <2>1
  <2>3. least \in Q /\ \A p \in Q : least <= p
    BY <2>1, <2>2, Smallest
  <2> HIDE DEF least
  <2>4. least \in 0 .. n /\ Upto(s, least) >= k
    BY <2>3
  <2>5. least # 0
    BY <1>2, <1>5, <2>4
  <2> DEFINE q == least - 1
  <2>6. least \in Nat /\ q \in 0 .. n /\ q \in Int /\ q < least /\ ~(least <= q) /\ q + 1 = least
        /\ least \in Int /\ q <= least
    BY <1>1, <2>4, <2>5
  <2> HIDE DEF q
  <2>7. ~(Upto(s, q) >= k)
    BY <2>3, <2>6
  <2>8. Upto(s, q) \in Nat /\ Upto(s, least) \in Nat
    BY <2>6, UptoIs
  <2>9. least \in Begins(s)
    <3> SUFFICES ASSUME least \notin Begins(s) PROVE FALSE
      OBVIOUS
    <3>1. \A c \in q + 1 .. least : c \notin Begins(s)
      BY <2>6
    <3>2. Begins(s) \subseteq Nat
      BY <1>4
    <3>3. Upto(s, least) = Upto(s, q)
      BY <2>6, <3>1, <3>2, UptoRests
    <3>. QED BY <2>4, <2>7, <3>3
  <2>10. \A c \in q + 1 .. least - 1 : c \notin Begins(s)
    BY <2>6
  <2>11. Upto(s, least) = Upto(s, q) + 1
    BY <2>6, <2>9, <2>10, UptoGrows
  <2>12. Upto(s, least) = k
    BY <1>2, <2>4, <2>7, <2>8, <2>11
  <2>. QED BY <2>9, <2>12
<1>7. ASSUME NEW k \in 1 .. m PROVE word(k) \in Seq(S)
  <2> DEFINE c == b(k)
             e == EndOf(s, c)
  <2>1. c \in Begins(s)
    BY <1>6
  <2> HIDE DEF c
  <2>2. \E f \in DOMAIN s : WordAt(s, c, f)
    BY <2>1 DEF Begins
  <2>3. e \in 1 .. n /\ c \in 1 .. n
    BY <1>1, <1>4, <2>1, <2>2 DEF EndOf
  <2> HIDE DEF e
  <2>4. c \in Int /\ e \in Int /\ \A j \in c .. e : s[j] \in S
    BY <1>1, <2>3
  <2>5. SubSeq(s, c, e) \in Seq(S)
    BY <2>4, SubSeqProperties
  <2>. QED BY <2>5 DEF c, e
<1> DEFINE W == Seq(S)
<1> HIDE DEF word, W
<1>8. [k \in 1 .. m |-> word(k)] \in [1 .. m -> W]
  BY <1>7 DEF W
<1>9. Words(s) \in [1 .. m -> W]
  BY <1>3, <1>8
<1>10. Words(s) \in Seq(W) /\ Len(Words(s)) = m
  BY <1>2, <1>9, ListOfLen
<1>. QED BY <1>2, <1>10 DEF W

(* echo prints nothing but strings either.                                 *)
LEMMA EchoKeeps ==
  ASSUME NEW t \in Good, NEW S, NEW args \in Seq(Seq(S)), args # <<>>
  PROVE  Echoed(t, args) \in Good
<1> DEFINE n == Len(args) - 1
           After(u, k) == IF k < Len(args) - 1 THEN PutChar(u, BLANK) ELSE u
           step == [k \in 1 .. n |-> [u \in Good |-> After(Put(u, args[k + 1]), k)]]
           Rec(g) == g = [k \in 0 .. n |-> IF k = 0 THEN t
                                           ELSE After(Put(g[k - 1], args[k + 1]), k)]
           echoed == CHOOSE g : Rec(g)
<1>1. n \in Nat /\ \A k \in 1 .. n : args[k + 1] \in Seq(S)
  BY EmptySeq
<1>2. Echoed(t, args) = PutChar(echoed[n], "LF")
  BY DEF Echoed
<1>3. ASSUME NEW k \in 1 .. n, NEW u \in Good PROVE After(Put(u, args[k + 1]), k) \in Good
  <2>1. Put(u, args[k + 1]) \in Good
    BY <1>1, PutKeeps
  <2>. QED BY <2>1, PutCharKeeps
<1> HIDE DEF n, After
<1>4. step \in [1 .. n -> [Good -> Good]]
  BY <1>3
<1>5. \A k \in 1 .. n, u \in Good : step[k][u] = After(Put(u, args[k + 1]), k)
  OBVIOUS
<1> HIDE DEF step
<1>6. PICK f \in [0 .. n -> Good] : IsRun(f, t, step, n)
  BY ONLY <1>1, <1>4, t \in Good, LoopRuns
<1>7. /\ DOMAIN f = 0 .. n /\ f[0] = t
      /\ \A k \in 1 .. n : k \in 0 .. n /\ k # 0 /\ k - 1 \in 0 .. n /\ f[k] = step[k][f[k - 1]]
  BY <1>1, <1>6 DEF IsRun
<1>8. \A k \in 1 .. n : f[k] = After(Put(f[k - 1], args[k + 1]), k)
  BY <1>5, <1>6, <1>7
<1>9. Rec(f)
  <2>1. \A k \in 0 .. n : f[k] = IF k = 0 THEN t ELSE After(Put(f[k - 1], args[k + 1]), k)
    BY <1>7, <1>8
  <2>. QED BY <1>7, <2>1
<1>10. Rec(echoed)
  BY <1>9
<1> HIDE DEF echoed
<1>11. echoed[0] = t /\ \A k \in 1 .. n : echoed[k] = After(Put(echoed[k - 1], args[k + 1]), k)
  BY <1>1, <1>7, <1>10
<1>12. Alongside(echoed, f, n)
  BY <1>7, <1>8, <1>11 DEF Alongside
<1>13. echoed[n] = f[n]
  <2>1. \A k \in 0 .. n : echoed[k] = f[k]
    BY <1>1, <1>12, RunsAgree
  <2>. QED BY <1>1, <2>1
<1>14. f[n] \in Good
  BY <1>1, <1>6
<1>. QED BY <1>2, <1>13, <1>14, PutCharKeeps

LEMMA TypedIs ==
  ASSUME NEW t \in Good, NEW input \in Lines, NEW history \in Seq(Lines), NEW index \in Nat,
         index <= Len(history), Len(history) <= HISTORY_SIZE
  PROVE  [t EXCEPT !.input = input, !.history = history, !.index = index] \in Good
<1> DEFINE u == [t EXCEPT !.input = input, !.history = history, !.index = index]
           A == Seq(Lines)
           Y == 0 .. TERMINAL_HEIGHT - 1
<1>0. history \in A
  OBVIOUS
<1>1. t \in Screens /\ OnScreen(t)
  BY DEF Good
<1> HIDE DEF A, Y
<1>2. t \in [ink : Inks, x : Nat, y : Y, lost : BOOLEAN, edged : BOOLEAN,
              input : Lines, history : A, index : Nat, bash : BOOLEAN]
  BY <1>1 DEF Screens, A, Y
<1>4. u \in [ink : Inks, x : Nat, y : Y, lost : BOOLEAN, edged : BOOLEAN,
              input : Lines, history : A, index : Nat, bash : BOOLEAN]
  BY <1>0, <1>2
<1>5. u \in Screens
  BY <1>4 DEF Screens, A, Y
<1>6. /\ u.edged = t.edged /\ u.lost = t.lost /\ u.x = t.x /\ u.index = index
      /\ u.history = history
  BY <1>2
<1> HIDE DEF u
<1>7. OnScreen(u)
  BY <1>1, <1>6 DEF OnScreen
<1>8. HistoryFits(u)
  BY <1>6 DEF HistoryFits
<1>. QED BY <1>5, <1>7, <1>8 DEF Good, u

LEMMA OutputIs ==
  ASSUME NEW args \in Seq(Seq(Characters)), args # <<>>
  PROVE  Output(args) \in Seq(Characters \cup {"x", "LF"})
<1> DEFINE T == Characters \cup {"x", "LF"}
           first == args[1]
           lines == [k \in 1 .. 2 * HELP |-> IF k % 2 = 1 THEN "x" ELSE "LF"]
<1>1. first \in Seq(Characters)
  BY EmptySeq
<1>2. "x" \in T /\ "LF" \in T /\ Characters \subseteq T
  OBVIOUS
<1> HIDE DEF T, first
<1>3. lines \in Seq(T)
  <2>1. 2 * HELP \in Nat
    BY TerminalAssumption
  <2>2. lines \in [1 .. 2 * HELP -> T]
    BY <1>2
  <2>. QED BY <2>1, <2>2, ListOfLen
<1>4. <<"x", "LF">> \in Seq(T)
  BY <1>2
<1>5. <<"x">> \o first \o <<"LF">> \in Seq(T)
  <2>1. first \in Seq(T) /\ <<"x">> \in Seq(T) /\ <<"LF">> \in Seq(T)
    BY <1>1, <1>2
  <2>. QED BY <2>1
<1> HIDE DEF lines
<1>. QED BY <1>3, <1>4, <1>5 DEF Output, first, lines, T

LEMMA ProcessKeeps ==
  ASSUME NEW t \in Good, NEW line \in Lines
  PROVE  Processed(t, line) \in Good
<1> DEFINE words == Words(line)
           n == IF Len(words) < MAX_ARGS THEN Len(words) ELSE MAX_ARGS
           args == SubSeq(words, 1, n)
           u == IF Len(t.history) < HISTORY_SIZE THEN [t EXCEPT !.history = Append(@, line)] ELSE t
           S == Seq(Characters)
<1>1. t \in Screens /\ HistoryFits(t)
  BY DEF Good
<1>2. /\ t.input \in Lines /\ t.history \in Seq(Lines) /\ t.index \in Nat
  BY <1>1, FieldsAre
<1>3. u \in Good
  <2> DEFINE history == Append(t.history, line)
  <2>1. CASE Len(t.history) < HISTORY_SIZE
    <3>1. history \in Seq(Lines) /\ Len(history) = Len(t.history) + 1
      BY <1>2, Appended
    <3>2. Len(t.history) \in Nat /\ HISTORY_SIZE \in Nat
      BY <1>2, TerminalAssumption
    <3>3. u = [t EXCEPT !.history = history]
      BY <2>1
    <3> HIDE DEF history, u
    <3>4. t.index <= Len(history) /\ Len(history) <= HISTORY_SIZE
      BY <1>1, <1>2, <2>1, <3>1, <3>2 DEF HistoryFits
    <3>5. [t EXCEPT !.input = t.input, !.history = history, !.index = t.index] \in Good
      BY ONLY t \in Good, <1>2, <3>1, <3>4, TypedIs
    <3>6. [t EXCEPT !.input = t.input, !.history = history, !.index = t.index]
            = [t EXCEPT !.history = history]
      BY <1>1 DEF Screens
    <3>. QED BY <3>3, <3>5, <3>6
  <2>2. CASE ~(Len(t.history) < HISTORY_SIZE)
    BY <2>2
  <2>. QED BY <2>1, <2>2
<1>4. args \in Seq(S)
  <2>1. words \in Seq(S) /\ Len(words) \in Nat
    <3>1. line \in Seq(Characters)
      BY DEF Lines
    <3>. QED BY <3>1, WordsAre
  <2>2. MAX_ARGS \in Nat
    BY TerminalAssumption
  <2> HIDE DEF words, S
  <2>3. n \in Nat /\ n <= Len(words)
    BY <2>1, <2>2
  <2> HIDE DEF n
  <2>4. \A k \in 1 .. n : words[k] \in S
    BY <2>1, <2>3
  <2>. QED BY <2>3, <2>4, SubSeqProperties
<1>5. Processed(t, line) =
        IF args = <<>> THEN u
        ELSE IF args[1] = <<"c">> THEN [u EXCEPT !.ink = {}, !.x = 0, !.y = 0]
        ELSE IF args[1] = <<"e">> THEN Echoed(u, args)
        ELSE Put(u, Output(args))
  BY DEF Processed
<1> HIDE DEF u, args
<1>6. [u EXCEPT !.ink = {}, !.x = 0, !.y = 0] \in Good
  <2>1. u \in Screens /\ HistoryFits(u) /\ OnScreen(u)
    BY <1>3 DEF Good
  <2>2. {} \in Inks /\ 0 \in Nat /\ 0 \in 0 .. TERMINAL_HEIGHT - 1
    BY ScreenIs DEF Inks
  <2>3. u.edged \/ (0 < TERMINAL_WIDTH /\ ~u.lost)
    BY <2>1, ScreenIs DEF OnScreen
  <2>4. Moved(u, {}, 0, 0) \in Good
    BY ONLY <2>1, <2>2, <2>3, MovedIs
  <2>. QED BY <2>4 DEF Moved
<1>7. args # <<>> => Echoed(u, args) \in Good
  BY <1>3, <1>4, EchoKeeps
<1>8. args # <<>> => Put(u, Output(args)) \in Good
  BY <1>3, <1>4, OutputIs, PutKeeps
<1>. QED BY <1>3, <1>5, <1>6, <1>7, <1>8

LEMMA PromptKeeps ==
  ASSUME NEW t \in Good
  PROVE  Prompted(t) \in Good
<1> DEFINE n == PROMPT[t.bash]
           X == {"x"}
           string == Repeat(n, "x")
<1>1. n \in Nat
  <2>1. t.bash \in BOOLEAN
    BY FieldsAre DEF Good
  <2>. QED BY <2>1, TerminalAssumption
<1> HIDE DEF n
<1>2. string \in [1 .. n -> X]
  BY DEF Repeat
<1>3. string \in Seq(X)
  BY <1>1, <1>2, ListOfLen
<1>4. Put(t, string) \in Good
  BY <1>3, PutKeeps
<1>. QED BY <1>4 DEF Prompted, n

LEMMA NothingTyped == <<>> \in Lines
BY TerminalAssumption DEF Lines

LEMMA StartIsGood ==
  ASSUME NEW bash \in BOOLEAN
  PROVE  TermStart(bash) \in Good
<1> DEFINE t == Blank(bash)
           A == Seq(Lines)
           Y == 0 .. TERMINAL_HEIGHT - 1
           X == {"x", "LF"}
           string == <<"x", "LF", "x", "LF", "x", "LF", "LF">>
<1>1. {} \in Inks /\ 0 \in Y /\ 0 < TERMINAL_WIDTH
  BY ScreenIs DEF Inks
<1>2. <<>> \in A /\ <<>> \in Lines /\ Len(<<>>) = 0 /\ 0 <= HISTORY_SIZE
  BY NothingTyped, TerminalAssumption
<1> HIDE DEF A, Y
<1>3. t \in [ink : Inks, x : Nat, y : Y, lost : BOOLEAN, edged : BOOLEAN,
              input : Lines, history : A, index : Nat, bash : BOOLEAN]
  BY <1>1, <1>2 DEF Blank
<1>4. t \in Screens
  BY <1>3 DEF Screens, A, Y
<1>5. OnScreen(t) /\ HistoryFits(t)
  BY <1>1, <1>2 DEF OnScreen, Blank, HistoryFits
<1>6. t \in Good
  BY <1>4, <1>5 DEF Good
<1> HIDE DEF t
<1>7. string \in Seq(X)
  OBVIOUS
<1> HIDE DEF string, X
<1>8. Put(t, string) \in Good
  BY <1>6, <1>7, PutKeeps
<1>9. Prompted(Put(t, string)) \in Good
  BY <1>8, PromptKeeps
<1>. QED BY <1>9 DEF TermStart, t, string

LEMMA HandledKeeps ==
  ASSUME NEW t \in Good, Handled(t)
  PROVE  term' \in Good
BY DEF Handled

LEMMA EnterKeeps == term \in Good /\ TermEnter => term' \in Good
<1> SUFFICES ASSUME term \in Good, TermEnter PROVE term' \in Good
  OBVIOUS
<1> DEFINE t == PutChar(term, "LF")
           u == IF term.input = <<>> THEN t ELSE Processed(t, term.input)
           v == [u EXCEPT !.input = <<>>]
<1>1. t \in Good
  BY PutCharKeeps
<1>2. term.input \in Lines
  BY FieldsAre DEF Good
<1>3. u \in Good
  BY <1>1, <1>2, ProcessKeeps
<1>4. Handled(Prompted(v))
  BY DEF TermEnter
<1> HIDE DEF u
<1>5. v \in Good
  <2>1. u \in Screens /\ HistoryFits(u)
    BY <1>3 DEF Good
  <2>2. u.history \in Seq(Lines) /\ u.index \in Nat
    BY <2>1, FieldsAre
  <2>3. u.index <= Len(u.history) /\ Len(u.history) <= HISTORY_SIZE
    BY <2>1 DEF HistoryFits
  <2>4. [u EXCEPT !.input = <<>>, !.history = u.history, !.index = u.index] \in Good
    BY ONLY <1>3, <2>2, <2>3, NothingTyped, TypedIs
  <2>5. [u EXCEPT !.input = <<>>, !.history = u.history, !.index = u.index] = v
    BY <2>1 DEF Screens
  <2>. QED BY <2>4, <2>5
<1> HIDE DEF v
<1>6. Prompted(v) \in Good
  BY <1>5, PromptKeeps
<1>. QED BY <1>4, <1>6, HandledKeeps

(* Every other key changes the line, and some the screen.                  *)
LEMMA LinePut ==
  ASSUME NEW t \in Good, NEW input \in Lines
  PROVE  [t EXCEPT !.input = input] \in Good
<1>1. t \in Screens /\ t.index <= Len(t.history) /\ Len(t.history) <= HISTORY_SIZE
  BY DEF Good, HistoryFits
<1>2. t.history \in Seq(Lines) /\ t.index \in Nat
  BY <1>1, FieldsAre
<1>3. [t EXCEPT !.input = input, !.history = t.history, !.index = t.index] \in Good
  BY ONLY t \in Good, input \in Lines, <1>1, <1>2, TypedIs
<1>4. [t EXCEPT !.input = input, !.history = t.history, !.index = t.index]
        = [t EXCEPT !.input = input]
  BY <1>1 DEF Screens
<1>. QED BY <1>3, <1>4

LEMMA LineRecalled ==
  ASSUME NEW t \in Good, NEW k \in Nat, k <= Len(t.history),
         NEW n \in 1 .. Len(t.history)
  PROVE  [t EXCEPT !.index = k, !.input = t.history[n]] \in Good
<1> DEFINE input == t.history[n]
<1>1. t \in Screens
  BY DEF Good
<1>2. /\ t.history \in Seq(Lines) /\ k \in Nat /\ k <= Len(t.history)
      /\ Len(t.history) <= HISTORY_SIZE
  BY <1>1, FieldsAre DEF Good, HistoryFits
<1>3. input \in Lines
  BY <1>2
<1> HIDE DEF input
<1>4. [t EXCEPT !.input = input, !.history = t.history, !.index = k] \in Good
  BY ONLY t \in Good, <1>2, <1>3, TypedIs
<1>5. [t EXCEPT !.input = input, !.history = t.history, !.index = k]
        = [t EXCEPT !.index = k, !.input = input]
  BY <1>1 DEF Screens
<1>. QED BY <1>4, <1>5 DEF input

LEMMA TermStep == term \in Good /\ [TermNext]_term_vars => term' \in Good
<1> SUFFICES ASSUME term \in Good, [TermNext]_term_vars PROVE term' \in Good
  OBVIOUS
<1>0. term \in Screens /\ term.index <= Len(term.history)
  BY DEF Good, HistoryFits
<1>1. term.input \in Lines /\ term.history \in Seq(Lines) /\ term.index \in Nat
      /\ Len(term.history) \in Nat
  <2>1. term.input \in Lines /\ term.history \in Seq(Lines) /\ term.index \in Nat
    BY <1>0, FieldsAre
  <2>. QED BY <2>1
<1>2. ASSUME NEW bash \in BOOLEAN, TermReset(bash) PROVE term' \in Good
  BY <1>2, StartIsGood DEF TermReset
<1>3. CASE TermEnter
  BY <1>3, EnterKeeps
<1>4. CASE TermBackspace
  <2> DEFINE line == Front(term.input)
  <2>1. line \in Lines
    <3>1. /\ term.input \in Seq(Characters) /\ term.input # <<>>
          /\ Len(term.input) < INPUT_BUFFER_SIZE /\ INPUT_BUFFER_SIZE \in Nat
      BY <1>1, <1>4, TerminalAssumption DEF TermBackspace, Lines
    <3>2. /\ Len(term.input) - 1 \in Int
          /\ \A j \in 1 .. Len(term.input) - 1 : term.input[j] \in Characters
      BY <3>1
    <3>3. /\ SubSeq(term.input, 1, Len(term.input) - 1) \in Seq(Characters)
          /\ Len(SubSeq(term.input, 1, Len(term.input) - 1)) = Len(term.input) - 1
      BY <3>1, <3>2, SubSeqProperties
    <3>. QED BY <3>1, <3>2, <3>3 DEF Lines, Front
  <2>2. Handled(PutChar([term EXCEPT !.input = line], "BS"))
    BY <1>4 DEF TermBackspace
  <2> HIDE DEF line
  <2>3. PutChar([term EXCEPT !.input = line], "BS") \in Good
    BY <2>1, LinePut, PutCharKeeps
  <2>. QED BY <2>2, <2>3, HandledKeeps
<1>5. CASE TermUp
  <2> DEFINE k == term.index - 1
             n == term.index
  <2>1. Handled([term EXCEPT !.index = k, !.input = term.history[n]]) /\ term.index > 0
    BY <1>5 DEF TermUp
  <2>2. k \in Nat /\ k <= Len(term.history) /\ n \in 1 .. Len(term.history)
    BY <1>0, <1>1, <2>1
  <2> HIDE DEF k, n
  <2>3. [term EXCEPT !.index = k, !.input = term.history[n]] \in Good
    BY <2>2, LineRecalled
  <2>. QED BY <2>1, <2>3, HandledKeeps
<1>6. CASE TermDown
  <2> DEFINE k == term.index + 1
             n == term.index + 2
  <2>1. Handled([term EXCEPT !.index = k, !.input = term.history[n]])
        /\ term.index < Len(term.history) - 1
    BY <1>6 DEF TermDown
  <2>2. k \in Nat /\ k <= Len(term.history) /\ n \in 1 .. Len(term.history)
    BY <1>1, <2>1
  <2> HIDE DEF k, n
  <2>3. [term EXCEPT !.index = k, !.input = term.history[n]] \in Good
    BY <2>2, LineRecalled
  <2>. QED BY <2>1, <2>3, HandledKeeps
<1>7. ASSUME NEW key \in Keys, NEW shift \in BOOLEAN, TermType(key, shift)
      PROVE  term' \in Good
  <2> DEFINE c == IF shift THEN Shift(key) ELSE key
             line == Append(term.input, c)
  <2>1. c \in Characters
    BY DEF Shift, Characters
  <2>2. Handled(PutChar([term EXCEPT !.input = line], c))
        /\ Len(term.input) < INPUT_BUFFER_SIZE - 1
    BY <1>7 DEF TermType
  <2> HIDE DEF c
  <2>3. line \in Lines
    <3>1. term.input \in Seq(Characters) /\ INPUT_BUFFER_SIZE \in Nat
      BY <1>1, TerminalAssumption DEF Lines
    <3>2. line \in Seq(Characters) /\ Len(line) = Len(term.input) + 1
      BY <2>1, <3>1, Appended
    <3>. QED BY <2>2, <3>1, <3>2 DEF Lines
  <2> HIDE DEF line
  <2>4. PutChar([term EXCEPT !.input = line], c) \in Good
    BY <2>3, LinePut, PutCharKeeps
  <2>. QED BY <2>2, <2>4, HandledKeeps
<1>8. CASE UNCHANGED term_vars
  BY <1>8 DEF term_vars
<1>. QED BY <1>2, <1>3, <1>4, <1>5, <1>6, <1>7, <1>8 DEF TermNext

TermInv == term \in Good

LEMMA GoodHasTypes == term \in Good => TermTypeOK
<1> SUFFICES ASSUME term \in Good PROVE TermTypeOK
  OBVIOUS
<1>1. term \in Screens /\ HistoryFits(term)
  BY DEF Good
<1>2. /\ term.ink \in Inks /\ term.x \in Nat /\ term.y \in 0 .. TERMINAL_HEIGHT - 1
      /\ term.lost \in BOOLEAN /\ term.edged \in BOOLEAN /\ term.input \in Lines
      /\ term.history \in Seq(Lines) /\ term.index \in Nat /\ term.bash \in BOOLEAN
  BY <1>1, FieldsAre
<1>3. term.ink \subseteq 0 .. CELLS - 1
  BY <1>2 DEF Inks
<1>4. Len(term.history) \in Nat /\ HISTORY_SIZE \in Nat
  BY <1>2, TerminalAssumption
<1>5. Len(term.history) <= HISTORY_SIZE /\ term.index \in 0 .. HISTORY_SIZE
  BY <1>1, <1>2, <1>4 DEF HistoryFits
<1>. QED BY <1>2, <1>3, <1>5 DEF TermTypeOK, Lines

(* Whatever is typed and recalled, the line fits its buffer with the NUL   *)
(* behind it, the history its array, the place in it is one of the array's,*)
(* and ink is found on the screen only.                                    *)
THEOREM TerminalTypes == TermSpec => []TermTypeOK
<1>1. TermInit => TermInv
  BY StartIsGood DEF TermInit, TermInv
<1>2. TermInv /\ [TermNext]_term_vars => TermInv'
  BY TermStep DEF TermInv
<1>3. TermInv => TermTypeOK
  BY GoodHasTypes DEF TermInv
<1>. QED BY <1>1, <1>2, <1>3, PTL DEF TermSpec

LEMMA GoodImplies == term \in Good => ScreenSound
<1> SUFFICES ASSUME term \in Good PROVE ScreenSound
  OBVIOUS
<1>1. CursorOnScreen
  BY DEF Good, OnScreen, CursorOnScreen
<1>2. term.ink \in Inks
  BY FieldsAre DEF Good
<1>3. ScrollKeepsText
  <2>1. SUFFICES ASSUME ~\E i \in 1 .. TERMINAL_HEIGHT - 2 :
                          RowFull(term.ink, i) /\ RowFull(term.ink, i + 1)
                 PROVE  \A i \in 0 .. TERMINAL_HEIGHT - 2 :
                          RowText(Scrolled(term.ink), i) = RowText(term.ink, i + 1)
    BY DEF ScrollKeepsText
  <2>2. \A i \in 1 .. TERMINAL_HEIGHT - 2 : ~TwoFull(term.ink, i)
    BY <2>1 DEF TwoFull
  <2>. QED BY <1>2, <2>2, ScrollMovesText
<1>. QED BY <1>1, <1>3 DEF ScreenSound

(* Until a tab leaves the cursor at the end of a row no character is       *)
(* written behind the screen, and scrolling moves every row's text up, but *)
(* for two full rows that follow each other: for every size of the screen, *)
(* every line typed and every length of the history.                       *)
THEOREM TextStaysOnScreen == TermSpec => []ScreenSound
<1>1. TermInit => TermInv
  BY StartIsGood DEF TermInit, TermInv
<1>2. TermInv /\ [TermNext]_term_vars => TermInv'
  BY TermStep DEF TermInv
<1>3. TermInv => ScreenSound
  BY GoodImplies DEF TermInv
<1>. QED BY <1>1, <1>2, <1>3, PTL DEF TermSpec

-----------------------------------------------------------------------------
(* The text console.  A cell's place in the memory is its row's and its    *)
(* column's.                                                               *)
Rows      == 0 .. VGA_HEIGHT - 1
Columns   == 0 .. VGA_WIDTH - 1
Spot(y, x) == y * VGA_WIDTH + x

LEMMA SpotDistinct ==
  ASSUME NEW x \in Columns, NEW z \in Columns, NEW y \in Nat, NEW v \in Nat,
         Spot(y, x) = Spot(v, z)
  PROVE  y = v /\ x = z
<1>1. VGA_WIDTH \in Nat /\ VGA_WIDTH > 0 /\ x \in Nat /\ z \in Nat
      /\ x < VGA_WIDTH /\ z < VGA_WIDTH
  BY ConsoleAssumption DEF Columns
<1>2. ASSUME NEW a \in Nat, NEW b \in Nat, a < b PROVE a * VGA_WIDTH + VGA_WIDTH <= b * VGA_WIDTH
  <2>1. PICK k \in Nat : b = a + 1 + k
    <3>1. b - a - 1 \in Nat /\ b = a + 1 + (b - a - 1)
      BY <1>2
    <3>. QED BY <3>1
  <2>2. b * VGA_WIDTH = a * VGA_WIDTH + VGA_WIDTH + k * VGA_WIDTH
    BY <1>1, <2>1
  <2>3. k * VGA_WIDTH \in Nat /\ a * VGA_WIDTH \in Nat
    BY <1>1
  <2>. QED BY <1>1, <2>2, <2>3
<1>3. y * VGA_WIDTH \in Nat /\ v * VGA_WIDTH \in Nat
  BY <1>1
<1>4. ~(y < v) /\ ~(v < y)
  BY <1>1, <1>2, <1>3 DEF Spot
<1>5. y = v
  BY <1>4
<1>. QED BY <1>1, <1>3, <1>5 DEF Spot

(* The rows of the display are the memory, and the row below is one width  *)
(* further on.                                                             *)
LEMMA SpotInMemory ==
  ASSUME NEW x \in Columns, NEW y \in Nat
  PROVE  /\ Spot(y, x) \in Nat
         /\ Spot(y, x) \in VgaCells <=> y \in Rows
         /\ Spot(y, x) + VGA_WIDTH = Spot(y + 1, x)
<1>1. VGA_WIDTH \in Nat /\ VGA_WIDTH > 0 /\ VGA_HEIGHT \in Nat /\ VGA_HEIGHT > 0
      /\ x \in Nat /\ x < VGA_WIDTH
  BY ConsoleAssumption DEF Columns
<1>2. y * VGA_WIDTH \in Nat /\ VGA_WIDTH * VGA_HEIGHT \in Nat
  BY <1>1
<1>3. (y + 1) * VGA_WIDTH = y * VGA_WIDTH + VGA_WIDTH
  BY <1>1
<1>4. CASE y \in Rows
  <2>1. PICK k \in Nat : VGA_HEIGHT = y + 1 + k
    <3>1. VGA_HEIGHT - y - 1 \in Nat /\ VGA_HEIGHT = y + 1 + (VGA_HEIGHT - y - 1)
      BY <1>1, <1>4 DEF Rows
    <3>. QED BY <3>1
  <2>2. VGA_WIDTH * VGA_HEIGHT = y * VGA_WIDTH + VGA_WIDTH + k * VGA_WIDTH
    BY <1>1, <2>1
  <2>3. k * VGA_WIDTH \in Nat
    BY <1>1
  <2>4. Spot(y, x) < VGA_WIDTH * VGA_HEIGHT
    BY <1>1, <1>2, <2>2, <2>3 DEF Spot
  <2>. QED BY <1>1, <1>2, <1>3, <1>4, <2>4 DEF Spot, VgaCells
<1>5. CASE y \notin Rows
  <2>1. PICK k \in Nat : y = VGA_HEIGHT + k
    <3>1. y - VGA_HEIGHT \in Nat /\ y = VGA_HEIGHT + (y - VGA_HEIGHT)
      BY <1>1, <1>5 DEF Rows
    <3>. QED BY <3>1
  <2>2. y * VGA_WIDTH = VGA_WIDTH * VGA_HEIGHT + k * VGA_WIDTH
    BY <1>1, <2>1
  <2>3. k * VGA_WIDTH \in Nat
    BY <1>1
  <2>4. ~(Spot(y, x) < VGA_WIDTH * VGA_HEIGHT)
    BY <1>1, <1>2, <2>2, <2>3 DEF Spot
  <2>. QED BY <1>1, <1>2, <1>3, <1>5, <2>4 DEF Spot, VgaCells
<1>. QED BY <1>4, <1>5

(* What a character does on a row does not depend on the row: it goes on   *)
(* to a column of the same row or the next, and writes at most one cell.   *)
Contents == (Colours \cup {CURRENT, BLUE, ALL_ONES}) \X ({"blank"} \cup Chars)
Cells    == Columns \X Contents

LEMMA EffectOnRow ==
  ASSUME NEW x \in Columns, NEW c \in Chars, NEW colour \in Colours
  PROVE  \E nx \in Columns, d \in {0, 1}, cells \in SUBSET Cells :
           /\ cells = {} \/ \E cell \in Cells : cells = {cell}
           /\ \A y \in Nat :
                /\ Effect([x |-> x, y |-> y], c, colour).cells = cells
                /\ RowEnded(Effect([x |-> x, y |-> y], c, colour).at) = [x |-> nx, y |-> y + d]
<1>1. VGA_WIDTH \in Nat /\ VGA_WIDTH > 0 /\ x \in Nat /\ x < VGA_WIDTH /\ 0 \in Columns
      /\ TABSTOP \in Nat /\ TABSTOP > 0
  BY ConsoleAssumption DEF Columns
<1> DEFINE e(y) == Effect([x |-> x, y |-> y], c, colour)
           Goal == \E nx \in Columns, d \in {0, 1}, cells \in SUBSET Cells :
                     /\ cells = {} \/ \E cell \in Cells : cells = {cell}
                     /\ \A y \in Nat :
                          /\ e(y).cells = cells
                          /\ RowEnded(e(y).at) = [x |-> nx, y |-> y + d]
           Same(nx, cells) == \A y \in Nat : e(y) = [at |-> [x |-> nx, y |-> y], cells |-> cells]
           Ends(nx, d, cells) ==
             \A y \in Nat : e(y).cells = cells /\ RowEnded(e(y).at) = [x |-> nx, y |-> y + d]
<1>2. ASSUME NEW nx \in Nat, NEW cells, Same(nx, cells)
      PROVE  IF nx >= VGA_WIDTH THEN Ends(0, 1, cells) ELSE Ends(nx, 0, cells)
  <2> SUFFICES ASSUME NEW y \in Nat
               PROVE  /\ e(y).cells = cells
                      /\ IF nx >= VGA_WIDTH THEN RowEnded(e(y).at) = [x |-> 0, y |-> y + 1]
                                            ELSE RowEnded(e(y).at) = [x |-> nx, y |-> y + 0]
    OBVIOUS
  <2> DEFINE f == e(y)
  <2>1. f = [at |-> [x |-> nx, y |-> y], cells |-> cells]
    BY <1>2
  <2> HIDE DEF f
  <2>2. f.cells = cells /\ f.at = [x |-> nx, y |-> y] /\ f.at.x = nx /\ f.at.y = y
    BY <2>1
  <2>3. y + 0 = y
    OBVIOUS
  <2>4. CASE nx >= VGA_WIDTH
    <3>1. RowEnded(f.at) = [x |-> 0, y |-> y + 1]
      BY <2>2, <2>4 DEF RowEnded
    <3>. QED BY <2>2, <2>4, <3>1 DEF f
  <2>5. CASE ~(nx >= VGA_WIDTH)
    <3>1. RowEnded(f.at) = [x |-> nx, y |-> y]
      BY <2>2, <2>5 DEF RowEnded
    <3>. QED BY <2>2, <2>3, <2>5, <3>1 DEF f
  <2>. QED BY <2>4, <2>5
<1>3. ASSUME NEW nx \in Nat, NEW cells \in SUBSET Cells, Same(nx, cells),
             cells = {} \/ \E cell \in Cells : cells = {cell}
      PROVE  Goal
  <2> HIDE DEF Same, Ends
  <2>1. CASE nx >= VGA_WIDTH
    <3>1. Ends(0, 1, cells)
      BY <1>2, <1>3, <2>1
    <3>. QED BY <1>1, <1>3, <3>1 DEF Ends
  <2>2. CASE ~(nx >= VGA_WIDTH)
    <3>1. Ends(nx, 0, cells)
      BY <1>2, <1>3, <2>2
    <3>2. nx \in Columns
      BY <1>1, <2>2 DEF Columns
    <3>. QED BY <1>3, <3>1, <3>2 DEF Ends
  <2>. QED BY <2>1, <2>2
<1>4. CASE c = "LF"
  <2>1. \A y \in Nat : e(y) = [at |-> [x |-> 0, y |-> y + 1], cells |-> {}]
    BY <1>4 DEF Effect
  <2>2. Ends(0, 1, {})
    <3> SUFFICES ASSUME NEW y \in Nat
                 PROVE  e(y).cells = {} /\ RowEnded(e(y).at) = [x |-> 0, y |-> y + 1]
      OBVIOUS
    <3> DEFINE f == e(y)
    <3>1. f = [at |-> [x |-> 0, y |-> y + 1], cells |-> {}]
      BY <2>1
    <3> HIDE DEF f
    <3>2. f.cells = {} /\ f.at = [x |-> 0, y |-> y + 1] /\ f.at.x = 0
      BY <3>1
    <3>3. RowEnded(f.at) = f.at
      BY <1>1, <3>2 DEF RowEnded
    <3>. QED BY <3>2, <3>3 DEF f
  <2> HIDE DEF Ends
  <2>. QED BY <1>1, <2>2 DEF Ends
<1>5. CASE c = "CR"
  <2>1. Same(0, {})
    BY <1>5 DEF Effect
  <2> HIDE DEF Same
  <2>. QED BY <1>3, <2>1
<1>6. CASE c = "HT"
  <2> DEFINE t == TABSTOP * ((x + TABSTOP) \div TABSTOP)
  <2>1. t \in Nat
    <3>1. (x + TABSTOP) \div TABSTOP \in Nat
      BY <1>1
    <3>. QED BY <1>1, <3>1
  <2>2. Same(t, {})
    BY <1>6 DEF Effect
  <2> HIDE DEF t, Same
  <2>. QED BY <1>3, <2>1, <2>2
<1>7. CASE c = "BS" /\ x = 0
  <2>1. Same(x, {})
    BY <1>7 DEF Effect
  <2> HIDE DEF Same
  <2>. QED BY <1>1, <1>3, <2>1
<1>8. CASE c = "BS" /\ x # 0
  <2> DEFINE cell == <<x - 1, Empty(colour)>>
  <2>1. x - 1 \in Nat /\ cell \in Cells
    BY <1>1, <1>8 DEF Columns, Cells, Contents, Empty
  <2>2. Same(x - 1, {cell})
    BY <1>8 DEF Effect
  <2> HIDE DEF cell, Same
  <2>. QED BY <1>3, <2>1, <2>2
<1>9. CASE c \in {"ascii", "high"}
  <2> DEFINE cell == <<x, Glyph(c, colour)>>
  <2>1. x + 1 \in Nat /\ cell \in Cells
    BY <1>1, <1>9 DEF Cells, Contents, Glyph, Chars
  <2>2. Same(x + 1, {cell})
    BY <1>9 DEF Effect
  <2> HIDE DEF cell, Same
  <2>. QED BY <1>3, <2>1, <2>2
<1>. QED BY <1>4, <1>5, <1>6, <1>7, <1>8, <1>9 DEF Chars

(* A function on 1 .. n is a sequence of that length.                      *)
LEMMA SequenceOfLen ==
  ASSUME NEW S, NEW n \in Nat, NEW s \in [1 .. n -> S]
  PROVE  s \in Seq(S) /\ Len(s) = n
<1>1. s \in Seq(S)
  BY SeqDef
<1>2. DOMAIN s = 1 .. Len(s) /\ DOMAIN s = 1 .. n /\ Len(s) \in Nat
  BY <1>1, LenProperties
<1>. QED BY <1>1, <1>2

(* ShowsTheFoot for any memory v, sheet p and row of the cursor.           *)
Above(p) == IF Len(p) > VGA_HEIGHT THEN Len(p) - VGA_HEIGHT ELSE 0

FootOK(v, p, row) ==
  /\ row = Len(p) - Above(p) - 1
  /\ \A y \in Rows, x \in Columns :
       v[Spot(y, x)] = IF y < Len(p) - Above(p) THEN p[Above(p) + y + 1][x] ELSE Empty(CURRENT)

Sheets == Seq([Columns -> Contents])

ConsoleInv ==
  /\ at \in [x : Columns, y : Rows] /\ pen \in [x : Columns, y : Rows]
  /\ vga \in [VgaCells -> Contents] /\ tainted \in BOOLEAN
  /\ paper \in Sheets /\ Len(paper) > 0
  /\ ~tainted => FootOK(vga, paper, at.y)

(* The cells that print on row r: at most one, with what is in it.         *)
Printed(v, r, cells) ==
  [q \in VgaCells |-> IF \E cell \in cells : q = r * VGA_WIDTH + cell[1]
                      THEN (CHOOSE cell \in cells : TRUE)[2] ELSE v[q]]

PrintedRow(line, cells) ==
  [x \in 0 .. VGA_WIDTH - 1 |->
     IF \E cell \in cells : cell[1] = x THEN (CHOOSE cell \in cells : TRUE)[2] ELSE line[x]]

LEMMA ChosenCell ==
  ASSUME NEW cells \in SUBSET Cells, cells = {} \/ \E cell \in Cells : cells = {cell},
         NEW cell \in cells
  PROVE  /\ (CHOOSE c \in cells : TRUE) = cell
         /\ cell[1] \in Columns /\ cell[2] \in Contents
BY DEF Cells

LEMMA PrintedIs ==
  ASSUME NEW v \in [VgaCells -> Contents], NEW r \in Rows, NEW cells \in SUBSET Cells,
         cells = {} \/ \E cell \in Cells : cells = {cell}
  PROVE  /\ Printed(v, r, cells) \in [VgaCells -> Contents]
         /\ \A y \in Rows, x \in Columns :
              Printed(v, r, cells)[Spot(y, x)] =
                IF y = r /\ \E cell \in cells : cell[1] = x
                THEN (CHOOSE cell \in cells : TRUE)[2] ELSE v[Spot(y, x)]
<1>1. ASSUME NEW q \in VgaCells, \E cell \in cells : q = r * VGA_WIDTH + cell[1]
      PROVE  (CHOOSE cell \in cells : TRUE)[2] \in Contents
  BY <1>1, ChosenCell
<1>2. Printed(v, r, cells) \in [VgaCells -> Contents]
  BY <1>1 DEF Printed
<1>3. ASSUME NEW y \in Rows, NEW x \in Columns
      PROVE  (\E cell \in cells : Spot(y, x) = r * VGA_WIDTH + cell[1])
               <=> (y = r /\ \E cell \in cells : cell[1] = x)
  <2>1. y \in Nat /\ r \in Nat
    BY DEF Rows
  <2>2. \A cell \in cells : cell[1] \in Columns
    BY ChosenCell
  <2>3. \A cell \in cells : r * VGA_WIDTH + cell[1] = Spot(r, cell[1])
    BY DEF Spot
  <2>. QED BY <2>1, <2>2, <2>3, SpotDistinct
<1>4. \A y \in Rows, x \in Columns : Spot(y, x) \in VgaCells
  BY SpotInMemory DEF Rows
<1>. QED BY <1>2, <1>3, <1>4 DEF Printed

LEMMA PrintedRowIs ==
  ASSUME NEW line \in [Columns -> Contents], NEW cells \in SUBSET Cells,
         cells = {} \/ \E cell \in Cells : cells = {cell}
  PROVE  PrintedRow(line, cells) \in [Columns -> Contents]
BY ChosenCell DEF PrintedRow, Columns

LEMMA ScrolledIs ==
  ASSUME NEW m \in [VgaCells -> Contents]
  PROVE  /\ VgaScrolled(m) \in [VgaCells -> Contents]
         /\ \A y \in Rows, x \in Columns :
              VgaScrolled(m)[Spot(y, x)] =
                IF y + 1 \in Rows THEN m[Spot(y + 1, x)] ELSE Empty(CURRENT)
<1>1. Empty(CURRENT) \in Contents
  BY DEF Empty, Contents
<1>2. VgaScrolled(m) \in [VgaCells -> Contents]
  BY <1>1 DEF VgaScrolled
<1>3. ASSUME NEW y \in Rows, NEW x \in Columns
      PROVE  /\ Spot(y, x) \in VgaCells
             /\ Spot(y, x) + VGA_WIDTH = Spot(y + 1, x)
             /\ Spot(y, x) + VGA_WIDTH \in VgaCells <=> y + 1 \in Rows
  <2>1. y \in Nat /\ y + 1 \in Nat
    BY DEF Rows
  <2>. QED BY <2>1, SpotInMemory
<1>. QED BY <1>2, <1>3 DEF VgaScrolled

(* The sheet after a character: its last row rewritten, and a new one when *)
(* the row has ended.                                                      *)
Grown(p, line, d) == [p EXCEPT ![Len(p)] = line] \o [k \in 1 .. d |-> BlankRow]

LEMMA SheetGrows ==
  ASSUME NEW p \in Sheets, Len(p) > 0, NEW line \in [Columns -> Contents], NEW d \in {0, 1},
         NEW q, q = Grown(p, line, d)
  PROVE  /\ q \in Sheets /\ Len(q) = Len(p) + d
         /\ \A k \in 1 .. Len(p) - 1 : q[k] = p[k]
         /\ q[Len(p)] = line
         /\ d = 1 => q[Len(p) + 1] = BlankRow
<1> DEFINE n == Len(p)
           a == [p EXCEPT ![n] = line]
           b == [k \in 1 .. d |-> BlankRow]
           R == [Columns -> Contents]
<1>1. n \in Nat /\ n \in 1 .. n /\ p \in Seq(R) /\ line \in R
  BY DEF Sheets
<1>2. BlankRow \in R
  BY DEF BlankRow, Columns, Empty, Contents
<1>3. d \in Nat /\ b \in [1 .. d -> R]
  BY <1>2
<1> HIDE DEF R, n
<1>4. a \in Seq(R) /\ Len(a) = n /\ \A k \in 1 .. n : a[k] = IF k = n THEN line ELSE p[k]
  BY ONLY <1>1, ExceptSeq DEF n
<1>5. b \in Seq(R) /\ Len(b) = d
  <2> HIDE DEF b
  <2>. QED BY ONLY <1>3, SequenceOfLen
<1>6. d = 1 => b[1] = BlankRow
  OBVIOUS
<1> HIDE DEF a, b
<1>7. /\ a \o b \in Seq(R) /\ Len(a \o b) = Len(a) + Len(b)
      /\ \A k \in 1 .. Len(a) + Len(b) :
           (a \o b)[k] = IF k <= Len(a) THEN a[k] ELSE b[k - Len(a)]
  BY ONLY <1>4, <1>5, ConcatProperties
<1>8. q = a \o b
  BY DEF a, b, n, Grown
<1> DEFINE c == a \o b
<1>9. /\ c \in Seq(R) /\ Len(c) = n + d
      /\ \A k \in 1 .. n + d : c[k] = IF k <= n THEN a[k] ELSE b[k - n]
  BY ONLY <1>4, <1>5, <1>7
<1> HIDE DEF c
<1>10. \A k \in 1 .. n - 1 : c[k] = p[k]
  <2> SUFFICES ASSUME NEW k \in 1 .. n - 1 PROVE c[k] = p[k]
    OBVIOUS
  <2>1. k \in 1 .. n + d /\ k <= n /\ k \in 1 .. n /\ k # n
    BY <1>1, <1>3
  <2>. QED BY <1>4, <1>9, <2>1
<1>11. c[n] = line
  <2>1. n \in 1 .. n + d /\ n <= n
    BY <1>1, <1>3
  <2>. QED BY <1>1, <1>4, <1>9, <2>1
<1>12. d = 1 => c[n + 1] = BlankRow
  <2> SUFFICES ASSUME d = 1 PROVE c[n + 1] = BlankRow
    OBVIOUS
  <2>1. n + 1 \in 1 .. n + d /\ ~(n + 1 <= n) /\ n + 1 - n = 1
    BY <1>1
  <2>2. c[n + 1] = b[n + 1 - n]
    BY ONLY <1>1, <1>3, <1>9, <2>1
  <2>. QED BY ONLY <1>6, <2>1, <2>2, d = 1
<1>. QED BY <1>8, <1>9, <1>10, <1>11, <1>12 DEF c, n, R, Sheets

(* A character keeps the display at the foot of the sheet, scrolled when   *)
(* the cursor would leave it.                                              *)
LEMMA FootFollows ==
  ASSUME NEW v \in [VgaCells -> Contents], NEW p \in Sheets, Len(p) > 0, NEW r \in Rows,
         FootOK(v, p, r), NEW d \in {0, 1}, NEW cells \in SUBSET Cells,
         cells = {} \/ \E cell \in Cells : cells = {cell},
         NEW m, m = Printed(v, r, cells),
         NEW q, q = Grown(p, PrintedRow(p[Len(p)], cells), d)
  PROVE  IF r + d >= VGA_HEIGHT THEN FootOK(VgaScrolled(m), q, VGA_HEIGHT - 1)
                                ELSE FootOK(m, q, r + d)
<1> DEFINE n == Len(p)
           A == Above(p)
           B == Above(q)
           used == Len(q) - Above(q)
           line == PrintedRow(p[n], cells)
           val == (CHOOSE cell \in cells : TRUE)[2]
           Hit(x) == \E cell \in cells : cell[1] = x
<1>1. n \in Nat /\ n > 0 /\ VGA_HEIGHT \in Nat /\ VGA_HEIGHT > 0
  BY ConsoleAssumption DEF Sheets
<1>2. p[n] \in [Columns -> Contents]
  BY <1>1 DEF Sheets
<1>3. /\ m \in [VgaCells -> Contents]
      /\ \A y \in Rows, x \in Columns :
           m[Spot(y, x)] = IF y = r /\ Hit(x) THEN val ELSE v[Spot(y, x)]
  BY PrintedIs
<1>4. line \in [Columns -> Contents] /\ q = Grown(p, line, d)
  BY <1>2, PrintedRowIs
<1>5. \A x \in Columns : line[x] = IF Hit(x) THEN val ELSE p[n][x]
  BY DEF PrintedRow, Columns
<1> HIDE DEF line
<1>6. /\ q \in Sheets /\ Len(q) = n + d
      /\ \A k \in 1 .. n - 1 : q[k] = p[k]
      /\ q[n] = line
      /\ d = 1 => q[n + 1] = BlankRow
  BY ONLY <1>4, SheetGrows, p \in Sheets, Len(p) > 0, d \in {0, 1}
<1>7. \A x \in Columns : BlankRow[x] = Empty(CURRENT)
  BY DEF BlankRow, Columns
<1>8. \A y \in Rows, x \in Columns :
        v[Spot(y, x)] = IF y < n - A THEN p[A + y + 1][x] ELSE Empty(CURRENT)
  BY DEF FootOK
<1>9. r = n - A - 1
  BY DEF FootOK
<1>10. A = IF n > VGA_HEIGHT THEN n - VGA_HEIGHT ELSE 0
  BY DEF Above
<1>11. B = IF n + d > VGA_HEIGHT THEN n + d - VGA_HEIGHT ELSE 0
  <2>1. Len(q) = n + d
    BY <1>6
  <2> HIDE DEF n
  <2>. QED BY ONLY <1>1, <2>1, d \in {0, 1} DEF Above, B
<1>12. used = n + d - B
  <2>1. used = Len(q) - B /\ Len(q) = n + d
    BY ONLY <1>6
  <2> HIDE DEF used, n, B
  <2>2. B \in Nat
    BY ONLY <1>1, <1>11, d \in {0, 1}
  <2>. QED BY ONLY <1>1, <2>1, <2>2, d \in {0, 1}
<1>13. \A y \in Rows : y \in Nat /\ y < VGA_HEIGHT /\ (y + 1 < VGA_HEIGHT => y + 1 \in Rows)
  BY <1>1 DEF Rows
<1> HIDE DEF n, A, B, used, val, Hit
<1>14. A \in Nat /\ r \in Nat /\ r < VGA_HEIGHT
  BY <1>1, <1>10, <1>13
(* The rows of the display that print shows, before any scrolling.         *)
<1>15. ASSUME NEW y \in Rows, NEW x \in Columns
       PROVE  m[Spot(y, x)] = IF y <= r THEN q[A + y + 1][x] ELSE Empty(CURRENT)
  <2>1. y \in Nat
    BY <1>13
  <2>2. CASE y < r
    <3>1. A + y + 1 \in 1 .. n - 1 /\ y < n - A /\ y # r /\ y <= r
      BY <1>1, <1>9, <1>14, <2>1, <2>2
    <3>2. m[Spot(y, x)] = p[A + y + 1][x]
      BY <1>3, <1>8, <3>1
    <3>3. q[A + y + 1] = p[A + y + 1]
      BY <1>6, <3>1
    <3>. QED BY <3>1, <3>2, <3>3
  <2>3. CASE y = r
    <3>1. A + y + 1 = n /\ y < n - A /\ y <= r
      BY <1>1, <1>9, <1>14, <2>1, <2>3
    <3>2. v[Spot(y, x)] = p[n][x]
      BY <1>8, <3>1
    <3>3. m[Spot(y, x)] = line[x]
      BY <1>3, <1>5, <2>3, <3>2
    <3>4. q[A + y + 1] = line
      BY <1>6, <3>1
    <3>. QED BY <3>1, <3>3, <3>4
  <2>4. CASE y > r
    <3>1. ~(y < n - A) /\ y # r /\ ~(y <= r)
      BY <1>1, <1>9, <1>14, <2>1, <2>4
    <3>. QED BY <1>3, <1>8, <3>1
  <2>5. y < r \/ y = r \/ y > r
    BY <1>14, <2>1
  <2>. QED BY <2>2, <2>3, <2>4, <2>5
<1>16. CASE r + d >= VGA_HEIGHT
  <2>1. d = 1 /\ r = VGA_HEIGHT - 1 /\ n = A + VGA_HEIGHT
    BY <1>1, <1>9, <1>14, <1>16
  <2>2. B = A + 1
    BY <1>1, <1>11, <1>14, <2>1
  <2>3. ASSUME NEW y \in Rows, NEW x \in Columns
        PROVE  VgaScrolled(m)[Spot(y, x)] =
                 IF y < used THEN q[B + y + 1][x] ELSE Empty(CURRENT)
    <3>1. VgaScrolled(m)[Spot(y, x)] =
            IF y + 1 \in Rows THEN m[Spot(y + 1, x)] ELSE Empty(CURRENT)
      BY <1>3, ScrolledIs
    <3>2. y \in Nat /\ y < VGA_HEIGHT
      BY <1>13
    <3>3. y < used
      BY <1>1, <1>14, <1>12, <2>1, <2>2, <3>2
    <3>4. CASE y + 1 \in Rows
      <4>1. y + 1 \in Nat /\ y + 1 <= r /\ A + (y + 1) + 1 = B + y + 1
        BY <1>1, <1>13, <1>14, <2>1, <2>2, <3>2, <3>4
      <4>2. m[Spot(y + 1, x)] = q[A + (y + 1) + 1][x]
        BY <1>15, <3>4, <4>1
      <4>. QED BY <3>1, <3>3, <3>4, <4>1, <4>2
    <3>5. CASE y + 1 \notin Rows
      <4>1. B + y + 1 = n + 1
        BY <1>1, <1>13, <1>14, <2>1, <2>2, <3>2, <3>5
      <4>2. q[B + y + 1] = BlankRow
        BY <1>6, <2>1, <4>1
      <4>. QED BY <1>7, <3>1, <3>3, <3>5, <4>2
    <3>. QED BY <3>4, <3>5
  <2>4. VGA_HEIGHT - 1 = used - 1
    BY <1>1, <1>14, <1>12, <2>1, <2>2
  <2>5. FootOK(VgaScrolled(m), q, VGA_HEIGHT - 1)
    BY ONLY <2>3, <2>4 DEF FootOK, used, B
  <2>. QED BY <1>16, <2>5
<1>17. CASE ~(r + d >= VGA_HEIGHT)
  <2>1. B = A /\ n + d - A = r + d + 1
    BY <1>1, <1>9, <1>10, <1>11, <1>14, <1>17
  <2>2. ASSUME NEW y \in Rows, NEW x \in Columns
        PROVE  m[Spot(y, x)] = IF y < used THEN q[B + y + 1][x] ELSE Empty(CURRENT)
    <3>1. m[Spot(y, x)] = IF y <= r THEN q[B + y + 1][x] ELSE Empty(CURRENT)
      BY <1>15, <2>1
    <3>2. y \in Nat
      BY <1>13
    <3>3. CASE y <= r
      <4>1. y < used
        BY <1>1, <1>14, <1>12, <2>1, <3>2, <3>3
      <4>. QED BY <3>1, <3>3, <4>1
    <3>4. CASE ~(y <= r) /\ y < used
      <4>1. d = 1 /\ B + y + 1 = n + 1
        BY <1>1, <1>9, <1>14, <1>12, <2>1, <3>2, <3>4
      <4>2. q[B + y + 1] = BlankRow
        BY <1>6, <4>1
      <4>. QED BY <1>7, <3>1, <3>4, <4>2
    <3>5. CASE ~(y <= r) /\ ~(y < used)
      BY <3>1, <3>5
    <3>. QED BY <3>3, <3>4, <3>5
  <2>3. r + d = used - 1
    BY <1>1, <1>14, <1>12, <2>1
  <2>4. FootOK(m, q, r + d)
    BY ONLY <2>2, <2>3 DEF FootOK, used, B
  <2>. QED BY <1>17, <2>4
<1>. QED BY <1>16, <1>17

LEMMA ConsoleStarts == ConsoleInit => ConsoleInv
<1> SUFFICES ASSUME ConsoleInit PROVE ConsoleInv
  OBVIOUS
<1>1. 0 \in Columns /\ 0 \in Rows
  BY ConsoleAssumption DEF Columns, Rows
<1>2. Empty(BLUE) \in Contents /\ Empty(CURRENT) \in Contents
  BY DEF Empty, Contents
<1>3. BlankRow \in [Columns -> Contents]
  BY <1>2 DEF BlankRow, Columns
<1>4. <<BlankRow>> \in Sheets /\ Len(<<BlankRow>>) > 0
  BY <1>3 DEF Sheets
<1>. QED BY <1>1, <1>2, <1>4 DEF ConsoleInit, ConsoleInv

(* The two clears paint every cell; the driver's also starts a new sheet.  *)
LEMMA ConsoleClears == ConsoleInv /\ (ClearText \/ ClearMain) => ConsoleInv'
<1> SUFFICES ASSUME ConsoleInv, ClearText \/ ClearMain PROVE ConsoleInv'
  OBVIOUS
<1>1. 0 \in Columns /\ 0 \in Rows /\ VGA_HEIGHT \in Nat /\ VGA_HEIGHT > 0
  BY ConsoleAssumption DEF Columns, Rows
<1>2. Empty(BLUE) \in Contents /\ Empty(CURRENT) \in Contents
  BY DEF Empty, Contents
<1>3. CASE ClearMain
  BY <1>2, <1>3 DEF ClearMain, ConsoleInv
<1>4. CASE ClearText
  <2> DEFINE p == <<BlankRow>>
             v == [q \in VgaCells |-> Empty(CURRENT)]
  <2>1. BlankRow \in [Columns -> Contents] /\ \A x \in Columns : BlankRow[x] = Empty(CURRENT)
    BY <1>2 DEF BlankRow, Columns
  <2>2. p \in Sheets /\ Len(p) = 1 /\ p[1] = BlankRow
    BY <2>1 DEF Sheets
  <2>3. \A y \in Rows, x \in Columns : v[Spot(y, x)] = Empty(CURRENT)
    BY SpotInMemory DEF Rows
  <2>4. v \in [VgaCells -> Contents]
    BY <1>2
  <2> HIDE DEF p, v
  <2>5. Above(p) = 0
    BY <1>1, <2>2 DEF Above
  <2>6. ASSUME NEW y \in Rows, NEW x \in Columns
        PROVE  v[Spot(y, x)] = IF y < 1 - 0 THEN p[0 + y + 1][x] ELSE Empty(CURRENT)
    <3>1. y \in Nat
      BY DEF Rows
    <3>2. CASE y < 1 - 0
      <4>1. 0 + y + 1 = 1
        BY <3>1, <3>2
      <4>. QED BY <2>1, <2>2, <2>3, <3>2, <4>1
    <3>. QED BY <2>3, <3>2
  <2>7. FootOK(v, p, 0)
    BY <2>2, <2>5, <2>6 DEF FootOK
  <2>8. vga' = v /\ at' = [x |-> 0, y |-> 0] /\ paper' = p /\ tainted' = FALSE /\ pen' = pen
    BY <1>4 DEF ClearText, p, v
  <2>9. at'.y = 0 /\ at' \in [x : Columns, y : Rows]
    BY <1>1, <2>8
  <2>10. FootOK(vga', paper', at'.y)
    BY <2>7, <2>8, <2>9
  <2>11. pen' \in [x : Columns, y : Rows]
    BY <2>8 DEF ConsoleInv
  <2>12. paper' \in Sheets /\ Len(paper') > 0
    BY <2>2, <2>8
  <2>13. vga' \in [VgaCells -> Contents] /\ tainted' \in BOOLEAN
    BY <2>4, <2>8
  <2>. QED BY ONLY <2>9, <2>10, <2>11, <2>12, <2>13 DEF ConsoleInv
<1>. QED BY <1>3, <1>4

(* The kernel's writer and the characters placed directly: the memory is   *)
(* no longer the driver's alone.                                           *)
LEMMA ConsoleTaints ==
  ASSUME ConsoleInv, NEW c \in Chars, NEW colour \in Colours,
         \/ PutChar_main(c, colour)
         \/ c \in {"ascii", "high"} /\ \E spot \in Spots : PutAt(c, spot[1], spot[2], colour)
  PROVE  ConsoleInv'
<1>1. VGA_WIDTH \in Nat /\ VGA_WIDTH > 0 /\ VGA_HEIGHT \in Nat /\ VGA_HEIGHT > 0
  BY ConsoleAssumption
<1>3. CASE PutChar_main(c, colour)
  <2> DEFINE e == IF c = "LF" THEN [x |-> 0, y |-> pen.y + 1]
                  ELSE RowEnded([pen EXCEPT !.x = @ + 1])
  <2>1. pen \in [x : Columns, y : Rows] /\ pen.x \in Columns /\ pen.y \in Rows
    BY DEF ConsoleInv
  <2>2. e \in [x : Columns, y : Nat]
    BY <1>1, <2>1 DEF RowEnded, Columns, Rows
  <2>3. pen' = [e EXCEPT !.y = @ % VGA_HEIGHT]
    BY <1>3 DEF PutChar_main
  <2> HIDE DEF e
  <2>4. e.y % VGA_HEIGHT \in Rows
    BY <1>1, <2>2 DEF Rows
  <2>5. pen' \in [x : Columns, y : Rows]
    BY <2>2, <2>3, <2>4
  <2>6. vga' \in [VgaCells -> Contents]
    <3>1. Glyph(c, colour) \in Contents
      BY DEF Glyph, Contents
    <3>. QED BY <1>3, <3>1 DEF PutChar_main, ConsoleInv
  <2>7. at' = at /\ paper' = paper /\ tainted' = TRUE
    BY <1>3 DEF PutChar_main
  <2>. QED BY <2>5, <2>6, <2>7 DEF ConsoleInv
<1>4. CASE c \in {"ascii", "high"} /\ \E spot \in Spots : PutAt(c, spot[1], spot[2], colour)
  <2>1. Glyph(c, colour) \in Contents
    BY <1>4 DEF Glyph, Contents
  <2>. QED BY <1>4, <2>1 DEF PutAt, ConsoleInv
<1>. QED BY <1>3, <1>4

LEMMA ConsolePrints ==
  ASSUME ConsoleInv, NEW c \in Chars, NEW colour \in Colours, PutText(c, colour)
  PROVE  ConsoleInv'
<1>1. VGA_HEIGHT \in Nat /\ VGA_HEIGHT > 0
  BY ConsoleAssumption
<1>2. at \in [x : Columns, y : Rows] /\ at = [x |-> at.x, y |-> at.y]
      /\ at.x \in Columns /\ at.y \in Rows /\ at.y \in Nat
  BY DEF ConsoleInv, Rows
<1>3. PICK nx \in Columns, d \in {0, 1}, cells \in SUBSET Cells :
        /\ cells = {} \/ \E cell \in Cells : cells = {cell}
        /\ \A y \in Nat :
             /\ Effect([x |-> at.x, y |-> y], c, colour).cells = cells
             /\ RowEnded(Effect([x |-> at.x, y |-> y], c, colour).at) = [x |-> nx, y |-> y + d]
  BY <1>2, EffectOnRow
<1> DEFINE m == Printed(vga, at.y, cells)
           line == PrintedRow(paper[Len(paper)], cells)
           q == Grown(paper, line, d)
           below == [x |-> nx, y |-> at.y + d]
<1>4. Effect(at, c, colour).cells = cells /\ RowEnded(Effect(at, c, colour).at) = below
  BY <1>2, <1>3
<1>5. Effect([x |-> at.x, y |-> 0], c, colour).cells = cells
      /\ RowEnded(Effect([x |-> at.x, y |-> 0], c, colour).at).y = d
  <2>1. /\ Effect([x |-> at.x, y |-> 0], c, colour).cells = cells
        /\ RowEnded(Effect([x |-> at.x, y |-> 0], c, colour).at) = [x |-> nx, y |-> 0 + d]
    BY <1>3
  <2>. QED BY <2>1
<1>6. vga' = IF below.y >= VGA_HEIGHT THEN VgaScrolled(m) ELSE m
  BY <1>4 DEF PutText, Printed
<1>7. at' = IF below.y >= VGA_HEIGHT THEN [below EXCEPT !.y = VGA_HEIGHT - 1] ELSE below
  BY <1>4 DEF PutText
<1>8. paper' = q
  BY <1>5 DEF PutText, OnPaper, PrintedRow, Grown
<1>9. UNCHANGED <<pen, tainted>>
  BY DEF PutText
<1>10. paper \in Sheets /\ Len(paper) > 0 /\ paper[Len(paper)] \in [Columns -> Contents]
  BY DEF ConsoleInv, Sheets
<1>11. vga \in [VgaCells -> Contents]
  BY DEF ConsoleInv
<1>12. line \in [Columns -> Contents]
  BY <1>3, <1>10, PrintedRowIs
<1> HIDE DEF line
<1>13. q \in Sheets /\ Len(q) > 0
  <2>1. q \in Sheets /\ Len(q) = Len(paper) + d
    BY <1>10, <1>12, SheetGrows
  <2>2. Len(paper) \in Nat
    BY <1>10 DEF Sheets
  <2> HIDE DEF q
  <2>. QED BY <1>10, <2>1, <2>2
<1>14. m \in [VgaCells -> Contents]
  BY <1>2, <1>3, <1>11, PrintedIs
<1> HIDE DEF m
<1>15. vga' \in [VgaCells -> Contents]
  BY <1>6, <1>14, ScrolledIs
<1>16. at' \in [x : Columns, y : Rows]
       /\ at'.y = IF at.y + d >= VGA_HEIGHT THEN VGA_HEIGHT - 1 ELSE at.y + d
  <2>1. at.y + d \in Nat /\ VGA_HEIGHT - 1 \in Rows
        /\ (~(at.y + d >= VGA_HEIGHT) => at.y + d \in Rows)
    BY <1>1, <1>2 DEF Rows
  <2>. QED BY <1>7, <2>1
<1>17. ~tainted => FootOK(vga', q, at'.y)
  <2> SUFFICES ASSUME ~tainted PROVE FootOK(vga', q, at'.y)
    OBVIOUS
  <2>1. FootOK(vga, paper, at.y)
    BY DEF ConsoleInv
  <2>2. IF at.y + d >= VGA_HEIGHT THEN FootOK(VgaScrolled(m), q, VGA_HEIGHT - 1)
                                  ELSE FootOK(m, q, at.y + d)
    BY <1>2, <1>3, <1>10, <1>11, <2>1, FootFollows DEF m, line
  <2>. QED BY <1>6, <1>16, <2>2
<1>. QED BY <1>8, <1>9, <1>13, <1>15, <1>16, <1>17 DEF ConsoleInv

LEMMA ConsoleStep == ConsoleInv /\ [ConsoleNext]_console_vars => ConsoleInv'
<1> SUFFICES ASSUME ConsoleInv, [ConsoleNext]_console_vars PROVE ConsoleInv'
  OBVIOUS
<1>1. CASE \E c \in Chars, colour \in Colours : PutText(c, colour)
  BY <1>1, ConsolePrints
<1>2. CASE \E c \in Chars, colour \in Colours : PutChar_main(c, colour)
  BY <1>2, ConsoleTaints
<1>3. CASE \E c \in {"ascii", "high"}, colour \in Colours, spot \in Spots :
             PutAt(c, spot[1], spot[2], colour)
  BY <1>3, ConsoleTaints DEF Chars
<1>4. CASE ClearText \/ ClearMain
  BY <1>4, ConsoleClears
<1>5. CASE UNCHANGED console_vars
  BY <1>5 DEF console_vars, ConsoleInv
<1>. QED BY <1>1, <1>2, <1>3, <1>4, <1>5 DEF ConsoleNext

LEMMA ConsoleInvImplies == ConsoleInv => ConsoleTypeOK /\ ShowsTheFoot
<1> SUFFICES ASSUME ConsoleInv PROVE ConsoleTypeOK /\ ShowsTheFoot
  OBVIOUS
<1>1. ConsoleTypeOK
  BY DEF ConsoleInv, ConsoleTypeOK, Columns, Rows
<1>2. ShowsTheFoot
  BY DEF ConsoleInv, FootOK, ShowsTheFoot, Above, Rows, Columns, Spot
<1>. QED BY <1>1, <1>2

(* As long as the driver alone writes the text memory, the display shows   *)
(* the foot of what was printed since it was cleared, for every size of    *)
(* the display and of the tab stop; and both cursors stay on it.           *)
THEOREM DisplayShowsTheFoot == ConsoleSpec => [](ConsoleTypeOK /\ ShowsTheFoot)
BY ConsoleStarts, ConsoleStep, ConsoleInvImplies, PTL DEF ConsoleSpec
=============================================================================
