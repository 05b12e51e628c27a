------------------------------- MODULE Strings -------------------------------
(***************************************************************************)
(* What the rest of the system takes from kernel/string.c and              *)
(* kernel/printf.c: strtok, which keeps its place between calls and cuts   *)
(* the caller's string, and the conversions behind sprintf.  A string is a *)
(* sequence of characters without its final NUL; a NUL that strtok writes  *)
(* is a character of its own.  What sprintf prints is a sequence of digits,*)
(* each a number, letters being digits too.                                *)
(***************************************************************************)
EXTENDS Integers, Sequences, FiniteSets, SequencesExt

CONSTANTS
  INTS,      \* how many values an int has                           (2^32)
  Base,      \* the base of %d and %u                                   (10)
  Base16,    \* the base of %x and %p                                   (16)
  Sources    \* the strings that callers split

ASSUME StringsAssumption ==
  /\ INTS \in Nat \ {0} /\ INTS % 2 = 0
  /\ Base \in Nat /\ Base > 1 /\ Base16 \in Nat /\ Base16 > 1

NUL    == "NUL"
BLANK  == "SP"                  \* the one delimiter in use
ABSENT == 0                     \* a null pointer
MINUS  == -1                    \* the sign
LETTER_X == 33

ASSUME SourcesAssumption == \A s \in Sources : s \in Seq(ToSet(s) \ {NUL})

VARIABLES
  source,     \* the string last given to strtok, as it was then
  text,       \* the same array as it is now
  last_token, \* strtok's static pointer: a place in the array
  tokens,     \* what strtok returned for it, NULL at the end included
  printed     \* the last conversion sprintf made: its kind, the argument's
              \* bits and the characters

strings_vars == <<source, text, last_token, tokens, printed>>

StringsInit ==
  /\ source = <<>> /\ text = <<>> /\ last_token = ABSENT /\ tokens = <<>>
  /\ printed = [kind |-> "u", bits |-> 0, chars |-> <<0>>]

-----------------------------------------------------------------------------
(* Operators named Bug_* are mutants of the definition that follows them.  *)

(* The array's character at a place; behind its end lies the final NUL.    *)
At(s, p) == IF p \in DOMAIN s THEN s[p] ELSE NUL

(* The first place from p on whose character is, or is not, a delimiter;   *)
(* either walk ends at a NUL.                                              *)
SkipBlanks(s, p) ==
  CHOOSE q \in p .. Len(s) + 1 : At(s, q) # BLANK /\ \A r \in p .. q - 1 : s[r] = BLANK
TokenEnd(s, p) ==
  CHOOSE q \in p .. Len(s) + 1 :
    At(s, q) \in {BLANK, NUL} /\ \A r \in p .. q - 1 : s[r] \notin {BLANK, NUL}

(* One call of strtok that begins at place p: what it returns, where it    *)
(* stops and the array it leaves.                                          *)
Bug_StrTok(s, p) ==
  LET b == SkipBlanks(s, p)
      e == TokenEnd(s, b)
  IN  IF At(s, b) = NUL
      THEN [token |-> <<>>, place |-> b, array |-> s]
      ELSE [token |-> SubSeq(s, b, e - 1), place |-> e,
            array |-> IF At(s, e) = BLANK THEN [s EXCEPT ![e] = NUL] ELSE s]

StrTok(s, p) ==
  LET b == SkipBlanks(s, p)
      e == TokenEnd(s, b)
  IN  IF At(s, b) = NUL
      THEN [token |-> <<>>, place |-> b, array |-> s]
      ELSE IF At(s, e) = BLANK
           THEN [token |-> SubSeq(s, b, e - 1), place |-> e + 1, array |-> [s EXCEPT ![e] = NUL]]
           ELSE [token |-> SubSeq(s, b, e - 1), place |-> e, array |-> s]

(* strtok(str, " ").                                                       *)
FirstToken(s) ==
  LET call == StrTok(s, 1)
  IN  /\ source' = s /\ text' = call.array /\ last_token' = call.place
      /\ tokens' = <<call.token>>
      /\ UNCHANGED printed

(* strtok(NULL, " "); what it returns after the end is no news.            *)
NextToken ==
  /\ last_token # ABSENT /\ Len(tokens) <= Len(source)
  /\ LET call == StrTok(text, last_token)
     IN  /\ text' = call.array /\ last_token' = call.place
         /\ tokens' = Append(tokens, call.token)
  /\ UNCHANGED <<source, printed>>

-----------------------------------------------------------------------------
Signed(bits) == IF bits < INTS \div 2 THEN bits ELSE bits - INTS

(* The conversion loop puts down the last digit and goes on with the       *)
(* quotient, unless it is 0; then the digits are reversed.                 *)
DigitsOf(v, b) ==
  LET digits[n \in 0 .. v] == IF n < b THEN <<n>> ELSE Append(digits[n \div b], n % b)
  IN  digits[v]

(* C's division rounds towards zero.                                       *)
Negated(digits) == [k \in DOMAIN digits |-> -digits[k]]
Digits(v, b) == IF v >= 0 THEN DigitsOf(v, b) ELSE Negated(DigitsOf(-v, b))

Utoa(bits, b) == Digits(bits, b)

(* The sign is put down, the value is not negated.                         *)
Bug_Itoa(value, b) == IF value < 0 THEN <<MINUS>> \o Digits(value, b) ELSE Digits(value, b)

(* itoa: the negation wraps, the least int stays what it is.               *)
Itoa(value, b) ==
  IF value < 0 /\ b = Base
  THEN <<MINUS>> \o Digits(Signed((-value) % INTS), b)
  ELSE Digits(value, b)

(* The directives of sprintf that convert a number.                        *)
Converted(kind, bits) ==
  CASE kind \in {"d", "i"} -> Itoa(Signed(bits), Base)
    [] kind = "u" -> Utoa(bits, Base)
    [] kind = "x" -> Utoa(bits, Base16)
    [] kind = "p" -> <<0, LETTER_X>> \o Utoa(bits, Base16)

Sprintf(kind, bits) ==
  /\ printed' = [kind |-> kind, bits |-> bits, chars |-> Converted(kind, bits)]
  /\ UNCHANGED <<source, text, last_token, tokens>>

TokensNext == (\E s \in Sources : FirstToken(s)) \/ NextToken
PrintNext  == \E kind \in {"d", "i", "u", "x", "p"}, bits \in 0 .. INTS - 1 :
                Sprintf(kind, bits)

StringsSpec == StringsInit /\ [][TokensNext \/ PrintNext]_strings_vars

-----------------------------------------------------------------------------
(* The words of a string, the reference: its longest runs without a blank. *)
WordAt(s, b, e) ==
  /\ b <= e /\ \A k \in b .. e : s[k] # BLANK
  /\ b = 1 \/ s[b - 1] = BLANK
  /\ e = Len(s) \/ s[e + 1] = BLANK
Begins(s)   == {b \in DOMAIN s : \E e \in DOMAIN s : WordAt(s, b, e)}
EndOf(s, b) == CHOOSE e \in DOMAIN s : WordAt(s, b, e)
Upto(s, p)  == Cardinality({b \in Begins(s) : b <= p})
Words(s) ==
  [k \in 1 .. Cardinality(Begins(s)) |->
     LET b == CHOOSE begin \in Begins(s) : Upto(s, begin) = k
     IN  SubSeq(s, b, EndOf(s, b))]

(* Call after call strtok hands out the words of the string in their       *)
(* order, each once, then NULL for ever, although it cuts the array it     *)
(* walks and its place is all it remembers.                                *)
TokensAreWords ==
  LET words == Words(source)
  IN  \A k \in DOMAIN tokens : tokens[k] = IF k <= Len(words) THEN words[k] ELSE <<>>

(* The number that a sequence of digits denotes.                           *)
Denotes(digits, b) ==
  LET value[k \in 0 .. Len(digits)] == IF k = 0 THEN 0 ELSE b * value[k - 1] + digits[k]
  IN  value[Len(digits)]
Number(chars, b) ==
  IF chars[1] = MINUS THEN -Denotes(Tail(chars), b) ELSE Denotes(chars, b)

(* What sprintf prints reads back as the argument, for every argument but  *)
(* the least int under %d.                                                 *)
PrintsReadBack ==
  CASE printed.kind \in {"d", "i"} ->
         printed.bits = INTS \div 2 \/ Number(printed.chars, Base) = Signed(printed.bits)
    [] printed.kind = "u" -> Number(printed.chars, Base) = printed.bits
    [] printed.kind = "x" -> Number(printed.chars, Base16) = printed.bits
    [] printed.kind = "p" -> Number(SubSeq(printed.chars, 3, Len(printed.chars)), Base16)
                               = printed.bits

(* Both together.                                                          *)
StringsSound == TokensAreWords /\ PrintsReadBack
=============================================================================
