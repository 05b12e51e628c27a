------------------------------ MODULE Terminal ------------------------------
(***************************************************************************)
(* The terminal, userspace/apps/terminal/terminal.c: its screen, the line  *)
(* being typed and the history.  A cell of the screen holds a character or *)
(* NUL, and which character is left out: term_draw draws every one alike.  *)
(* The rows lie one behind the other, and strcpy runs over their ends.     *)
(*                                                                         *)
(* The commands are letters: "c" clears the screen (clear, cls), "h" fills *)
(* several lines (help, neofetch), "p" prints one (pwd, whoami, uname,     *)
(* date, uptime, exit), "e" prints its arguments (echo), all others are    *)
(* unknown.  The keys typed are bounded by KEYS.                           *)
(***************************************************************************)
EXTENDS Strings

CONSTANTS
  TERMINAL_WIDTH, TERMINAL_HEIGHT,  \* 80 and 25
  TAB,                              \* 8
  INPUT_BUFFER_SIZE, HISTORY_SIZE,  \* 256 and 100
  MAX_ARGS,                         \* 16
  HELP,      \* the lines that "h" prints
  PROMPT,    \* the prompt's length, in bash mode and not
  KEYS       \* bound: keys between two term_init

ASSUME TerminalAssumption ==
  /\ TERMINAL_WIDTH \in Nat /\ TERMINAL_HEIGHT \in Nat \ {0} /\ TAB \in Nat \ {0}
  /\ TERMINAL_WIDTH % TAB = 0 /\ TERMINAL_WIDTH > 0
  /\ INPUT_BUFFER_SIZE \in Nat \ {0} /\ HISTORY_SIZE \in Nat /\ MAX_ARGS \in Nat
  /\ PROMPT \in [BOOLEAN -> Nat] /\ HELP \in Nat /\ KEYS \in Nat

VARIABLES
  term,     \* the structure; ink: the cells that hold a character.  lost: has
            \* a character been written behind the last cell?  What the
            \* terminal does after that is not modelled.  edged: has a tab left
            \* the cursor at or behind the end of a row?  For the property
  keys      \* keys typed, against the bound

term_vars == <<term, keys>>

CELLS == TERMINAL_WIDTH * TERMINAL_HEIGHT

-----------------------------------------------------------------------------
(* Operators named Bug_* are mutants of the definition that follows them.  *)

(* strcpy(buffer[i], buffer[i + 1]): from the row's first cell to the next *)
(* NUL, in whichever row that is.  Behind the last row lies cursor_x, which*)
(* is zero by then.                                                        *)
RowCopied(ink, i) ==
  LET from == (i + 1) * TERMINAL_WIDTH
      nul  == CHOOSE p \in from .. CELLS :
                p \notin ink /\ \A q \in from .. p - 1 : q \in ink
  IN  (ink \ {nul - TERMINAL_WIDTH}) \cup (from - TERMINAL_WIDTH .. nul - TERMINAL_WIDTH - 1)

LastRow == CELLS - TERMINAL_WIDTH .. CELLS - 1

(* The rows are copied from the last one up.                               *)
Bug_Scrolled(ink) ==
  LET copied[k \in 0 .. TERMINAL_HEIGHT - 1] ==
        IF k = 0 THEN ink ELSE RowCopied(copied[k - 1], TERMINAL_HEIGHT - 1 - k)
  IN  copied[TERMINAL_HEIGHT - 1] \ LastRow

(* Every row but the last is overwritten by the one below it.              *)
Scrolled(ink) ==
  LET copied[k \in 0 .. TERMINAL_HEIGHT - 1] ==
        IF k = 0 THEN ink ELSE RowCopied(copied[k - 1], k - 1)
  IN  copied[TERMINAL_HEIGHT - 1] \ LastRow

NewLine(t) ==
  IF t.y + 1 < TERMINAL_HEIGHT
  THEN [t EXCEPT !.x = 0, !.y = @ + 1]
  ELSE [t EXCEPT !.x = 0, !.ink = Scrolled(@)]

Cell(t) == t.y * TERMINAL_WIDTH + t.x

(* A character that shows is written, and the row may end.                 *)
Bug_Written(t) ==
  LET u == [t EXCEPT !.ink = @ \cup {Cell(t)}, !.x = @ + 1]
  IN  IF Cell(t) >= CELLS THEN [t EXCEPT !.lost = TRUE]
      ELSE IF u.x > TERMINAL_WIDTH THEN NewLine(u) ELSE u

Written(t) ==
  LET u == [t EXCEPT !.ink = @ \cup {Cell(t)}, !.x = @ + 1]
  IN  IF Cell(t) >= CELLS THEN [t EXCEPT !.lost = TRUE]
      ELSE IF u.x >= TERMINAL_WIDTH THEN NewLine(u) ELSE u

(* A tab; it is no reason to end the row.                                  *)
Tabbed(t) ==
  LET x == TAB * ((t.x + TAB) \div TAB)
  IN  [t EXCEPT !.x = x, !.edged = @ \/ x >= TERMINAL_WIDTH]

(* A backspace leaves a blank, which is drawn.                             *)
BackSpaced(t) ==
  IF t.x = 0 THEN t
  ELSE IF Cell(t) > CELLS THEN [t EXCEPT !.lost = TRUE]
  ELSE [t EXCEPT !.x = @ - 1, !.ink = @ \cup {Cell(t) - 1}]

(* term_putchar.                                                           *)
PutChar(t, c) ==
  CASE t.lost   -> t
    [] c = "LF" -> NewLine(t)
    [] c = "CR" -> [t EXCEPT !.x = 0]
    [] c = "HT" -> Tabbed(t)
    [] c = "BS" -> BackSpaced(t)
    [] OTHER    -> Written(t)

(* term_puts and term_puts_colored.                                        *)
Put(t, string) ==
  LET put[k \in 0 .. Len(string)] == IF k = 0 THEN t ELSE PutChar(put[k - 1], string[k])
  IN  put[Len(string)]

Repeat(n, c) == [k \in 1 .. n |-> c]

Prompted(t) == Put(t, Repeat(PROMPT[t.bash], "x"))

(* What a command prints, but for echo.                                    *)
Output(args) ==
  CASE args[1] = <<"h">> -> [k \in 1 .. 2 * HELP |-> IF k % 2 = 1 THEN "x" ELSE "LF"]
    [] args[1] = <<"p">> -> <<"x", "LF">>
    [] OTHER -> <<"x">> \o args[1] \o <<"LF">>

(* echo: the arguments with a blank between any two.                       *)
Echoed(t, args) ==
  LET echoed[k \in 0 .. Len(args) - 1] ==
        IF k = 0 THEN t
        ELSE LET u == Put(echoed[k - 1], args[k + 1])
             IN  IF k < Len(args) - 1 THEN PutChar(u, BLANK) ELSE u
  IN  PutChar(echoed[Len(args) - 1], "LF")

(* term_process_command.  A full history takes nothing.  strtok's words    *)
(* are those of TokensAreWords.                                            *)
Processed(t, line) ==
  LET words == Words(line)
      args  == SubSeq(words, 1, IF Len(words) < MAX_ARGS THEN Len(words) ELSE MAX_ARGS)
      u     == IF Len(t.history) < HISTORY_SIZE THEN [t EXCEPT !.history = Append(@, line)] ELSE t
  IN  IF args = <<>> THEN u
      ELSE IF args[1] = <<"c">> THEN [u EXCEPT !.ink = {}, !.x = 0, !.y = 0]
      ELSE IF args[1] = <<"e">> THEN Echoed(u, args)
      ELSE Put(u, Output(args))

-----------------------------------------------------------------------------
(* Nothing yet: static storage, before term_init.                          *)
Blank(bash) ==
  [ink |-> {}, x |-> 0, y |-> 0, lost |-> FALSE, edged |-> FALSE,
   input |-> <<>>, history |-> <<>>, index |-> 0, bash |-> bash]

TermStart(bash) == Prompted(Put(Blank(bash), <<"x", "LF", "x", "LF", "x", "LF", "LF">>))

TermInit ==
  /\ term \in {TermStart(bash) : bash \in BOOLEAN}
  /\ keys = 0

(* term_init again, in either mode.                                        *)
TermReset(bash) == term' = TermStart(bash) /\ keys' = 0

(* Every key press is counted.                                             *)
Handled(t) ==
  /\ ~term.lost /\ keys < KEYS
  /\ term' = t /\ keys' = keys + 1

(* Enter.                                                                  *)
TermEnter ==
  LET t == PutChar(term, "LF")
      u == IF term.input = <<>> THEN t ELSE Processed(t, term.input)
  IN  Handled(Prompted([u EXCEPT !.input = <<>>]))

(* Backspace takes the last character of the line off the screen as well,  *)
(* whatever it had printed.                                                *)
TermBackspace ==
  /\ term.input # <<>>
  /\ Handled(PutChar([term EXCEPT !.input = Front(@)], "BS"))

(* Up and Down put a line of the history into the buffer, not on the screen*)
TermUp ==
  /\ term.index > 0
  /\ Handled([term EXCEPT !.index = @ - 1, !.input = term.history[term.index]])

TermDown ==
  /\ term.index < Len(term.history) - 1
  /\ Handled([term EXCEPT !.index = @ + 1, !.input = term.history[term.index + 2]])

(* Shift turns a letter into a capital, which no command has.              *)
Shift(c) == IF c \in {"c", "h", "p", "e", "x"} THEN "X" ELSE c

(* Any other key is its code's character.                                  *)
TermType(key, shift) ==
  LET c == IF shift THEN Shift(key) ELSE key
  IN  /\ Len(term.input) < INPUT_BUFFER_SIZE - 1
      /\ Handled(PutChar([term EXCEPT !.input = Append(@, c)], c))

Keys == {"c", "h", "p", "e", "SP", "HT", "BS", "CR", "LF"}

TermNext ==
  \/ \E bash \in BOOLEAN : TermReset(bash)
  \/ TermEnter \/ TermBackspace \/ TermUp \/ TermDown
  \/ \E key \in Keys, shift \in BOOLEAN : TermType(key, shift)

TermSpec == TermInit /\ [][TermNext]_term_vars

-----------------------------------------------------------------------------
TermTypeOK ==
  /\ term.ink \subseteq 0 .. CELLS - 1 /\ term.x \in Nat /\ term.y \in 0 .. TERMINAL_HEIGHT - 1
  /\ {term.lost, term.bash, term.edged} \subseteq BOOLEAN
  /\ Len(term.input) < INPUT_BUFFER_SIZE /\ Len(term.history) <= HISTORY_SIZE
  /\ term.index \in 0 .. HISTORY_SIZE

(* Until a tab leaves the cursor at the end of a row, where no check ends  *)
(* the row, the cursor stays on the screen and no character is written     *)
(* behind it, whatever is typed, printed, erased or scrolled.              *)
CursorOnScreen == ~term.edged => term.x < TERMINAL_WIDTH /\ ~term.lost

(* A row as a string: its cells up to the first NUL.                       *)
RowText(ink, i) ==
  {p \in 0 .. TERMINAL_WIDTH - 1 : \A q \in 0 .. p : i * TERMINAL_WIDTH + q \in ink}

RowFull(ink, i) == \A x \in 0 .. TERMINAL_WIDTH - 1 : i * TERMINAL_WIDTH + x \in ink

(* Were the screen scrolled now, each row would read as the one below it   *)
(* reads, a full one too, although strcpy runs on into the row behind it:  *)
(* unless that row is full as well, and its text is lost.  What an         *)
(* overwritten row had behind its new end may stay.                        *)
ScrollKeepsText ==
  \/ \E i \in 1 .. TERMINAL_HEIGHT - 2 : RowFull(term.ink, i) /\ RowFull(term.ink, i + 1)
  \/ \A i \in 0 .. TERMINAL_HEIGHT - 2 : RowText(Scrolled(term.ink), i) = RowText(term.ink, i + 1)

(* Both together.                                                          *)
ScreenSound == CursorOnScreen /\ ScrollKeepsText
=============================================================================
