------------------------------ MODULE Console ------------------------------
(***************************************************************************)
(* Text on the display, drivers/vga/vga.c and the writer of                *)
(* kernel/main.c.  Both write the same memory, each with a cursor of its   *)
(* own: the driver's scrolls, the kernel's goes back to the first row.     *)
(* The hardware cursor is left out.                                        *)
(*                                                                         *)
(* A cell is a pair of attribute and character.  Characters are BLANK and  *)
(* the two kinds "ascii" and "high": a char is signed, and one above 127,  *)
(* or-ed to the colour, sets every bit of the attribute.  The characters   *)
(* printed since the driver last cleared are bounded by CHARS.             *)
(***************************************************************************)
EXTENDS Integers, Sequences

CONSTANTS
  VGA_WIDTH, VGA_HEIGHT,  \* 80 and 25
  TABSTOP,                \* 8
  Colours,                \* what callers print in
  Spots,                  \* where they place characters themselves
  CHARS                   \* bound: characters printed between two clears

ASSUME ConsoleAssumption ==
  /\ VGA_WIDTH \in Nat \ {0} /\ VGA_HEIGHT \in Nat \ {0}
  /\ TABSTOP \in Nat \ {0} /\ CHARS \in Nat
  /\ Spots \subseteq (0 .. VGA_WIDTH - 1) \X (0 .. VGA_HEIGHT - 1)

CURRENT  == "current"   \* current_color, never changed
ALL_ONES == "0xFF"      \* the attribute with every bit set
BLUE     == "blue"      \* the background that vga_clear paints

VARIABLES
  vga,     \* the text memory: [cells -> cells' contents]
  at,      \* the driver's cursor, cursor_x and cursor_y
  pen,     \* the kernel's own, x and y of vga_putchar
  paper,   \* for the property: the rows the driver has printed since it was
           \* cleared, as they would stand on an endless sheet
  tainted, \* has the kernel's writer written since the driver's last clear?
  chars    \* characters printed since, against the bound

console_vars == <<vga, at, pen, paper, tainted, chars>>

VgaCells == 0 .. VGA_WIDTH * VGA_HEIGHT - 1
Empty(attribute) == <<attribute, "blank">>
BlankRow == [x \in 0 .. VGA_WIDTH - 1 |-> Empty(CURRENT)]

(* (color << 8) | c.                                                       *)
Glyph(c, colour) == <<IF c = "high" THEN ALL_ONES ELSE colour, c>>

(* kernel_main has called vga_clear.                                       *)
ConsoleInit ==
  /\ vga = [i \in VgaCells |-> Empty(BLUE)]
  /\ at = [x |-> 0, y |-> 0] /\ pen = [x |-> 0, y |-> 0]
  /\ paper = <<BlankRow>> /\ tainted = TRUE /\ chars = 0

-----------------------------------------------------------------------------
(* Operators named Bug_* are mutants of the definition that follows them.  *)

(* A character's effect on a cursor and the cell it writes, if any.        *)
Effect(p, c, colour) ==
  CASE c = "LF" -> [at |-> [x |-> 0, y |-> p.y + 1], cells |-> {}]
    [] c = "CR" -> [at |-> [p EXCEPT !.x = 0], cells |-> {}]
    [] c = "HT" -> [at |-> [p EXCEPT !.x = TABSTOP * ((@ + TABSTOP) \div TABSTOP)], cells |-> {}]
    [] c = "BS" -> IF p.x = 0 THEN [at |-> p, cells |-> {}]
                   ELSE [at |-> [p EXCEPT !.x = @ - 1], cells |-> {<<p.x - 1, Empty(colour)>>}]
    [] OTHER    -> [at |-> [p EXCEPT !.x = @ + 1], cells |-> {<<p.x, Glyph(c, colour)>>}]

(* The end of a row.                                                       *)
RowEnded(p) == IF p.x >= VGA_WIDTH THEN [x |-> 0, y |-> p.y + 1] ELSE p

(* The memory is moved, the last row is not cleared.                       *)
Bug_VgaScrolled(m) ==
  [i \in VgaCells |-> IF i + VGA_WIDTH \in VgaCells THEN m[i + VGA_WIDTH] ELSE m[i]]

(* vga_scroll.                                                             *)
VgaScrolled(m) ==
  [i \in VgaCells |-> IF i + VGA_WIDTH \in VgaCells THEN m[i + VGA_WIDTH] ELSE Empty(CURRENT)]

(* The same on the sheet: its last row is the cursor's.                    *)
OnPaper(p, c, colour) ==
  LET e   == Effect([x |-> at.x, y |-> 0], c, colour)
      row == [x \in 0 .. VGA_WIDTH - 1 |->
                IF \E cell \in e.cells : cell[1] = x
                THEN (CHOOSE cell \in e.cells : TRUE)[2] ELSE p[Len(p)][x]]
  IN  [p EXCEPT ![Len(p)] = row] \o [k \in 1 .. RowEnded(e.at).y |-> BlankRow]

(* vga_putchar_text.                                                       *)
PutText(c, colour) ==
  /\ chars < CHARS
  /\ LET e == Effect(at, c, colour)
         m == [i \in VgaCells |->
                 IF \E cell \in e.cells : i = at.y * VGA_WIDTH + cell[1]
                 THEN (CHOOSE cell \in e.cells : TRUE)[2] ELSE vga[i]]
         p == RowEnded(e.at)
     IN  /\ vga' = IF p.y >= VGA_HEIGHT THEN VgaScrolled(m) ELSE m
         /\ at' = IF p.y >= VGA_HEIGHT THEN [p EXCEPT !.y = VGA_HEIGHT - 1] ELSE p
  /\ paper' = OnPaper(paper, c, colour) /\ chars' = chars + 1
  /\ UNCHANGED <<pen, tainted>>

(* vga_clear_text.                                                         *)
ClearText ==
  /\ vga' = [i \in VgaCells |-> Empty(CURRENT)] /\ at' = [x |-> 0, y |-> 0]
  /\ paper' = <<BlankRow>> /\ tainted' = FALSE /\ chars' = 0
  /\ UNCHANGED pen

(* vga_putchar of kernel/main.c: no character but LF is special.           *)
PutChar_main(c, colour) ==
  /\ chars < CHARS
  /\ LET e == IF c = "LF" THEN [x |-> 0, y |-> pen.y + 1]
              ELSE RowEnded([pen EXCEPT !.x = @ + 1])
     IN  pen' = [e EXCEPT !.y = @ % VGA_HEIGHT]
  /\ vga' = IF c = "LF" THEN vga
            ELSE [vga EXCEPT ![pen.y * VGA_WIDTH + pen.x] = Glyph(c, colour)]
  /\ tainted' = TRUE /\ chars' = chars + 1
  /\ UNCHANGED <<at, paper>>

(* vga_put_char_at, and vga_puts_at character by character.                *)
PutAt(c, x, y, colour) ==
  /\ chars < CHARS
  /\ vga' = [vga EXCEPT ![y * VGA_WIDTH + x] = Glyph(c, colour)]
  /\ tainted' = TRUE /\ chars' = chars + 1
  /\ UNCHANGED <<at, pen, paper>>

(* vga_clear: neither cursor moves.                                        *)
ClearMain ==
  /\ vga' = [i \in VgaCells |-> Empty(BLUE)] /\ tainted' = TRUE
  /\ UNCHANGED <<at, pen, paper, chars>>

Chars == {"ascii", "high", "LF", "CR", "HT", "BS"}

ConsoleNext ==
  \/ \E c \in Chars, colour \in Colours :
       PutText(c, colour) \/ PutChar_main(c, colour)
  \/ \E c \in {"ascii", "high"}, colour \in Colours, spot \in Spots :
       PutAt(c, spot[1], spot[2], colour)
  \/ ClearText \/ ClearMain

ConsoleSpec == ConsoleInit /\ [][ConsoleNext]_console_vars

-----------------------------------------------------------------------------
ConsoleTypeOK ==
  /\ at \in [x : 0 .. VGA_WIDTH - 1, y : 0 .. VGA_HEIGHT - 1]
  /\ pen \in [x : 0 .. VGA_WIDTH - 1, y : 0 .. VGA_HEIGHT - 1]
  /\ DOMAIN vga = VgaCells

(* As long as the driver alone writes the memory, the display is the foot  *)
(* of everything printed since it was cleared: the last VGA_HEIGHT rows of *)
(* the sheet, the cursor in the last one of them, nothing stale below.     *)
ShowsTheFoot ==
  ~tainted =>
    LET above == IF Len(paper) > VGA_HEIGHT THEN Len(paper) - VGA_HEIGHT ELSE 0
    IN  /\ at.y = Len(paper) - above - 1
        /\ \A y \in 0 .. VGA_HEIGHT - 1, x \in 0 .. VGA_WIDTH - 1 :
             vga[y * VGA_WIDTH + x] =
               IF y < Len(paper) - above THEN paper[above + y + 1][x] ELSE Empty(CURRENT)
=============================================================================
