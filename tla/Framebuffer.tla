---------------------------- MODULE Framebuffer ----------------------------
(***************************************************************************)
(* The drawing primitives, drivers/vga/framebuffer.c.  Coordinates and     *)
(* sizes are unsigned: a window dragged over the edge passes a negative    *)
(* one, and sums wrap at UNSIGNED.  A pixel has one channel of the three,   *)
(* and a level is a value of it.  What the loops leave on the screen is    *)
(* modelled, not how long they run.                                        *)
(***************************************************************************)
EXTENDS Integers, FiniteSetsExt

CONSTANTS
  FB_WIDTH, FB_HEIGHT,  \* 1920 and 1080
  UNSIGNED,             \* 2^32
  LEVELS,               \* 256
  RADIUS,               \* the blur of a glass panel                     (8)
  GLASS, BORDER,        \* its colours, and
  BORDER_ALPHA,         \* how much of the border's                      (128)
  Levels,               \* what callers draw in, some of the levels
  Lefts, Tops, Extents,   \* where they draw, how large
  Radii                 \* and how rounded

MAX_INT == (UNSIGNED - 1) \div 2   \* what callers compute with is an int

ASSUME FramebufferAssumption ==
  /\ UNSIGNED \in Nat \ {0} /\ RADIUS \in 0 .. MAX_INT
  /\ FB_WIDTH \in 1 .. MAX_INT /\ FB_HEIGHT \in 1 .. MAX_INT
  /\ LEVELS \in Nat /\ LEVELS > 1 /\ Levels \subseteq 0 .. LEVELS - 1
  /\ {GLASS, BORDER, BORDER_ALPHA} \subseteq 0 .. LEVELS - 1
  /\ Lefts \subseteq -MAX_INT .. MAX_INT /\ Tops \subseteq -MAX_INT .. MAX_INT
  /\ Extents \subseteq 0 .. MAX_INT /\ Radii \subseteq Nat

VARIABLES
  buffer,   \* [pixels -> levels]
  drawn     \* the last call, and the rectangle as the caller meant it; for
            \* the property

fb_vars == <<buffer, drawn>>

Pixels == (0 .. FB_WIDTH - 1) \X (0 .. FB_HEIGHT - 1)
U(n)   == n % UNSIGNED

(* fb_init: the memory is what it is.                                      *)
FbInit ==
  /\ buffer \in [Pixels -> Levels]
  /\ drawn = [what |-> "nothing"]

-----------------------------------------------------------------------------
(* Operators named Bug_* are mutants of the definition that follows them.  *)

(* fb_put_pixel: none outside the screen.                                  *)
SetPixel(b, x, y, c) ==
  IF <<U(x), U(y)>> \in Pixels THEN [b EXCEPT ![<<U(x), U(y)>>] = c] ELSE b

(* fb_get_pixel: 0 outside the screen.                                     *)
Seen(b, x, y) == IF <<U(x), U(y)>> \in Pixels THEN b[<<U(x), U(y)>>] ELSE 0

(* What a loop from first to below last takes of 0 .. size - 1.            *)
Along(first, last, size) == {p \in 0 .. size - 1 : U(first) <= p /\ p < U(last)}

(* The pixels that the two loops over a rectangle take.                    *)
Looped(x, y, w, h) == Along(x, x + w, FB_WIDTH) \X Along(y, y + h, FB_HEIGHT)

(* The last row is drawn too.                                              *)
Bug_Filled(b, x, y, w, h, c) ==
  [p \in Pixels |-> IF p \in Looped(x, y, w, h + 1) THEN c ELSE b[p]]

(* fb_fill_rect.                                                           *)
Filled(b, x, y, w, h, c) ==
  [p \in Pixels |-> IF p \in Looped(x, y, w, h) THEN c ELSE b[p]]

(* fb_alpha_blend, of one channel.                                         *)
Blend(bg, fg, alpha) ==
  (alpha * fg + (LEVELS - 1 - alpha) * bg) \div (LEVELS - 1)

(* The mean of the pixels around one.                                      *)
Average(b, p) ==
  LET Around == (-RADIUS .. RADIUS) \X (-RADIUS .. RADIUS)
  IN  MapThenSumSet(LAMBDA d : Seen(b, p[1] + d[1], p[2] + d[2]), Around)
        \div Cardinality(Around)

(* The k-th pixel, row by row, as the loops go.                            *)
Nth(k) == <<k % FB_WIDTH, k \div FB_WIDTH>>

(* fb_blur_rect: a pixel that is blurred counts as such for those after it.*)
Blurred(b, x, y, w, h) ==
  LET inside == Looped(x + RADIUS, y + RADIUS, w - 2 * RADIUS, h - 2 * RADIUS)
      after[k \in 0 .. FB_WIDTH * FB_HEIGHT] ==
        IF k = 0 THEN b
        ELSE LET f == after[k - 1]
                 p == Nth(k - 1)
             IN  IF p \in inside THEN [f EXCEPT ![p] = Average(f, p)] ELSE f
  IN  after[FB_WIDTH * FB_HEIGHT]

(* Some pixels of b blended with a colour.                                 *)
Overlaid(b, ps, c, alpha) ==
  [p \in Pixels |-> IF p \in ps THEN Blend(b[p], c, alpha) ELSE b[p]]

(* The pixel column or row that a coordinate names, if any.                *)
Line(n, size) == {U(n)} \cap (0 .. size - 1)

(* fb_draw_glass_panel: blurred, tinted, then the top, bottom, left and    *)
(* right border, so that the corners get theirs twice.                     *)
Panel(b, x, y, w, h, opacity) ==
  LET Row(r)         == Along(x, x + w, FB_WIDTH) \X Line(r, FB_HEIGHT)
      Column(c)      == Line(c, FB_WIDTH) \X Along(y, y + h, FB_HEIGHT)
      Border(f, ps)  == Overlaid(f, ps, BORDER, BORDER_ALPHA)
      glass  == Overlaid(Blurred(b, x, y, w, h), Looped(x, y, w, h), GLASS, opacity)
      top    == Border(glass, Row(y))
      bottom == Border(top, Row(y + h - 1))
      left   == Border(bottom, Column(x))
  IN  Border(left, Column(x + w - 1))

(* The pixels of the four corners that fb_draw_rounded_rect leaves out.    *)
CutOff(p, x, y, w, h, r) ==
  LET left == p[1] < U(x + r)
      top  == p[2] < U(y + r)
      dx == IF left THEN U(x + r - p[1]) ELSE U(p[1] - (x + w - r - 1))
      dy == IF top THEN U(y + r - p[2]) ELSE U(p[2] - (y + h - r - 1))
  IN  /\ left \/ p[1] >= U(x + w - r)
      /\ top \/ p[2] >= U(y + h - r)
      /\ U(dx * dx + dy * dy) > U(r * r)

Rounded(b, x, y, w, h, r, c) ==
  [p \in Pixels |-> IF p \in Looped(x, y, w, h) /\ ~CutOff(p, x, y, w, h, r)
                    THEN c ELSE b[p]]

-----------------------------------------------------------------------------
(* One call with what it leaves, and its end.                              *)
Drawing(what, x, y, w, h, c, after) ==
  /\ drawn.what = "nothing"
  /\ buffer' = after
  /\ drawn' = [what |-> what, before |-> buffer, x |-> x, y |-> y, w |-> w,
               h |-> h, c |-> c]

PutPixel(x, y, c)     == Drawing("pixel", x, y, 1, 1, c, SetPixel(buffer, x, y, c))
FillRect(x, y, w, h, c) == Drawing("fill", x, y, w, h, c, Filled(buffer, x, y, w, h, c))
GlassPanel(x, y, w, h, o) == Drawing("panel", x, y, w, h, o, Panel(buffer, x, y, w, h, o))
RoundedRect(x, y, w, h, r, c) ==
  Drawing("rounded", x, y, w, h, c, Rounded(buffer, x, y, w, h, r, c))

FbReturn ==
  /\ drawn.what # "nothing"
  /\ drawn' = [what |-> "nothing"]
  /\ UNCHANGED buffer

FbNext ==
  \/ \E x \in Lefts, y \in Tops, c \in Levels :
       \/ PutPixel(x, y, c)
       \/ \E w, h \in Extents : FillRect(x, y, w, h, c) \/ GlassPanel(x, y, w, h, c)
       \/ \E w, h \in Extents, r \in Radii : RoundedRect(x, y, w, h, r, c)
  \/ FbReturn

FbSpec == FbInit /\ [][FbNext]_fb_vars

-----------------------------------------------------------------------------
FbTypeOK == buffer \in [Pixels -> 0 .. LEVELS - 1]

(* The part of the rectangle that is on the screen, and whether the loops  *)
(* over it wrap.                                                           *)
Meant(d) == {p \in Pixels : d.x <= p[1] /\ p[1] < d.x + d.w /\ d.y <= p[2] /\ p[2] < d.y + d.h}
Ran(d)   == (d.x < 0 /\ 0 <= d.x + d.w) \/ (d.y < 0 /\ 0 <= d.y + d.h)

(* A call changes no pixel outside the rectangle it is given, however much *)
(* of it is off the screen.  Two panels are exempt: one that ends fewer    *)
(* than RADIUS pixels behind an edge, whose blur's limit wraps             *)
(* (framebuffer.c:66), and an empty one, which has a border still.  A      *)
(* filled rectangle is one colour where it is on the screen, unless it     *)
(* hangs over the left or upper edge: the sum wraps (framebuffer.c:39) and *)
(* nothing of it is drawn.                                                 *)
StaysInside ==
  drawn.what # "nothing" =>
    LET changed == {p \in Pixels : buffer[p] # drawn.before[p]}
        short   == \/ drawn.x + drawn.w < RADIUS \/ drawn.y + drawn.h < RADIUS
                   \/ drawn.w = 0 \/ drawn.h = 0
    IN  /\ ~(drawn.what = "panel" /\ short) => changed \subseteq Meant(drawn)
        /\ drawn.what = "fill" =>
             IF Ran(drawn) THEN changed = {}
             ELSE \A p \in Meant(drawn) : buffer[p] = drawn.c
=============================================================================
