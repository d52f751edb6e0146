-------------------------------- MODULE Vga --------------------------------
(***************************************************************************)
(* The text screen of src/src/vga.c: a buffer of height rows, a cursor     *)
(* whose x runs on past the end of a row (a long line has several rows and *)
(* one y), and scrolling.  The cursor is unsigned: the first row of a line *)
(* longer than the screen lies above it, and y is then "below zero".       *)
(***************************************************************************)
EXTENDS Integers, Sequences

CONSTANTS
  width, height,  \* 80 and 25 in the code
  Word            \* 2^32, the modulus of unsigned int

VARIABLE
  disp  \* the cursor x, y and the buffer buf; and as history: how many rows
        \* have left the screen (scrolled), every cell written, as on endless
        \* paper (paper), and whether a carriage return was displayed (returned)

len == width * height

ASSUME VgaAssumption ==
  width \in Nat \ {0} /\ height \in Nat \ {0} /\ Word \in Nat /\ Word > len + width

\* A cell that was never written, and the two control characters.
BLANK == <<>>
NL == <<"newline">>
CR == <<"return">>

U(n) == n % Word

Cleared == [x |-> 0, y |-> 0, buf |-> [i \in 0..(len - 1) |-> BLANK],
            scrolled |-> 0, paper |-> <<>>, returned |-> FALSE]

\* External: what the boot loader leaves on the screen.
Loader ==
  LET left == [i \in 0..(len - 1) |-> <<"loader">>]
  IN [Cleared EXCEPT !.buf = left, !.paper = left]

\* Variant: the last row is not cleared.
scrollKept(b) ==
  [i \in 0..(len - 1) |-> IF i < len - width THEN b[i + width] ELSE b[i]]

\* The buffer after scroll().
scroll(b) ==
  [i \in 0..(len - 1) |-> IF i < len - width THEN b[i + width] ELSE BLANK]

\* Variant: does not count the rows of a long line.
NewLineShort(s) == [s EXCEPT !.y = U(s.y + 1), !.x = 0]

NewLine(s) == [s EXCEPT !.y = U(s.y + 1 + (s.x \div width)), !.x = 0]

\* Variant: scrolls one cell too late.
AtEndLate(s) == U(s.y * width + s.x) = len + 1

\* The cursor stands behind the last cell.
AtEnd(s) == U(s.y * width + s.x) = len

\* The row above the cursor leaves the screen.
Scrolled(s) ==
  [s EXCEPT !.buf = scroll(@), !.y = U(@ - 1), !.scrolled = @ + 1]

\* Cells b after a write to cell k.
Write(b, k, c) == [i \in DOMAIN b \union {k} |-> IF i = k THEN c ELSE b[i]]

\* A character in the cursor's cell.
Put(s, c) ==
  LET pos == U(s.y * width + s.x)
  IN [s EXCEPT !.buf = Write(@, pos, c), !.x = U(@ + 1),
               !.paper = Write(@, s.scrolled * width + pos, c)]

\* The screen after VGA_display_char.
VGA_display_char(s, c) ==
  LET t == IF AtEnd(s) THEN Scrolled(s) ELSE s
  IN CASE c = NL -> NewLine(t)
       [] c = CR -> [t EXCEPT !.x = 0, !.returned = TRUE]
       [] OTHER  -> Put(t, c)

\* External: a carriage return on a line longer than the screen would move the
\* cursor above it.  Only tests/integrated/stress.c prints carriage returns, after
\* lines shorter than the screen.
MayReturn(s) == IF AtEnd(s) THEN s.y \in 1..height ELSE s.y < height

\* The screen after VGA_display_str: after one character after the other.
VGA_display_str(s, str) ==
  LET after[n \in 0..Len(str)] == IF n = 0 THEN s ELSE VGA_display_char(after[n - 1], str[n])
  IN after[Len(str)]

VGA_clear == disp' = Cleared
-----------------------------------------------------------------------------
\* The cursor is in the buffer or just behind it: no character is ever
\* written outside the buffer, also when y has wrapped.
CursorOnScreen ==
  U(disp.y * width + disp.x) \in 0..len /\ DOMAIN disp.buf = 0..(len - 1)

\* The screen shows the last rows of the paper, whatever mixture of newlines
\* and long lines made it scroll.
ScreenShowsPaper ==
  \A i \in 0..(len - 1) :
    LET cell == disp.scrolled * width + i
    IN disp.buf[i] = IF cell \in DOMAIN disp.paper THEN disp.paper[cell] ELSE BLANK

\* Without carriage returns, a newline moves below everything displayed so far,
\* however many rows the line before it has: no line overwrites an earlier one.
NewLineBelow ==
  [][disp' = VGA_display_char(disp, NL) /\ ~disp.returned =>
       \A i \in DOMAIN disp.paper : i < (disp'.scrolled + disp'.y) * width]_disp
=============================================================================
