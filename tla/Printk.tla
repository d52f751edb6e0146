------------------------------- MODULE Printk -------------------------------
(***************************************************************************)
(* printk of src/src/printk.c: the walk over the format and the conversion *)
(* of numbers, displayed on the screen of Vga.  The serial half of         *)
(* display_char and display_str is in Console.                             *)
(***************************************************************************)
EXTENDS Vga, SequencesExt

CONSTANTS
  Dec, Hex,  \* the bases: 10 and 16 in the code
  ShortSize, IntSize, LongSize,  \* how many values the types have: 2^16, 2^32 and 2^64
  MaxText    \* bound: how many characters are displayed one by one

VARIABLES
  fmt,    \* the format of the call, NOCALL between calls
  cur,    \* the position in fmt
  arg,    \* the argument, as the bits of a long
  shown,  \* history: what the call has displayed
  text    \* history: how many characters were displayed

vars == <<disp, fmt, cur, arg, shown, text>>

ASSUME PrintkAssumption ==
  /\ {Dec, Hex, ShortSize, IntSize, LongSize, MaxText} \subseteq Nat
  /\ 1 < Dec /\ Dec < Hex /\ 2 < ShortSize /\ ShortSize < IntSize /\ IntSize < LongSize

NOCALL == <<>>
NUL == "nul"

Init ==
  /\ disp = Loader
  /\ fmt = NOCALL /\ cur = 0 /\ arg = 0 /\ shown = <<>> /\ text = 0
-----------------------------------------------------------------------------
Digit(n) == <<"digit", n>>
Minus == <<"minus">>

\* n in a signed type of size values: a conversion keeps the low bits.
AsSigned(n, size) == LET u == n % size IN IF u >= size \div 2 THEN u - size ELSE u

\* Both DISP_UNSIGNED_VAL loops fill buf from its end with the digits of d.
\* (The NUL behind them lands one byte behind buf; what lies there is not
\* modelled.)
RECURSIVE Digits(_, _, _)
Digits(d, base, bc) ==
  IF d = 0 THEN <<>>
  ELSE LET digit == d % base
       IN Append(Digits(d \div base, base, bc),
                 IF digit < Dec THEN Digit(digit) ELSE <<bc, digit - Dec>>)

\* Variant: the case of zero is left out.
DISP_UNSIGNED_VALNoZero(d, base, bc) == Digits(d, base, bc)

DISP_UNSIGNED_VAL(d, base, bc) ==
  IF d = 0 THEN <<Digit(0)>> ELSE Digits(d, base, bc)

\* The product with -1 is again of the type, so the least number stays as it
\* is (in int and long the build's negation wraps); print_u##type then takes
\* it as unsigned.
DISP_SIGNED_VAL_DEC(d, size) ==
  LET m == IF d < 0 THEN AsSigned(-d, size) ELSE d
  IN (IF d < 0 THEN <<Minus>> ELSE <<>>) \o DISP_UNSIGNED_VAL(m % size, Dec, "a")

HANDLE_FORMAT_SPECIFIER(n, size, specifier) ==
  CASE specifier = "u" -> DISP_UNSIGNED_VAL(n % size, Dec, "a")
    [] specifier = "d" -> DISP_SIGNED_VAL_DEC(AsSigned(n, size), size)
    [] specifier = "x" -> DISP_UNSIGNED_VAL(n % size, Hex, "a")
    [] specifier = "X" -> DISP_UNSIGNED_VAL(n % size, Hex, "A")
    [] OTHER -> <<>>

\* *(cur + k)
At(k) == IF cur + k <= Len(fmt) THEN fmt[cur + k] ELSE NUL

\* External: the string a caller passes for %s.
StringArg == <<<<"glyph", 0>>, NL, <<"glyph", 1>>>>

\* How many values the type has that a length letter selects.
SizeOf(letter) == CASE letter = "h" -> ShortSize [] letter \in {"l", "q"} -> LongSize [] OTHER -> IntSize

\* What the conversion at cur displays.
Conversion ==
  CASE At(1) = "s" -> StringArg
    [] At(1) = "c" -> <<<<"glyph", AsSigned(arg, IntSize)>>>>
    [] At(1) = "p" -> <<Digit(0), <<"letter x">>>> \o DISP_UNSIGNED_VAL(arg, Hex, "a")
    [] At(1) \in {"l", "h", "q"} -> HANDLE_FORMAT_SPECIFIER(arg, SizeOf(At(1)), At(2))
    [] At(1) \in {"d", "u", "x", "X"} -> HANDLE_FORMAT_SPECIFIER(arg, IntSize, At(1))
    [] At(1) = "%" -> <<<<"percent">>>>
    [] OTHER -> <<>>

\* A plain character of a format is itself, or stands for the next glyph.
Plain(c) ==
  CASE c = "\n" -> NL [] c = "\r" -> CR [] OTHER -> <<"glyph", text>>

\* The text str appears on the screen.
Display(str) ==
  /\ disp' = VGA_display_str(disp, str)
  /\ shown' = shown \o str

\* External: a caller.  Bounds: plain characters come one by one, a format
\* with a conversion is displayed on an empty screen and is the last.
Formats ==
  {<<"a", "%", c, "b">> : c \in {"s", "c", "p", "d", "u", "x", "X", "%"}}
    \cup {<<"a", "%", t, c, "b">> : t \in {"l", "h", "q"}, c \in {"d", "u", "x", "X"}}

Call ==
  /\ disp # Loader /\ fmt = NOCALL /\ cur' = 1 /\ shown' = <<>>
  /\ \/ /\ text < MaxText /\ arg' = 0
        /\ \E c \in {"a", "\n", "\r"} : (c = "\r" => MayReturn(disp)) /\ fmt' = <<c>>
     \/ text = 0 /\ \E f \in Formats, n \in 0..(LongSize - 1) : fmt' = f /\ arg' = n
  /\ text' = IF Len(fmt') = 1 THEN text + 1 ELSE MaxText
  /\ UNCHANGED disp

\* An iteration of printk's loop at a character that is not '%' ...
printkPlain ==
  /\ fmt # NOCALL /\ At(0) \notin {NUL, "%"}
  /\ Display(<<Plain(At(0))>>)
  /\ cur' = cur + 1
  /\ UNCHANGED <<fmt, arg, text>>

\* ... and at a conversion, which is two characters long, or three.
printkConversion ==
  /\ fmt # NOCALL /\ At(0) = "%"
  /\ Display(Conversion)
  /\ cur' = cur + (IF At(1) \in {"l", "h", "q"} THEN 3 ELSE 2)
  /\ UNCHANGED <<fmt, arg, text>>

Return ==
  /\ fmt # NOCALL /\ At(0) = NUL
  /\ fmt' = NOCALL /\ cur' = 0 /\ arg' = 0 /\ shown' = <<>>
  /\ UNCHANGED <<disp, text>>

\* kmain clears the screen before anything is displayed.
kmain == disp = Loader /\ VGA_clear /\ UNCHANGED <<fmt, cur, arg, shown, text>>

Next == kmain \/ Call \/ printkPlain \/ printkConversion \/ Return

Spec == Init /\ [][Next]_vars
-----------------------------------------------------------------------------
\* The number that digits in some base write.
Value(ds, base) ==
  FoldLeft(LAMBDA v, c : v * base + c[2] + (IF c[1] = "digit" THEN 0 ELSE Dec), 0, ds)

\* A conversion displays, between the characters around it in the format, the
\* number that its type makes of the argument: signed or not, in the base of
\* the specifier, without leading zeros, also zero and the least number.
NumbersExact ==
  fmt # NOCALL /\ At(0) = NUL /\ Len(fmt) > 1 /\ fmt[Len(fmt) - 1] \in {"d", "u", "x", "X"} =>
    LET specifier == fmt[Len(fmt) - 1]
        size == SizeOf(fmt[3])
        base == IF specifier \in {"d", "u"} THEN Dec ELSE Hex
        negative == shown[2] = Minus
        ds == SubSeq(shown, IF negative THEN 3 ELSE 2, Len(shown) - 1)
        n == IF negative THEN -Value(ds, base) ELSE Value(ds, base)
    IN /\ shown[1][1] = "glyph" /\ Last(shown)[1] = "glyph"
       /\ n % size = arg % size
       /\ n \in IF specifier = "d" THEN -(size \div 2)..(size \div 2 - 1) ELSE 0..(size - 1)
       /\ ds # <<>> /\ (ds[1] = Digit(0) => ds = <<Digit(0)>> /\ ~negative)
=============================================================================
