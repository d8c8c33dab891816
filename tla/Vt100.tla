------------------------------- MODULE Vt100 --------------------------------
(***************************************************************************)
(* The terminal emulator of the terminal library (lib/libvtty/vt100.c):    *)
(* vt_out takes one byte at a time through the states of an escape         *)
(* sequence, collects its parameters and drives a window.                  *)
(*                                                                         *)
(* The window is that of module Window; here only its cursor, scrolling    *)
(* region and modes are kept, on which its cells have no influence.        *)
(* Attributes, character sets, key modes and the reports that the terminal *)
(* sends (with local echo off) are left out, and so is insert mode, which  *)
(* the code records and does not use.                                      *)
(***************************************************************************)
EXTENDS Window

CONSTANTS NParms,    \* places for parameters; 8 in the code
          PtrMax,    \* where state2 stops counting parameters; 15 in the code
          ShortHalf, \* a short is -ShortHalf .. ShortHalf - 1; 2^15
          IntHalf,   \* the same of an int; 2^31
          VtDigits,  \* digits in parameters
          MaxByte    \* bound: bytes

ASSUME VtAssumption ==
  /\ NParms \in Nat \ {0, 1} /\ PtrMax \in Nat
  /\ ShortHalf \in Nat \ {0} /\ IntHalf \in Nat \ {0}
  /\ VtDigits \subseteq 0..9 /\ MaxByte \in Nat

VARIABLES vw,     \* vt_win: a window as in module Window
          esc,    \* esc_s
          ptr,    \* index of the current parameter
          parms,  \* escparms
          newy,   \* <<newy1, newy2>>
          vmode,  \* [om, addlf, addcr, wrap]: vt_om, ..., vt_wrap
          vtabs,  \* vt_tabs: columns
          vsave,  \* <<savex, savey>>
          cut,    \* a sequence was left before its end, and none ended since
          spilt,  \* state2 has written behind escparms, over other variables
          nbyte   \* bytes so far

vtVars == <<vw, esc, ptr, parms, newy, vmode, vtabs, vsave, cut, spilt, nbyte>>

NoParms == [i \in 0 .. NParms - 1 |-> 0]
Tabs0 == {x \in 1 .. COLS - 1 : x % TabSize = 0}
Whole == <<0, LINES - 1>>

(* vt_install and vt_init of a window that is the screen.                  *)
VtInit ==
  /\ vw = NewWin(0, LINES - 1) /\ newy = Whole
  /\ esc = 0 /\ ptr = 0 /\ parms = NoParms
  /\ vmode = [om |-> FALSE, addlf |-> TRUE, addcr |-> TRUE, wrap |-> TRUE]
  /\ vtabs = Tabs0 /\ vsave = <<0, 0>> /\ cut = FALSE /\ spilt = FALSE /\ nbyte = 0

(* The window after an operation of window.c on window w.                  *)
On(w) == [s |-> NewTty(0, LINES - 1), w |-> w]
Locates(w, x, y) == vtty_wlocate(On(w), x, y).w
Puts(w, c) == vtty_wputc(On(w), c).w
Edit(b, r) == CASE b = "L" -> vtty_winsline(r)
                [] b = "M" -> vtty_wdelline(r)
                [] b = "P" -> vtty_wdelchar(r)
                [] b = "@" -> vtty_winschar2(r, " ", FALSE)
Repeat(w, b, n) == Loop(w, LAMBDA a, i : Edit(b, On(a)).w, n)
Times(n) == IF n > 0 THEN n ELSE 0

(* A number in a variable of limited width, and a parameter in a short,    *)
(* 1 if that is 0.                                                         *)
Wrapped(n, half) == ((n + half) % (2 * half)) - half
Short(n) == Wrapped(n, ShortHalf)
OrOne(p) == IF Short(p) = 0 THEN 1 ELSE Short(p)

-----------------------------------------------------------------------------
(* Control characters are handled before the state is looked at, also      *)
(* within a sequence.                                                      *)
Controls == {"CR", "HT", "VT", "FF", "NL", "BS"}
NextTab(w) ==
  LET later == {x \in vtabs : x > w.curx}
  IN IF later = {} THEN COLS - 1 ELSE CHOOSE x \in later : \A y \in later : x <= y
ControlDone(c) ==
  CASE c = "CR" -> IF vmode.addlf THEN Puts(Puts(vw, c), "NL") ELSE Puts(vw, c)
    [] c = "HT" -> Locates(vw, NextTab(vw), vw.cury)
    [] c = "VT" -> Locates(vw, vw.curx, vw.cury - 1)
    [] c = "FF" -> Locates(vtty_winclr(On(vw)).w, 0, 0)
    [] c = "NL" -> Puts(IF vmode.addcr THEN Puts(vw, "CR") ELSE vw, c)
    [] c = "BS" -> Puts(vw, c)
VtControl(c) ==
  /\ vw' = ControlDone(c)
  /\ UNCHANGED <<esc, ptr, parms, newy, vmode, vtabs, vsave, cut>>

(* CAN and SUB, ESC, and the one byte for ESC [.  The parameters of a      *)
(* sequence that is cut short stay.                                        *)
VtBegin(c) ==
  /\ esc' = CASE c = "CAN" -> 0 [] c = "ESC" -> 1 [] c = "CSI" -> 2
  /\ cut' = (cut \/ esc \in {2, 3})
  /\ UNCHANGED <<vw, ptr, parms, newy, vmode, vtabs, vsave>>

VtChar == esc = 0 /\ vw' = Puts(vw, "a") /\ UNCHANGED <<esc, ptr, parms, newy, vmode, vtabs, vsave, cut>>

-----------------------------------------------------------------------------
(* state1: after ESC.                                                      *)
Introducer == [b \in {"[", "(", ")", "#", "P"} |->
                 CASE b = "[" -> 2 [] b = "(" -> 4 [] b = ")" -> 5 [] b = "#" -> 6 [] b = "P" -> 7]
Index == IF vw.cury + 1 = newy[2] + 1 THEN vtty_wscroll(On(vw), "up", FALSE).w
         ELSE Locates(vw, vw.curx, vw.cury + 1)
ReverseIndex == IF vw.cury - 1 = newy[1] - 1 THEN vtty_wscroll(On(vw), "down", FALSE).w
                ELSE IF vw.cury > 0 THEN Locates(vw, vw.curx, vw.cury - 1) ELSE vw
VtEsc(b) ==
  /\ esc = 1
  /\ esc' = IF b \in DOMAIN Introducer THEN Introducer[b] ELSE 0
  /\ vw' = CASE b = "D" -> Index
             [] b = "M" -> ReverseIndex
             [] b = "E" -> Puts(Puts(vw, "CR"), "NL")
             [] b = "8" -> Locates(vw, vsave[1], vsave[2])
             [] OTHER -> vw
  /\ vsave' = IF b = "7" THEN <<vw.curx, vw.cury>> ELSE vsave
  /\ vtabs' = IF b = "H" THEN vtabs \cup {vw.curx} ELSE vtabs
  /\ UNCHANGED <<ptr, parms, newy, vmode, cut>>

(* ESC c: vt_init again, and home.                                         *)
VtReset ==
  /\ esc = 1 /\ esc' = 0
  /\ vw' = Locates([vw EXCEPT !.wrap = vmode.wrap, !.sy1 = 0, !.sy2 = LINES - 1], 0, 0)
  /\ newy' = Whole
  /\ vmode' = [vmode EXCEPT !.om = FALSE, !.addlf = FALSE, !.addcr = FALSE]
  /\ vtabs' = Tabs0
  /\ ptr' = 0 /\ parms' = NoParms /\ cut' = FALSE
  /\ UNCHANGED vsave

(* Digits and separators, in state2 and state3.  A digit of a parameter    *)
(* for which there is no place is written behind escparms: what it does    *)
(* there is not followed any further.                                      *)
VtDigit(d) ==
  /\ esc \in {2, 3}
  /\ IF ptr < NParms
     THEN parms' = [parms EXCEPT ![ptr] = Wrapped(10 * @ + d, IntHalf)] /\ UNCHANGED spilt
     ELSE spilt' = TRUE /\ UNCHANGED parms
  /\ UNCHANGED <<vw, esc, ptr, newy, vmode, vtabs, vsave, cut>>
VtSeparator ==
  /\ esc = 2
  /\ ptr' = IF ptr < PtrMax THEN ptr + 1 ELSE ptr
  /\ UNCHANGED <<vw, esc, parms, newy, vmode, vtabs, vsave, cut>>
VtPrivate ==
  /\ esc = 2 /\ parms[0] = 0 /\ ptr = 0
  /\ esc' = 3
  /\ UNCHANGED <<vw, ptr, parms, newy, vmode, vtabs, vsave, cut>>

(* The end of state2 and state3: the parameters are cleared.               *)
SequenceEnds == esc' = 0 /\ ptr' = 0 /\ cut' = FALSE /\ parms' = NoParms

(* Cursor motion stops at the edges and at the region.                     *)
Motion(b) ==
  LET f == OrOne(parms[0])
      x == Clip(Short(vw.curx + (IF b = "C" THEN f ELSE IF b = "D" THEN -f ELSE 0)), COLS)
      down == Clip(Short(vw.cury + f), LINES)
      up == Clip(Short(vw.cury - f), LINES)
      y == CASE b = "B" -> IF down >= newy[2] + 1 THEN newy[2] ELSE down
             [] b = "A" -> IF up <= newy[1] - 1 THEN newy[1] ELSE up
             [] OTHER -> vw.cury
  IN Locates(vw, x, y)

(* state2, but for the sequences with an action of their own below.        *)
Finals == {"A", "B", "C", "D", "X", "K", "J", "H", "L", "M", "P", "@", "s", "u", "g", "m"}
Erase(b) ==
  CASE b = "K" /\ parms[0] = 2 -> vtty_wclrel(On(vw)).w
    [] b = "J" /\ parms[0] = 2 -> vtty_winclr(On(vw)).w
    [] OTHER -> vw
VtCsi(b) ==
  /\ esc = 2
  /\ vw' = CASE b \in {"A", "B", "C", "D"} -> Motion(b)
             [] b \in {"X", "K", "J"} -> Erase(b)
             [] b = "H" -> Locates(vw, OrOne(parms[1]) - 1,
                              Short(OrOne(parms[0]) + (IF vmode.om THEN newy[1] ELSE 0)) - 1)
             [] b \in {"L", "M", "P", "@"} -> Repeat(vw, b, Times(OrOne(parms[0])))
             [] b = "u" -> Locates(vw, vsave[1], vsave[2])
             [] OTHER -> vw
  /\ vsave' = IF b = "s" THEN <<vw.curx, vw.cury>> ELSE vsave
  /\ vtabs' = IF b = "g" /\ parms[0] = 0 THEN vtabs \ {vw.curx}
              ELSE IF b = "g" /\ parms[0] = 3 THEN {} ELSE vtabs
  /\ SequenceEnds
  /\ UNCHANGED <<newy, vmode>>

(* ESC [ a ; b r: the scrolling region, the whole window if it is empty.   *)
RegionOf(p0, p1) ==
  LET a == Clip(Short(OrOne(p0) - 1), LINES)
      b == Clip(Short((IF Short(p1) = 0 THEN LINES ELSE Short(p1)) - 1), LINES)
  IN IF a >= b THEN Whole ELSE <<a, b>>
VtRegion ==
  LET n == RegionOf(parms[0], parms[1]) IN
  /\ esc = 2
  /\ newy' = n
  /\ vw' = Locates([vw EXCEPT !.sy1 = n[1], !.sy2 = n[2]], 0, n[1])
  /\ SequenceEnds
  /\ UNCHANGED <<vmode, vtabs, vsave>>

(* state3 and dec_mode: origin mode, wrapping.                             *)
VtMode(on) ==
  /\ esc = 3
  /\ vmode' = IF parms[0] = 6 THEN [vmode EXCEPT !.om = on] ELSE vmode
  /\ vw' = CASE parms[0] = 6 -> Locates(vw, 0, newy[1])
             [] parms[0] = 7 -> [vw EXCEPT !.wrap = on]
             [] OTHER -> vw
  /\ SequenceEnds
  /\ UNCHANGED <<newy, vtabs, vsave>>

(* state2 and state3 for any other byte.                                   *)
VtIgnored ==
  /\ esc \in {2, 3} /\ SequenceEnds
  /\ UNCHANGED <<vw, newy, vmode, vtabs, vsave>>

(* state4, state5 and state6: one more byte.  state7: a control string has *)
(* no end, since vt_out keeps its ESC for itself.                          *)
VtOneMore(b) ==
  /\ esc \in 4..7
  /\ esc' = IF esc = 7 THEN 7 ELSE 0
  /\ vw' = IF esc = 6 /\ b = "8" THEN Selftest(On(vw)).w ELSE vw
  /\ UNCHANGED <<ptr, parms, newy, vmode, vtabs, vsave, cut>>

(* vt_pinit, after a resize.                                               *)
VtPinit ==
  /\ newy' = Whole /\ vw' = [vw EXCEPT !.sy1 = vw.y1, !.sy2 = vw.y2]
  /\ UNCHANGED <<esc, ptr, parms, vmode, vtabs, vsave, cut>>

(* vt_set: one of the modes, on the fly.                                   *)
VtSet(field, on) ==
  /\ vmode' = [vmode EXCEPT ![field] = on]
  /\ vw' = IF field = "wrap" THEN [vw EXCEPT !.wrap = on] ELSE vw
  /\ UNCHANGED <<esc, ptr, parms, newy, vtabs, vsave, cut>>

VtByte ==
  \/ \E c \in Controls : VtControl(c)
  \/ \E c \in {"CAN", "ESC", "CSI"} : VtBegin(c)
  \/ VtChar
  \/ \E b \in DOMAIN Introducer \cup {"D", "M", "E", "7", "8", "H", "="} : VtEsc(b)
  \/ VtReset
  \/ VtSeparator \/ VtPrivate
  \/ \E b \in Finals : VtCsi(b)
  \/ VtRegion
  \/ \E on \in BOOLEAN : VtMode(on)
  \/ VtIgnored
  \/ \E b \in {"8", "B"} : VtOneMore(b)
  \/ VtPinit
  \/ \E field \in {"addlf", "addcr", "wrap"}, on \in BOOLEAN : VtSet(field, on)

VtNext ==
  /\ ~spilt /\ nbyte < MaxByte /\ nbyte' = nbyte + 1
  /\ \/ \E d \in VtDigits : VtDigit(d)
     \/ UNCHANGED spilt /\ VtByte

VtSpec == VtInit /\ [][VtNext]_vtVars

-----------------------------------------------------------------------------
(* Type invariant.                                                         *)
VtTypeOK ==
  /\ vw.curx \in 0 .. COLS /\ vw.cury \in 0 .. LINES - 1
  /\ esc \in 0..7 /\ ptr \in 0 .. PtrMax
  /\ DOMAIN parms = 0 .. NParms - 1
  /\ \A i \in DOMAIN parms : parms[i] \in -IntHalf .. IntHalf - 1
  /\ vtabs \subseteq 0 .. COLS /\ cut \in BOOLEAN /\ spilt \in BOOLEAN

(* The emulator and the window agree on the scrolling region, it is never  *)
(* empty, and inserting or deleting lines, which changes it for a while,   *)
(* puts it back (state2, vtty_winsline, vtty_wdelline, vt_pinit).          *)
RegionsAgree ==
  /\ newy = <<vw.sy1 - vw.y1, vw.sy2 - vw.y1>>
  /\ 0 <= newy[1] /\ newy[1] < newy[2] /\ newy[2] < LINES
  /\ vw.doscroll

(* A sequence begins without the parameters of an earlier one, unless one  *)
(* was cut short since the last that ended (vt_out, state2, state3).       *)
ParmsFresh == esc \in {0, 1} /\ ~cut => ptr = 0 /\ parms = NoParms

(* The emulator, its window and the display behind that; of the emulator   *)
(* until a sequence has more parameters than there are places for.         *)
TerminalSound == WindowSound /\ (~spilt => RegionsAgree /\ ParmsFresh)
=============================================================================
