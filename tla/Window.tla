------------------------------- MODULE Window -------------------------------
(***************************************************************************)
(* The windows of the terminal library (lib/libvtty/window.c), its driver  *)
(* (consio_vtdrv.c) and the display of the console process (console.c,     *)
(* console-vga.c).  The library keeps an image of the screen (gmap) and    *)
(* the position where it believes the cursor of the display to be, and     *)
(* sends only what it thinks is needed.                                    *)
(*                                                                         *)
(* One process with one window, as wide as the screen: the whole of it     *)
(* (bootstrap.c) or the rows below a title (klogger.c).  Its screen may    *)
(* not be the one displayed; the console then drops its output and asks    *)
(* for it again with an interrupt.  Attributes and colours are left out.   *)
(***************************************************************************)
EXTENDS Integers

CONSTANTS COLS, LINES,  \* size of the screen
          TabSize,      \* 8
          MaxCall       \* bound: calls of the process, and switches

ASSUME WindowAssumption == /\ {COLS, LINES, TabSize, MaxCall} \subseteq Nat
                           /\ COLS > 1 /\ LINES > 3 /\ TabSize > 0 /\ COLS % TabSize = 0

VARIABLES tty,      \* library and display: see NewTty
          win,      \* the window: see NewWin
          redraw,   \* CONSIO_IRQ_REDRAW has been raised
          torn,     \* the display is not what the library believes: see below
          ncall     \* calls and switches so far

windowVars == <<tty, win, redraw, torn, ncall>>

Cells == (0 .. COLS - 1) \X (0 .. LINES - 1)
Title == "t"
High == "h"           \* a character with bit 7 set
Printable == {"a", High}
Control == {"CR", "NL", "BS", "HT"}

(* g: gmap.  cx, cy: curx, cury.  last: x0, y0, c0 of _write.  m, dx, dy:  *)
(* memory, xpos, ypos of the display.  on: the screen is the current one.  *)
(* saved: dsp_opq, the position saved for this screen.                     *)
NewTty(y1, y2) ==
  LET image == [p \in Cells |-> IF p[2] < y1 THEN Title ELSE " "]
  IN [g |-> image, cx |-> 0, cy |-> y1, last |-> <<COLS - 1, y2, " ">>,
      m |-> image, dx |-> 0, dy |-> y1, on |-> TRUE, saved |-> <<>>]
NewWin(y1, y2) == [y1 |-> y1, y2 |-> y2, sy1 |-> y1, sy2 |-> y2, curx |-> 0, cury |-> 0,
                   wrap |-> TRUE, direct |-> TRUE, doscroll |-> TRUE]
Ys(w) == w.y2 - w.y1 + 1

(* vtty_init, vtty_wopen and vtty_wredraw, by either program.              *)
WindowInit ==
  \E r \in {<<0, LINES - 1>>, <<1, LINES - 2>>} :
    /\ tty = NewTty(r[1], r[2]) /\ win = NewWin(r[1], r[2])
    /\ redraw = FALSE /\ torn = FALSE /\ ncall = 0

-----------------------------------------------------------------------------
(* console_vga_goto, console_vga_putc, scroll and upscroll.  A character   *)
(* in the last column takes the cursor to the next row, if there is one;   *)
(* upscroll leaves the first row as it is.                                 *)
vga_goto(s, x, y) == IF s.on THEN [s EXCEPT !.dx = x, !.dy = y] ELSE s
vga_putc(s, c) ==
  IF ~s.on THEN s
  ELSE [s EXCEPT !.m[<<s.dx, s.dy>>] = c,
                 !.dx = IF @ + 1 < COLS THEN @ + 1 ELSE 0,
                 !.dy = IF s.dx + 1 < COLS \/ @ >= LINES - 1 THEN @ ELSE @ + 1]
RowsUp(m) == [p \in Cells |-> IF p[2] = LINES - 1 THEN " " ELSE m[<<p[1], p[2] + 1>>]]
RowsDown(m, top) == [p \in Cells |-> IF p[2] = 0 THEN top[p] ELSE m[<<p[1], p[2] - 1>>]]
vga_scroll(s) == IF s.on THEN [s EXCEPT !.m = RowsUp(@)] ELSE s
vga_upscroll(s) == IF s.on THEN [s EXCEPT !.m = RowsDown(@, @)] ELSE s

(* _gotoxy: nothing is sent when the cursor is believed to be there.       *)
gotoxyTrusting(s, x, y) ==           \* mutant: only the column is looked at
  IF x >= COLS \/ y >= LINES \/ x = s.cx THEN s
  ELSE [vga_goto(s, x, y) EXCEPT !.cx = x, !.cy = y]
gotoxy(s, x, y) ==
  IF x >= COLS \/ y >= LINES \/ (x = s.cx /\ y = s.cy) THEN s
  ELSE [vga_goto(s, x, y) EXCEPT !.cx = x, !.cy = y]

(* _write: to the screen (doit # 0), to memory (doit >= 0).  The cursor is *)
(* not set when the last character was High and this one is next to it.    *)
write(s, c, doit, x, y) ==
  LET near == s.last[1] + 1 = x /\ s.last[2] = y /\ s.last[3] = High
      s1 == IF doit = 0 THEN s
            ELSE [vga_putc(IF near THEN s ELSE gotoxy(s, x, y), c) EXCEPT
                    !.last = <<x, y, c>>, !.cx = @ + 1]
  IN IF x >= COLS \/ y >= LINES THEN s
     ELSE IF doit >= 0 THEN [s1 EXCEPT !.g[<<x, y>>] = c] ELSE s1

(* The loops over _write: the cells of row y from x1 to x2, and the rows   *)
(* from y1 to y2 or back, with the values of val.                          *)
Loop(x, Op(_, _), n) == LET a[i \in 0..n] == IF i = 0 THEN x ELSE Op(a[i - 1], i) IN a[n]
Count(a, b) == IF b < a THEN 0 ELSE b - a + 1
PaintRow(s, x1, x2, y, val, doit) ==
  Loop(s, LAMBDA t, i : write(t, val[<<x1 + i - 1, y>>], doit, x1 + i - 1, y), Count(x1, x2))
PaintRows(s, y1, y2, back, val, doit) ==
  Loop(s, LAMBDA t, i : PaintRow(t, 0, COLS - 1, IF back THEN y2 - i + 1 ELSE y1 + i - 1, val, doit),
       Count(y1, y2))
Blank == [p \in Cells |-> " "]
Doit(w) == IF w.direct THEN 1 ELSE 0
GotoCursor(s, w) == IF w.direct THEN gotoxy(s, w.curx, w.y1 + w.cury) ELSE s

(* _wclreol.                                                               *)
clreol(s, w) == PaintRow(s, w.curx, COLS - 1, w.y1 + w.cury, Blank, Doit(w))

-----------------------------------------------------------------------------
(* The operations, on r = [s |-> library and display, w |-> window].       *)

Clip(i, n) == IF i < 0 THEN 0 ELSE IF i >= n THEN n - 1 ELSE i
vtty_wlocate(r, x, y) ==
  LET w == [r.w EXCEPT !.curx = Clip(x, COLS), !.cury = Clip(y, Ys(r.w))]
  IN [s |-> GotoCursor(r.s, w), w |-> w]

(* vtty_wscroll: a window as high as the screen scrolls the display, any   *)
(* other is written again, row by row.                                     *)
ScrollDisplay(r, dir) ==
  IF dir = "up" THEN vga_scroll(gotoxy(r.s, 0, LINES - 1)) ELSE vga_upscroll(gotoxy(r.s, 0, 0))
vtty_wscroll(r, dir, intern) ==
  LET w0 == r.w
      g == r.s.g
      phys == w0.direct /\ LINES = w0.sy2 - w0.sy1 + 1
      w == [w0 EXCEPT !.cury = (IF dir = "up" THEN w0.sy2 ELSE w0.sy1) - w0.y1]
      moved == IF dir = "up"
               THEN PaintRows(r.s, w0.sy1, w0.sy2 - 1, FALSE, RowsUp(g), Doit(w0))
               ELSE PaintRows(r.s, w0.sy1 + 1, w0.sy2, TRUE, RowsDown(g, Blank), Doit(w0))
      s == IF phys
           THEN [ScrollDisplay(r, dir) EXCEPT
                   !.g = IF dir = "up" THEN RowsUp(@) ELSE RowsDown(@, Blank)]
           ELSE clreol(moved, [w EXCEPT !.curx = 0])
  IN [s |-> IF intern THEN s ELSE GotoCursor(s, w), w |-> w]

(* vtty_wputc.                                                             *)
NextRow(r) ==
  LET w == [r.w EXCEPT !.curx = 0, !.cury = @ + 1]
      r1 == IF w.cury # w.sy2 - w.y1 + 1 THEN [r EXCEPT !.w = w]
            ELSE IF w.doscroll THEN vtty_wscroll([r EXCEPT !.w = w], "up", FALSE)
            ELSE [r EXCEPT !.w = [w EXCEPT !.cury = w.sy1 - w.y1]]
  IN [r1 EXCEPT !.w.cury = IF @ >= Ys(w) THEN Ys(w) - 1 ELSE @]
PutHere(r, c) ==
  LET w == r.w
      s == write(r.s, IF ~w.wrap /\ w.curx >= COLS THEN ">" ELSE c, Doit(w), w.curx, w.y1 + w.cury)
  IN IF w.curx + 1 >= COLS /\ ~w.wrap
     THEN [s |-> [s EXCEPT !.cx = 0], w |-> w]
     ELSE [s |-> s, w |-> [w EXCEPT !.curx = @ + 1]]
PutMoved(r) == [r EXCEPT !.s = GotoCursor(@, r.w)]
PutChar(r, c) ==
  LET wraps == r.w.curx >= COLS /\ r.w.wrap
      r1 == PutHere(IF wraps THEN NextRow(r) ELSE r, c)
  IN IF wraps \/ (r.w.curx + 1 >= COLS /\ ~r.w.wrap) THEN PutMoved(r1) ELSE r1
PutChars(r, c, n) == Loop(r, LAMBDA a, i : PutChar(a, c), n)
vtty_wputc(r, c) ==
  CASE c = "CR" -> PutMoved([r EXCEPT !.w.curx = 0])
    [] c = "BS" -> IF r.w.curx = 0 THEN r ELSE PutMoved([r EXCEPT !.w.curx = @ - 1])
    [] c = "NL" -> PutMoved(NextRow(r))
    [] c = "HT" -> PutChars(r, " ", TabSize - (r.w.curx % TabSize))
    [] OTHER -> PutChar(r, c)

vtty_wclrch(r, n) ==
  LET y == r.w.y1 + r.w.cury
      last == IF r.w.curx + n - 1 > COLS - 1 THEN COLS - 1 ELSE r.w.curx + n - 1
      s == IF r.w.direct THEN gotoxy(r.s, 0, y) ELSE r.s
  IN [r EXCEPT !.s = PaintRow(s, r.w.curx, last, y, Blank, Doit(r.w))]
vtty_wclrel(r) ==
  vtty_wlocate([r EXCEPT !.s = clreol(@, [r.w EXCEPT !.curx = 0])], r.w.curx, r.w.cury)
vtty_wclreol(r) == [r EXCEPT !.s = GotoCursor(clreol(@, r.w), r.w)]
vtty_wclrbol(r) ==
  LET y == r.w.y1 + r.w.cury
      n == IF r.w.curx > COLS - 1 THEN COLS - 1 ELSE r.w.curx
      s == PaintRow(IF r.w.direct THEN gotoxy(r.s, 0, y) ELSE r.s, 0, n, y, Blank, Doit(r.w))
  IN [r EXCEPT !.s = IF r.w.direct THEN gotoxy(s, n, y) ELSE s]
vtty_wclreos(r) ==
  LET s == PaintRows(r.s, r.w.y1 + r.w.cury + 1, r.w.y2, FALSE, Blank, Doit(r.w))
  IN [r EXCEPT !.s = GotoCursor(clreol(s, r.w), r.w)]
vtty_wclrbos(r) ==
  vtty_wclrbol([r EXCEPT !.s =
                  PaintRows(@, r.w.y1, r.w.y1 + r.w.cury - 1, FALSE, Blank, Doit(r.w))])
vtty_winclr(r) ==
  [s |-> gotoxy(PaintRows(r.s, r.w.y1, r.w.y2, TRUE, Blank, Doit(r.w)), 0, r.w.y1),
   w |-> [r.w EXCEPT !.curx = 0, !.cury = 0]]

(* vtty_winsline and vtty_wdelline scroll the region from the cursor on.   *)
FromCursor(w) == [w EXCEPT !.sy1 = IF w.y1 + w.cury < @ THEN @ ELSE w.y1 + w.cury,
                           !.sy2 = IF w.y2 > @ THEN @ ELSE w.y2]
Region(r, w) == [r EXCEPT !.w.sy1 = w.sy1, !.w.sy2 = w.sy2]
vtty_winsline(r) == Region(vtty_wscroll([r EXCEPT !.w = FromCursor(@)], "down", FALSE), r.w)
vtty_wdelline(r) ==
  Region(vtty_wlocate(vtty_wscroll([r EXCEPT !.w = FromCursor(@)], "up", TRUE), 0, r.w.cury), r.w)

(* vtty_winschar2 and vtty_wdelchar.                                       *)
vtty_winschar2(r, c, move) ==
  LET y == r.w.y1 + r.w.cury
      old == [p \in Cells |-> IF p[1] = 0 THEN " " ELSE r.s.g[<<p[1] - 1, p[2]>>]]
      r1 == PutChar(r, c)
      w == IF move THEN r1.w ELSE [r1.w EXCEPT !.curx = r.w.curx]
      s == PaintRow(r1.s, r.w.curx + 1, COLS - 1, y, old, Doit(r.w))
  IN IF r.w.curx >= COLS - 1 THEN PutChar(r, c)
     ELSE vtty_wlocate([s |-> s, w |-> w], w.curx, w.cury)
vtty_wdelchar(r) ==
  LET y == r.w.y1 + r.w.cury
      next == [p \in Cells |-> IF p[1] = COLS - 1 THEN " " ELSE r.s.g[<<p[1] + 1, p[2]>>]]
  IN vtty_wlocate([r EXCEPT !.s = PaintRow(@, r.w.curx, COLS - 1, y, next, Doit(r.w))],
                  r.w.curx, r.w.cury)

(* vtty_wredraw.                                                           *)
vtty_wredraw(r) ==
  LET s == gotoxy(r.s, 0, r.w.y1)
      s1 == PaintRows(s, r.w.y1, r.w.y2, FALSE, s.g, -1)
  IN [s |-> gotoxy(s1, r.w.curx, r.w.y1 + r.w.cury), w |-> [r.w EXCEPT !.direct = TRUE]]

(* state6 of vt100.c: the test screen, drawn in memory and then shown.     *)
Selftest(r) ==
  LET w == [r.w EXCEPT !.doscroll = FALSE, !.direct = FALSE]
      full == Loop([r EXCEPT !.w = w], LAMBDA a, i : PutChars(vtty_wlocate(a, 0, i - 1), "E", COLS), Ys(w))
      home == vtty_wlocate(full, 0, 0)
  IN vtty_wredraw([home EXCEPT !.w.doscroll = TRUE])

-----------------------------------------------------------------------------
(* One call of the process.  `tears' tells when the call leaves the        *)
(* display other than the library believes.                                *)
Calls(r, tears) ==
  /\ ncall < MaxCall /\ ncall' = ncall + 1
  /\ tty' = r.s /\ win' = r.w
  /\ torn' = (torn \/ tears)
  /\ UNCHANGED redraw
Now == [s |-> tty, w |-> win]

(* Not wrapping, a character past the last column makes the library        *)
(* believe in a cursor in column 0.                                        *)
Put(c) ==
  /\ c = "HT" => win.wrap              \* the loop for HT would not end
  /\ Calls(vtty_wputc(Now, c), c \in Printable /\ ~win.wrap /\ win.curx >= COLS)

Locate(x, y) == Calls(vtty_wlocate(Now, x, y), FALSE)

(* The first character cleared is put in column 0 if the one before the    *)
(* cursor was the last written, and High.                                  *)
ClearChars(n) ==
  Calls(vtty_wclrch(Now, n), /\ win.curx \in 1 .. COLS - 1
                             /\ tty.last = <<win.curx - 1, win.y1 + win.cury, High>>)
Clear ==
  \E r \in {vtty_wclrel(Now), vtty_wclreol(Now), vtty_wclrbol(Now), vtty_wclreos(Now),
            vtty_wclrbos(Now), vtty_winclr(Now)} : Calls(r, FALSE)

(* upscroll does not clear the first row of the display.                   *)
RowShows == \E x \in 0 .. COLS - 1 : tty.m[<<x, 0>>] # " "
Physical(w) == w.sy2 - w.sy1 + 1 = LINES
Scroll(dir) == Calls(vtty_wscroll(Now, dir, FALSE), dir = "down" /\ Physical(win) /\ RowShows)
InsertLine == Calls(vtty_winsline(Now), Physical(FromCursor(win)) /\ RowShows)
DeleteLine == Calls(vtty_wdelline(Now), FALSE)
InsertChar == Calls(vtty_winschar2(Now, " ", FALSE), ~win.wrap /\ win.curx >= COLS)
DeleteChar == Calls(vtty_wdelchar(Now), FALSE)

(* vtty_wsetregion and the flag wrap, as vt100.c sets them.                *)
SetRegion(a, b) == Calls([Now EXCEPT !.w.sy1 = win.y1 + a, !.w.sy2 = win.y1 + b], FALSE)
SetWrap == Calls([Now EXCEPT !.w.wrap = ~win.wrap], FALSE)

(* Drawing in memory without wrapping also puts the cursor in column 0.    *)
Test == Calls(Selftest(Now), ~win.wrap /\ tty.cy = win.y1 /\ tty.cx # 0)

-----------------------------------------------------------------------------
(* console_switch to another screen, which writes on the display, and back *)
(* to this one.                                                            *)
Foreign == [p \in Cells |-> "?"]
SwitchAway ==
  /\ tty.on /\ ncall < MaxCall /\ ncall' = ncall + 1
  /\ tty' = [tty EXCEPT !.on = FALSE, !.saved = <<tty.dx, tty.dy>>, !.m = Foreign]
  /\ UNCHANGED <<win, redraw, torn>>
SwitchBack ==
  /\ ncall < MaxCall /\ ncall' = ncall + 1
  /\ tty' = IF tty.on THEN tty
            ELSE [tty EXCEPT !.on = TRUE, !.dx = tty.saved[1], !.dy = tty.saved[2], !.saved = <<>>]
  /\ redraw' = TRUE
  /\ UNCHANGED <<win, torn>>

(* __redraw: a character that the library does not know of, and then       *)
(* vtty_wrestore, whose first _gotoxy may find nothing to do.              *)
vtty_wrestore(s) ==
  gotoxy(PaintRows(gotoxy(s, 0, 0), 0, LINES - 1, FALSE, s.g, -1), s.cx, s.cy)
Redraw ==
  /\ redraw /\ redraw' = FALSE
  /\ tty' = vtty_wrestore(vga_putc(vga_goto(tty, 0, 0), "1"))
  /\ torn' = (tty.cx = 0 /\ tty.cy = 0)
  /\ UNCHANGED <<win, ncall>>

WindowNext ==
  \/ \E c \in Printable \cup Control : Put(c)
  \/ \E x \in 0 .. COLS - 1, y \in 0 .. Ys(win) - 1 : Locate(x, y)
  \/ \E n \in {1, 2} : ClearChars(n)
  \/ Clear
  \/ \E dir \in {"up", "down"} : Scroll(dir)
  \/ InsertLine \/ DeleteLine \/ InsertChar \/ DeleteChar
  \/ \E a, b \in 0 .. Ys(win) - 1 : a < b /\ SetRegion(a, b)
  \/ SetWrap \/ Test
  \/ SwitchAway \/ SwitchBack \/ Redraw

WindowSpec == WindowInit /\ [][WindowNext]_windowVars

-----------------------------------------------------------------------------
(* Type invariant.                                                         *)
WindowTypeOK ==
  /\ tty.g \in [Cells -> Printable \cup {" ", "E", Title, ">"}]
  /\ DOMAIN tty.m = Cells
  /\ tty.dx \in 0 .. COLS - 1 /\ tty.dy \in 0 .. LINES - 1
  /\ win.curx \in 0 .. COLS /\ win.cury \in 0 .. Ys(win) - 1
  /\ redraw \in BOOLEAN /\ torn \in BOOLEAN

(* The display shows the image that the library keeps: skipping a cursor   *)
(* movement, scrolling by the hardware and being switched away never lose  *)
(* a character (window.c: _gotoxy, _write, vtty_wscroll; console.c).       *)
ScreenShows == tty.on /\ ~redraw /\ ~torn => tty.m = tty.g

(* What is outside the window stays: the title of the kernel log           *)
(* (klogger.c) survives scrolling, inserting and clearing in the view.     *)
TitleKept == \A p \in Cells : (p[2] < win.y1) = (tty.g[p] = Title)

(* The window and the display behind it.                                   *)
WindowSound == ScreenShows /\ TitleKept
=============================================================================
