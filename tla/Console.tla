------------------------------ MODULE Console ------------------------------
(***************************************************************************)
(* The keyboard from the controller to an application: the console process *)
(* (sys/bootstrap/console.c, console-kbd_.c), whose device has one screen  *)
(* per open session, and the processes that use it through the driver of   *)
(* the terminal library (consio_vtdrv.c, keyb.c).                          *)
(*                                                                         *)
(* The requests of the processes reach the console in their order, by the  *)
(* kernel's user device (module Bus).  The console's two ASTs and the LWTs *)
(* of a process run one at a time, up to where they wait; the processes    *)
(* and the interrupts are concurrent.                                      *)
(***************************************************************************)
EXTENDS Integers, SequencesExt

CONSTANTS Screens,     \* numbers of sessions of the console: 0, 1, ...
          KbdBufSize,  \* KBDBUF_SIZE
          ClistSize,   \* CLIST_SIZE
          KeyMax       \* bound: scan codes

ASSUME ConsoleAssumption ==
  0 \in Screens /\ Screens \subseteq Nat /\ KbdBufSize \in Nat \ {0, 1} /\ ClistSize \in Nat \ {0}

VARIABLES kstate,    \* state of getkey: a modifier is down
          kcount,    \* scan codes so far
          screens,   \* [screen -> [active, req, fpos, wpos, buf]]
          curscr,    \* cur_screen
          ioreqs,    \* requests that devpoll has still to return: <<op, screen>>
          iospace,   \* [screen -> [KBDATA, DEVSTS]], the I/O space of the session
          kraised,   \* screens with a KBDATA interrupt that is not delivered
          vt,        \* [screen -> its process: [pc, evt, cevt, clist, rd, own]]
          kacc,      \* [screen -> the keys that went into kbdbuf since the open]
          kgot,      \* [screen -> the keys that the application has read]
          vtabort    \* processes in which an assertion has failed

consVars == <<kstate, kcount, screens, curscr, ioreqs, iospace, kraised, vt, kacc, kgot, vtabort>>
process == <<vt, kgot, vtabort>>

NewScreen(sc, a) == [sc EXCEPT !.active = a, !.req = FALSE, !.fpos = 0, !.wpos = 0]
NewVt(pc) == [pc |-> pc, evt |-> FALSE, cevt |-> FALSE, clist |-> <<>>, rd |-> "get", own |-> TRUE]

ConsoleInit ==
  /\ kstate = FALSE /\ kcount = 0 /\ curscr = 0 /\ ioreqs = <<>> /\ kraised = {} /\ vtabort = {}
  /\ screens = [s \in Screens |-> [active |-> FALSE, req |-> FALSE, fpos |-> 0, wpos |-> 0,
                                buf |-> [i \in 0..(KbdBufSize - 1) |-> 0]]]
  /\ iospace = [s \in Screens |-> [KBDATA |-> 0, DEVSTS |-> FALSE]]
  /\ vt = [s \in Screens |-> NewVt("closed")]
  /\ kacc = [s \in Screens |-> <<>>] /\ kgot = [s \in Screens |-> <<>>]

-----------------------------------------------------------------------------
(* getkey: the key of a scan code, 0 when there is none.  A key is a       *)
(* number; with a modifier it is another key, a function key as well.      *)
ScanCodes == {"mod", "modup", "key", "keyup", "fn"}
GetKey(sc, n) ==
  [st  |-> CASE sc = "mod" -> TRUE [] sc = "modup" -> FALSE [] OTHER -> kstate,
   key |-> IF sc = "key" \/ (sc = "fn" /\ kstate) THEN n ELSE 0]

(* kbdfetch.                                                               *)
Fetched(sc) == IF sc.wpos = sc.fpos THEN 0 ELSE sc.buf[sc.fpos]
AfterFetch(sc) == IF sc.wpos = sc.fpos THEN sc
                  ELSE [sc EXCEPT !.fpos = (@ + 1) % KbdBufSize]

(* devsts_kbdata_update of the screen s, whose state is sc.                *)
KbdataUpdate(s, sc) ==
  LET val == Fetched(sc)
  IN  /\ screens' = [screens EXCEPT ![s] =
                       IF val = 0 THEN [AfterFetch(sc) EXCEPT !.req = TRUE] ELSE AfterFetch(sc)]
      /\ iospace' = [iospace EXCEPT ![s].KBDATA = val, ![s].DEVSTS = @ \/ val # 0]
      /\ kraised' = IF val # 0 THEN kraised \cup {s} ELSE kraised

(* kbdbuf_add, for the current screen.                                     *)
KbdbufFullNot(sc) == FALSE       \* mutant: no check for overflow
KbdbufFull(sc) == (sc.wpos + 1) % KbdBufSize = sc.fpos
KbdbufAdd(key) ==
  LET old == screens[curscr]
      sc  == [old EXCEPT !.buf[old.wpos] = key, !.wpos = (@ + 1) % KbdBufSize, !.req = FALSE]
  IN  IF KbdbufFull(old) THEN UNCHANGED <<screens, iospace, kraised, kacc>>
      ELSE /\ kacc' = [kacc EXCEPT ![curscr] = Append(@, key)]
           /\ IF old.req THEN KbdataUpdate(curscr, sc)
              ELSE screens' = [screens EXCEPT ![curscr] = sc] /\ UNCHANGED <<iospace, kraised>>

(* __kbd_ast for one scan code; console_switch for a function key.         *)
KbdAst(sc, to) ==
  /\ kcount < KeyMax /\ kcount' = kcount + 1
  /\ kstate' = GetKey(sc, kcount + 1).st
  /\ IF sc = "fn" /\ ~kstate
     THEN /\ curscr' = IF screens[to].active THEN to ELSE curscr
          /\ UNCHANGED <<screens, iospace, kraised, kacc>>
     ELSE /\ UNCHANGED curscr
          /\ IF GetKey(sc, kcount + 1).key = 0 THEN UNCHANGED <<screens, iospace, kraised, kacc>>
             ELSE KbdbufAdd(kcount + 1)
  /\ UNCHANGED <<ioreqs, process>>

(* __console_io_ast for one request.                                       *)
ConsoleIoAst ==
  /\ ioreqs # <<>> /\ ioreqs' = Tail(ioreqs)
  /\ LET op == Head(ioreqs)[1]  s == Head(ioreqs)[2]
     IN  CASE op = "out" -> KbdataUpdate(s, screens[s]) /\ UNCHANGED kacc
           [] op = "open" ->
                /\ screens' = [screens EXCEPT ![s] = NewScreen(@, TRUE)]
                /\ kacc' = [kacc EXCEPT ![s] = <<>>] /\ UNCHANGED <<iospace, kraised>>
           [] op = "close" ->
                /\ screens' = [screens EXCEPT ![s] = NewScreen(@, FALSE)]
                /\ UNCHANGED <<iospace, kraised, kacc>>
           [] op = "clone" ->
                LET c == Head(ioreqs)[3]
                IN  /\ screens' = [screens EXCEPT ![c] =
                          [@ EXCEPT !.active = TRUE, !.req = screens[s].req,
                                    !.fpos = screens[s].fpos, !.wpos = screens[s].fpos]]
                    /\ kacc' = [kacc EXCEPT ![c] = <<>>] /\ UNCHANGED <<iospace, kraised>>
  /\ UNCHANGED <<kstate, kcount, curscr, process>>

-----------------------------------------------------------------------------
(* A process opens the console (vtdrv_init), or closes it, also by exit;   *)
(* the session can be given away again when the console has seen that.     *)
Unchanged(s) == UNCHANGED <<kstate, kcount, screens, curscr, iospace, kacc>>
VtdrvInit(s) ==
  /\ vt[s].pc = "closed" /\ <<"close", s>> \notin ToSet(ioreqs)
  /\ vt' = [vt EXCEPT ![s] = NewVt("ask")] /\ kgot' = [kgot EXCEPT ![s] = <<>>]
  /\ ioreqs' = Append(ioreqs, <<"open", s>>) /\ kraised' = kraised \ {s}
  /\ UNCHANGED vtabort /\ Unchanged(s)
VtdrvExit(s) ==
  /\ vt[s].pc # "closed"
  /\ vt' = [vt EXCEPT ![s] = NewVt("closed")] /\ vtabort' = vtabort \ {s}
  /\ ioreqs' = Append(ioreqs, <<"close", s>>) /\ kraised' = kraised \ {s}
  /\ UNCHANGED kgot /\ Unchanged(s)

(* A fork, while the keyboard LWT waits: the child goes on in a session of *)
(* its own, with a copy of the I/O space and of the process.               *)
Fork(s, c) ==
  /\ vt[s].pc = "wait" /\ vt[c].pc = "closed" /\ <<"close", c>> \notin ToSet(ioreqs)
  /\ vt' = [vt EXCEPT ![c] = [vt[s] EXCEPT !.own = FALSE]]
  /\ kgot' = [kgot EXCEPT ![c] = <<>>]
  /\ iospace' = [iospace EXCEPT ![c] = iospace[s]]
  /\ ioreqs' = Append(ioreqs, <<"clone", s, c>>) /\ kraised' = kraised \ {c}
  /\ UNCHANGED <<kstate, kcount, screens, curscr, kacc, vtabort>>

(* The interrupt sets keybevt.                                             *)
KbdIrq(s) ==
  /\ s \in kraised /\ s \notin vtabort
  /\ kraised' = kraised \ {s} /\ vt' = [vt EXCEPT ![s].evt = TRUE]
  /\ UNCHANGED <<ioreqs, kgot, vtabort>> /\ Unchanged(s)

(* _clist_add: in a new chunk, the key is put where the old one ends.      *)
ClistAdd(cl, key) ==
  IF cl = <<>> THEN <<[read |-> 0, written |-> 1, buf |-> <<key>>]>>
  ELSE LET last == cl[Len(cl)]
       IN  IF last.written >= ClistSize
           THEN Append([cl EXCEPT ![Len(cl)].written = @ + 1], [read |-> 0, written |-> 0, buf |-> <<>>])
           ELSE [cl EXCEPT ![Len(cl)] =
                   [read |-> last.read, written |-> last.written + 1, buf |-> Append(last.buf, key)]]

(* __lwt_vttykbd: it asks for data, waits for the interrupt, takes the key *)
(* and tells the reader, clears the event.                                 *)
VtAt(s, pc) == vt[s].pc = pc /\ s \notin vtabort
VtAsk(s) ==
  /\ VtAt(s, "ask")
  /\ ioreqs' = Append(ioreqs, <<"out", s>>) /\ vt' = [vt EXCEPT ![s].pc = "wait"]
  /\ UNCHANGED <<kraised, kgot, vtabort>> /\ Unchanged(s)
VtTake(s) ==
  /\ VtAt(s, "wait") /\ vt[s].evt
  /\ vt' = [vt EXCEPT ![s].pc = "clear", ![s].cevt = TRUE,
                      ![s].clist = ClistAdd(@, iospace[s].KBDATA)]
  /\ UNCHANGED <<ioreqs, kraised, kgot, vtabort>> /\ Unchanged(s)
VtClear(s) ==
  /\ VtAt(s, "clear")
  /\ vt' = [vt EXCEPT ![s].pc = "ask", ![s].evt = FALSE]
  /\ UNCHANGED <<ioreqs, kraised, kgot, vtabort>> /\ Unchanged(s)

(* vtty_kgetcw: clist_fetch, and when there is nothing the wait for        *)
(* clistevt, after which clist_fetch may find nothing again.               *)
VtRead(s) ==
  /\ vt[s].pc \notin {"closed"} /\ s \notin vtabort
  /\ vt[s].rd = "wait" => vt[s].cevt
  /\ vt[s].clist = <<>> => vt[s].rd = "get"
  /\ LET c == IF vt[s].rd = "wait" THEN FALSE ELSE vt[s].cevt
         f == vt[s].clist[1]
         rest == IF f.read + 1 = f.written THEN Tail(vt[s].clist)
                 ELSE [vt[s].clist EXCEPT ![1].read = @ + 1]
     IN  IF vt[s].clist = <<>> THEN vt' = [vt EXCEPT ![s].rd = "wait"] /\ UNCHANGED <<kgot, vtabort>>
         ELSE IF f.written > ClistSize THEN vtabort' = vtabort \cup {s} /\ UNCHANGED <<vt, kgot>>
         ELSE /\ vt' = [vt EXCEPT ![s].clist = rest, ![s].cevt = c, ![s].rd = "get"]
              /\ kgot' = [kgot EXCEPT ![s] = Append(@, f.buf[f.read + 1])]
              /\ UNCHANGED vtabort
  /\ UNCHANGED <<ioreqs, kraised>> /\ Unchanged(s)
VtReadNothing(s) ==
  /\ vt[s].rd = "wait" /\ vt[s].cevt /\ vt[s].clist = <<>> /\ vt[s].pc # "closed"
  /\ vt' = [vt EXCEPT ![s].rd = "get", ![s].cevt = FALSE]
  /\ UNCHANGED <<ioreqs, kraised, kgot, vtabort>> /\ Unchanged(s)

ConsoleStep ==
  \/ ConsoleIoAst
  \/ \E s \in Screens : KbdIrq(s) \/ VtAsk(s) \/ VtTake(s) \/ VtClear(s) \/ VtRead(s) \/ VtReadNothing(s)
ConsoleNext ==
  \/ ConsoleStep
  \/ \E sc \in ScanCodes, to \in Screens : (sc # "fn" => to = 0) /\ KbdAst(sc, to)
  \/ \E s \in Screens : VtdrvInit(s) \/ VtdrvExit(s) \/ \E c \in Screens : Fork(s, c)
ConsoleSpec == ConsoleInit /\ [][ConsoleNext]_consVars

-----------------------------------------------------------------------------
(* Type invariant.                                                         *)
ConsoleTypeOK ==
  /\ curscr \in Screens /\ kraised \subseteq Screens /\ vtabort \subseteq Screens
  /\ \A s \in Screens : screens[s].fpos \in 0..(KbdBufSize - 1) /\ screens[s].wpos \in 0..(KbdBufSize - 1)
  /\ \A s \in Screens : vt[s].pc \in {"closed", "ask", "wait", "clear"}

(* Between the console having seen the open of a session and its end, the  *)
(* keys that went into the screen's buffer are, in their order and each    *)
(* once, those the application has read, those in its clist, the one on    *)
(* the way, and those in the buffer, whatever screen is current meanwhile. *)
RingKeys(sc) ==
  [i \in 1..((sc.wpos + KbdBufSize - sc.fpos) % KbdBufSize) |-> sc.buf[(sc.fpos + i - 1) % KbdBufSize]]
ClistKeys(cl) == FlattenSeq([i \in DOMAIN cl |-> SubSeq(cl[i].buf, cl[i].read + 1, Len(cl[i].buf))])
OnTheWay(s) == s \in kraised \/ (vt[s].evt /\ vt[s].pc = "wait")
KeysOnce ==
  \A s \in Screens :
    vt[s].pc # "closed" /\ vt[s].own /\ screens[s].active /\ <<"open", s>> \notin ToSet(ioreqs) =>
      kacc[s] = kgot[s] \o ClistKeys(vt[s].clist)
                \o (IF OnTheWay(s) THEN <<iospace[s].KBDATA>> ELSE <<>>) \o RingKeys(screens[s])

(* No process that has opened the console waits for a key for nothing: its *)
(* request is on the way, or noted on its screen, or the answer is on the  *)
(* way, and a screen with the request noted has no key in its buffer.  (A  *)
(* forked process may wait for the answer that only its parent got.)       *)
AskedAnswered ==
  \A s \in Screens :
    /\ vt[s].pc = "wait" /\ vt[s].own => OnTheWay(s) \/ screens[s].req \/ <<"out", s>> \in ToSet(ioreqs)
    /\ screens[s].req => screens[s].fpos = screens[s].wpos

(* No key is lost, doubled or held back between keyboard and application.  *)
ConsoleSound == KeysOnce /\ AskedAnswered
=============================================================================
