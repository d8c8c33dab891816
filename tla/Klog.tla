-------------------------------- MODULE Klog --------------------------------
(***************************************************************************)
(* The kernel log: the ring buffer and the device of ukern/src/klogdev.c,  *)
(* and the process that shows it, sys/bootstrap/klogger.c.                 *)
(*                                                                         *)
(* klog_putc and _klog_getc read the indices before they take the lock     *)
(* that protects them; on one CPU nothing happens in between.  The AST of  *)
(* the reader runs as Lwt describes.                                       *)
(***************************************************************************)
EXTENDS Integers, Sequences, FiniteSets

CONSTANTS KlogBufSz,   \* KLOGBUFSZ
          KlogCpus,    \* CPUs that print
          KlogChars    \* bound: characters printed

ASSUME KlogAssumption == KlogBufSz \in Nat \ {0} /\ KlogChars \in Nat /\ IsFiniteSet(KlogCpus)

VARIABLES kbuf, kc, kp, logsize,   \* klogbuf, _c, _p
          kput,      \* [cpu -> indices read by a klog_putc in progress, or <<>>]
          kget,      \* the same for _klog_getc
          kdev,      \* [bsy, isr, ie, sig]: state of the device
          krd,       \* where the reader stands
          kast,      \* the AST is to run (again)
          kin,       \* characters that went into the buffer, in order
          kout,      \* characters that the reader has got
          kchar      \* characters printed

klogVars == <<kbuf, kc, kp, logsize, kput, kget, kdev, krd, kast, kin, kout, kchar>>

seqWide(v) == (v + 1) % (KlogBufSz + 1)   \* mutant: the mask is too wide
seq(v) == (v + 1) % KlogBufSz
OneCpu == Cardinality(KlogCpus) = 1

KlogInit ==
  /\ kbuf = [i \in 0..(KlogBufSz - 1) |-> 0] /\ kc = 0 /\ kp = 0 /\ logsize = 0
  /\ kput = [c \in KlogCpus |-> <<>>] /\ kget = <<>>
  /\ kdev = [bsy |-> FALSE, isr |-> FALSE, ie |-> FALSE, sig |-> FALSE]
  /\ krd = "open" /\ kast = FALSE
  /\ kin = <<>> /\ kout = <<>> /\ kchar = 0

-----------------------------------------------------------------------------
(* klog_putc: the indices, ...                                             *)
PutcRead(c) ==
  /\ kput[c] = <<>> /\ kchar < KlogChars /\ (OneCpu => kget = <<>>)
  /\ kput' = [kput EXCEPT ![c] = <<kc, kp, kchar + 1>>]
  /\ kchar' = kchar + 1
  /\ UNCHANGED <<kbuf, kc, kp, logsize, kget, kdev, krd, kast, kin, kout>>

(* ... the character, unless the buffer is full, ... (__klogdev_raise_avl) *)
(* ... and the interrupt, unless one is raised or nobody wants it.         *)
Raises == kdev.ie /\ ~kdev.isr /\ kdev.sig
PutcStore(c) ==
  /\ kput[c] # <<>>
  /\ LET p == kput[c][2]
         full == seq(p) = kput[c][1]
     IN  /\ kbuf' = IF full THEN kbuf ELSE [kbuf EXCEPT ![p] = kput[c][3]]
         /\ kp' = IF full THEN kp ELSE seq(p)
         /\ logsize' = IF full THEN logsize ELSE logsize + 1
         /\ kin' = IF full THEN kin ELSE Append(kin, kput[c][3])
  /\ kput' = [kput EXCEPT ![c] = <<>>]
  /\ kast' = (kast \/ Raises)
  /\ kdev' = [kdev EXCEPT !.isr = TRUE]
  /\ UNCHANGED <<kc, kget, krd, kout, kchar>>

-----------------------------------------------------------------------------
(* The reader's calls.  On one CPU a klog_putc is not interrupted by them. *)
Undisturbed == OneCpu => \A c \in KlogCpus : kput[c] = <<>>
Reader(from, to) == Undisturbed /\ krd = from /\ krd' = to

(* _klogdev_open; _klogdev_irqmap; _klogdev_out to KLOGDEVIO_IE.           *)
KlogOpen ==
  /\ Reader("open", "irqmap") /\ ~kdev.bsy
  /\ kdev' = [bsy |-> TRUE, isr |-> FALSE, ie |-> FALSE, sig |-> FALSE]
  /\ UNCHANGED <<kbuf, kc, kp, logsize, kput, kget, kast, kin, kout, kchar>>
KlogIrqmap ==
  /\ Reader("irqmap", "ie")
  /\ kdev' = [kdev EXCEPT !.sig = TRUE]
  /\ UNCHANGED <<kbuf, kc, kp, logsize, kput, kget, kast, kin, kout, kchar>>
KlogIe ==
  /\ Reader("ie", "isr")
  /\ kdev' = [kdev EXCEPT !.ie = TRUE]
  /\ UNCHANGED <<kbuf, kc, kp, logsize, kput, kget, kast, kin, kout, kchar>>

(* __klog_avl_ast, which klogger_main calls once itself: it clears the     *)
(* interrupt, then reads for as long as the device has characters.         *)
KlogIsrKept ==                   \* mutant: the interrupt is not cleared
  Reader("isr", "size") /\ UNCHANGED kdev
KlogIsr ==
  Reader("isr", "size") /\ kdev' = [kdev EXCEPT !.isr = FALSE]
KlogClear ==
  /\ KlogIsr
  /\ UNCHANGED <<kbuf, kc, kp, logsize, kput, kget, kast, kin, kout, kchar>>
KlogSize ==
  /\ Reader("size", IF logsize # 0 THEN "getc" ELSE "sleep")
  /\ UNCHANGED <<kbuf, kc, kp, logsize, kput, kget, kdev, kast, kin, kout, kchar>>

(* _klog_getc, in two parts as klog_putc; it returns what is on the stack  *)
(* (here: 0) when there is no character.                                   *)
GetcRead ==
  /\ Reader("getc", "got")
  /\ kget' = <<kc, kp>>
  /\ UNCHANGED <<kbuf, kc, kp, logsize, kput, kdev, kast, kin, kout, kchar>>
GetcTakeAgain ==                 \* mutant: _c is not advanced past the end
  kc' = IF seq(kget[1]) = 0 THEN kc ELSE seq(kget[1])
GetcTake == kc' = seq(kget[1])
GetcDone ==
  /\ Reader("got", "size")
  /\ IF kget[1] # kget[2]
     THEN GetcTake /\ kout' = Append(kout, kbuf[kget[1]]) /\ logsize' = logsize - 1
     ELSE kout' = Append(kout, 0) /\ UNCHANGED <<kc, logsize>>
  /\ kget' = <<>>
  /\ UNCHANGED <<kbuf, kp, kput, kdev, kast, kin, kchar>>

(* The AST is done; it runs again when the interrupt has come meanwhile.   *)
KlogAst ==
  /\ Reader("sleep", "isr") /\ kast
  /\ kast' = FALSE
  /\ UNCHANGED <<kbuf, kc, kp, logsize, kput, kget, kdev, kin, kout, kchar>>

(* _klogdev_close, when the reader exits between two of its calls, and a   *)
(* new reader.                                                             *)
KlogClose ==
  /\ Undisturbed /\ kdev.bsy /\ kget = <<>>
  /\ kdev' = [bsy |-> FALSE, isr |-> FALSE, ie |-> FALSE, sig |-> FALSE]
  /\ krd' = "open" /\ kast' = FALSE
  /\ UNCHANGED <<kbuf, kc, kp, logsize, kput, kget, kin, kout, kchar>>

KlogReader == KlogOpen \/ KlogIrqmap \/ KlogIe \/ KlogClear \/ KlogSize \/ GetcRead
              \/ GetcDone \/ KlogAst
KlogPut == \E c \in KlogCpus : PutcRead(c) \/ PutcStore(c)
KlogNext == KlogReader \/ KlogPut \/ KlogClose

(* A klog_putc ends, the reader runs when it can, and some reader stays.   *)
KlogFairness ==
  /\ WF_klogVars(KlogReader)
  /\ WF_klogVars(\E c \in KlogCpus : PutcStore(c))
KlogSpec == KlogInit /\ [][KlogNext]_klogVars /\ KlogFairness

-----------------------------------------------------------------------------
(* Type invariant.                                                         *)
KlogTypeOK ==
  /\ kbuf \in [0..(KlogBufSz - 1) -> 0..KlogChars]
  /\ kc \in 0..(KlogBufSz - 1) /\ kp \in 0..(KlogBufSz - 1) /\ logsize \in Int
  /\ kdev \in [bsy : BOOLEAN, isr : BOOLEAN, ie : BOOLEAN, sig : BOOLEAN]
  /\ krd \in {"open", "irqmap", "ie", "isr", "size", "getc", "got", "sleep"}
  /\ kast \in BOOLEAN /\ kchar \in 0..KlogChars

(* The reader gets the characters that the buffer took, in order, each     *)
(* once, across the wrap of both indices, a full buffer and a change of    *)
(* reader; and KLOGDEVIO_SZ is "the number of characters currently stored" *)
(* (ukern/doc/klogdevio.txt).                                              *)
KlogInOrder ==
  /\ kout = SubSeq(kin, 1, Len(kout))
  /\ logsize = Len(kin) - Len(kout)

(* Whatever is logged is shown: no interrupt is lost between the clearing  *)
(* of the ISR, the last look at the size and the end of the AST.           *)
KlogDrained == (logsize > 0) ~> (logsize = 0 \/ ~kdev.bsy)
=============================================================================
