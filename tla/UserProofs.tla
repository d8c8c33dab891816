----------------------------- MODULE UserProofs -----------------------------
(***************************************************************************)
(* Proofs about parts of user space: the kernel's log and its reader       *)
(* (Klog), the disk driver (Ahci), the block devices (Blk) and the keys of *)
(* the console (Console).                                                  *)
(***************************************************************************)
EXTENDS Klog, Ahci, Blk, Console, ListProofs, SequenceTheorems, FiniteSetTheorems, TLAPS

-----------------------------------------------------------------------------
(* Klog: the log, for a buffer of any size and any number of characters.   *)

Index == 0..(KlogBufSz - 1)

(* Where the i-th of the characters that wait in the buffer is.            *)
Slot(i) == IF kc + i < KlogBufSz THEN kc + i ELSE kc + i - KlogBufSz

(* The reader's state and what the device gives it.                        *)
ReaderType ==
  /\ kdev \in [bsy : BOOLEAN, isr : BOOLEAN, ie : BOOLEAN, sig : BOOLEAN]
  /\ krd \in {"open", "irqmap", "ie", "isr", "size", "getc", "got", "sleep"}
  /\ kast \in BOOLEAN

(* A klog_putc or _klog_getc in progress holds indices and a character.    *)
CallsType ==
  /\ kchar \in 0..KlogChars
  /\ DOMAIN kput = KlogCpus
  /\ \A c \in KlogCpus : kput[c] # <<>> =>
       \E i \in Index, j \in Index, ch \in 0..KlogChars : kput[c] = <<i, j, ch>>
  /\ kget # <<>> => \E i \in Index, j \in Index : kget = <<i, j>>

BufferType == kbuf \in [Index -> 0..KlogChars] /\ kc \in Index /\ kp \in Index /\ logsize \in Int

LogType == BufferType /\ ReaderType /\ CallsType /\ (krd = "got" => kget # <<>>)

LEMMA SeqIs ==
  ASSUME NEW v \in Index
  PROVE  seq(v) = (IF v = KlogBufSz - 1 THEN 0 ELSE v + 1) /\ seq(v) \in Index
BY KlogAssumption DEF seq, Index

-----------------------------------------------------------------------------
(* Whatever the CPUs do at the same time, the indices stay inside the      *)
(* buffer and the reader in one of its states (klog_putc, _klog_getc).     *)
LEMMA LogTypeCorrect == KlogSpec => []LogType
<1>1. KlogInit => LogType
  <2> SUFFICES ASSUME KlogInit PROVE LogType
    OBVIOUS
  <2>1. 0 \in Index /\ 0 \in 0..KlogChars
    BY KlogAssumption DEF Index
  <2>2. BufferType
    BY <2>1 DEF KlogInit, BufferType, Index
  <2>3. ReaderType
    BY DEF KlogInit, ReaderType
  <2>4. CallsType
    BY <2>1 DEF KlogInit, CallsType
  <2>5. QED
    BY <2>2, <2>3, <2>4 DEF LogType, KlogInit
<1>2. LogType /\ [KlogNext]_klogVars => LogType'
  <2> SUFFICES ASSUME LogType, [KlogNext]_klogVars PROVE LogType'
    OBVIOUS
  <2> USE DEF LogType
  <2>1. ASSUME NEW c \in KlogCpus, PutcRead(c) PROVE LogType'
    <3>1. kchar' \in 0..KlogChars
      BY <2>1, KlogAssumption DEF PutcRead, CallsType
    <3>2. CallsType'
      BY <2>1, <3>1 DEF PutcRead, CallsType, BufferType
    <3>3. QED
      BY <2>1, <3>2 DEF PutcRead, BufferType, ReaderType
  <2>2. ASSUME NEW c \in KlogCpus, PutcStore(c) PROVE LogType'
    <3>1. PICK i \in Index, j \in Index, ch \in 0..KlogChars : kput[c] = <<i, j, ch>>
      BY <2>2 DEF PutcStore, CallsType
    <3>2. kput[c][2] \in Index /\ kput[c][3] \in 0..KlogChars
      BY <3>1
    <3>3. BufferType'
      BY <2>2, <3>2, SeqIs DEF PutcStore, BufferType
    <3>4. ReaderType'
      BY <2>2 DEF PutcStore, ReaderType, Raises
    <3>5. CallsType'
      BY <2>2 DEF PutcStore, CallsType
    <3>6. QED
      BY <2>2, <3>3, <3>4, <3>5 DEF PutcStore
  <2>3. CASE KlogOpen \/ KlogIrqmap \/ KlogIe \/ KlogClear \/ KlogSize \/ KlogAst \/ KlogClose
    <3>1. UNCHANGED <<kbuf, kc, kp, logsize, kput, kget, kchar>>
      BY <2>3 DEF KlogOpen, KlogIrqmap, KlogIe, KlogClear, KlogIsr, KlogSize, KlogAst, KlogClose
    <3>2. ReaderType' /\ (krd' = "got" => kget # <<>>)
      <4>0. CASE KlogOpen
        BY <4>0 DEF KlogOpen, Reader, ReaderType
      <4>1. CASE KlogClose
        BY <4>1 DEF KlogClose, ReaderType
      <4>2. CASE KlogIrqmap \/ KlogIe \/ KlogClear
        BY <4>2 DEF KlogIrqmap, KlogIe, KlogClear, KlogIsr, Reader, ReaderType
      <4>3. CASE KlogSize \/ KlogAst
        BY <4>3 DEF KlogSize, KlogAst, Reader, ReaderType
      <4>4. QED
        BY <2>3, <4>0, <4>1, <4>2, <4>3
    <3>3. QED
      BY <3>1, <3>2 DEF BufferType, CallsType
  <2>4. CASE GetcRead
    BY <2>4 DEF GetcRead, Reader, BufferType, ReaderType, CallsType
  <2>5. CASE GetcDone
    <3>1. PICK i \in Index, j \in Index : kget = <<i, j>>
      BY <2>5 DEF GetcDone, Reader, CallsType
    <3>2. kc' \in Index /\ logsize' \in Int
      BY <2>5, <3>1, SeqIs DEF GetcDone, GetcTake, BufferType
    <3>3. QED
      BY <2>5, <3>2 DEF GetcDone, Reader, BufferType, ReaderType, CallsType
  <2>6. CASE UNCHANGED klogVars
    BY <2>6 DEF klogVars, BufferType, ReaderType, CallsType
  <2>7. QED
    BY <2>2, <2>3, <2>4, <2>5, <2>6, <2>1 DEF KlogNext, KlogReader, KlogPut
<1>3. QED
  BY <1>1, <1>2, PTL DEF KlogSpec

(* The indices of the log and those that klogputc and kloggetc have read   *)
(* without the lock stay within the buffer, on any number of CPUs.         *)
THEOREM KlogTypeCorrect == KlogSpec => []KlogTypeOK
<1>1. LogType => KlogTypeOK
  BY DEF LogType, BufferType, ReaderType, CallsType, KlogTypeOK, Index
<1>2. QED
  BY <1>1, LogTypeCorrect, PTL

-----------------------------------------------------------------------------
(* On one CPU.  A call in progress holds the current indices, and it is    *)
(* the only one; the reader gets a character only when there is one.       *)
CallsFresh ==
  /\ \A c \in KlogCpus :
       kput[c] # <<>> => kput[c][1] = kc /\ kput[c][2] = kp /\ kget = <<>>
  /\ kget # <<>> => kget = <<kc, kp>>
  /\ krd \in {"getc", "got"} => logsize > 0

(* What went in and has not come out is in the buffer, in order, from _c   *)
(* to _p; what has come out is what went in first.                         *)
RingOk ==
  /\ kin \in Seq(Nat) /\ kout \in Seq(Nat)
  /\ logsize = Len(kin) - Len(kout)
  /\ logsize \in Index
  /\ kp = Slot(logsize)
  /\ \A i \in 0..(logsize - 1) : kbuf[Slot(i)] = kin[Len(kout) + 1 + i]
  /\ \A j \in 1..Len(kout) : kout[j] = kin[j]

LogInv == LogType /\ CallsFresh /\ RingOk

LEMMA SlotIndex ==
  ASSUME LogType, NEW i \in Index
  PROVE  /\ Slot(i) \in Index
         /\ \A j \in Index : Slot(i) = Slot(j) => i = j
         /\ i = 0 <=> Slot(i) = kc
BY KlogAssumption DEF LogType, BufferType, Slot, Index

(* RingOk is about the buffer and the characters only.                     *)
LEMMA RingSame ==
  ASSUME RingOk, UNCHANGED <<kbuf, kp, kc, logsize, kin, kout>>
  PROVE  RingOk'
<1>1. \A i \in 0..(logsize - 1) : Slot(i)' = Slot(i)
  BY DEF Slot
<1>2. Slot(logsize)' = Slot(logsize)
  BY DEF Slot
<1>3. QED
  BY <1>1, <1>2 DEF RingOk

LEMMA OnlyCpu ==
  ASSUME OneCpu, NEW c \in KlogCpus, NEW d \in KlogCpus
  PROVE  c = d
BY KlogAssumption, FS_Singleton DEF OneCpu

(* klog_putc stores behind the last character, unless that is just before  *)
(* the first one.                                                          *)
LEMMA PutcStoreInv ==
  ASSUME OneCpu, LogInv, LogType', NEW c \in KlogCpus, PutcStore(c)
  PROVE  CallsFresh' /\ RingOk'
<1> USE DEF LogInv
<1>0. /\ kput[c][1] = kc /\ kput[c][2] = kp /\ kget = <<>>
      /\ kput[c][3] \in Nat
      /\ kc \in Index /\ kp \in Index
  <2>1. PICK i \in Index, j \in Index, ch \in 0..KlogChars : kput[c] = <<i, j, ch>>
    BY DEF PutcStore, LogType, CallsType
  <2>2. kput[c][3] \in Nat
    BY <2>1
  <2>3. QED
    BY <2>2 DEF PutcStore, CallsFresh, LogType, BufferType
<1>1. seq(kp) = kc <=> logsize = KlogBufSz - 1
  <2>1. seq(kp) = (IF kp = KlogBufSz - 1 THEN 0 ELSE kp + 1)
    BY <1>0, SeqIs
  <2>2. kp = Slot(logsize) /\ logsize \in Index
    BY DEF RingOk
  <2>3. QED
    BY <1>0, <2>1, <2>2, KlogAssumption DEF Slot, Index
<1>2. CASE seq(kp) = kc
  <2>1. UNCHANGED <<kbuf, kp, kc, logsize, kin, kout, kget, krd>>
    BY <1>0, <1>2 DEF PutcStore
  <2>2. \A d \in KlogCpus : kput'[d] = <<>>
    BY OnlyCpu DEF PutcStore, LogType, CallsType
  <2>3. QED
    BY <2>1, <2>2 DEF CallsFresh, RingOk, Slot
<1>3. CASE seq(kp) # kc
  <2>1. /\ kbuf' = [kbuf EXCEPT ![kp] = kput[c][3]] /\ kp' = seq(kp)
        /\ logsize' = logsize + 1 /\ kin' = Append(kin, kput[c][3])
        /\ UNCHANGED <<kc, kout, kget, krd>>
    BY <1>0, <1>3 DEF PutcStore
  <2>2. logsize \in Index /\ logsize' \in Index
    BY <1>1, <1>3, <2>1, KlogAssumption DEF RingOk, Index
  <2>3. CallsFresh'
    <3>1. \A d \in KlogCpus : kput'[d] = <<>>
      BY OnlyCpu DEF PutcStore, LogType, CallsType
    <3>2. QED
      BY <1>0, <2>1, <2>2, <3>1 DEF CallsFresh, Index
  <2>4. /\ kin' \in Seq(Nat) /\ Len(kin') = Len(kin) + 1
        /\ \A j \in 1..Len(kin) : kin'[j] = kin[j]
        /\ kin'[Len(kin) + 1] = kput[c][3]
    BY <1>0, <2>1 DEF RingOk
  <2>5. kp' = Slot(logsize)'
    <3>1. seq(kp) = (IF kp = KlogBufSz - 1 THEN 0 ELSE kp + 1)
      BY <1>0, SeqIs
    <3>2. kp = Slot(logsize)
      BY DEF RingOk
    <3>3. kc' = kc /\ kp' = seq(kp) /\ logsize' = logsize + 1
      BY <2>1
    <3>4. QED
      BY <1>0, <2>2, <3>1, <3>2, <3>3, KlogAssumption DEF Slot, Index
  <2>6. ASSUME NEW i \in 0..(logsize' - 1)
        PROVE  kbuf'[Slot(i)'] = kin'[Len(kout') + 1 + i]
    <3>1. Slot(i)' = Slot(i) /\ i \in Index
      BY <2>1, <2>2, KlogAssumption DEF Slot, Index
    <3>2. CASE i = logsize
      <4>1. kbuf'[Slot(i)] = kput[c][3]
        BY <1>0, <2>1, <3>2 DEF RingOk, LogType, BufferType
      <4>2. Len(kout') + 1 + i = Len(kin) + 1
        BY <2>1, <3>2 DEF RingOk
      <4>3. QED
        BY <2>4, <3>1, <4>1, <4>2
    <3>3. CASE i # logsize
      <4>1. i \in 0..(logsize - 1)
        BY <2>1, <2>2, <3>3 DEF Index
      <4>2. Slot(i) # kp /\ Slot(i) \in Index
        BY <2>2, <3>1, <3>3, SlotIndex DEF RingOk
      <4>3. kbuf'[Slot(i)] = kbuf[Slot(i)]
        BY <2>1, <4>2 DEF LogType, BufferType
      <4>4. kbuf[Slot(i)] = kin[Len(kout) + 1 + i]
        BY <4>1 DEF RingOk
      <4>5. Len(kout) + 1 + i \in 1..Len(kin)
        BY <4>1 DEF RingOk, Index
      <4>6. QED
        BY <2>1, <2>4, <3>1, <4>3, <4>4, <4>5
    <3>4. QED
      BY <3>2, <3>3
  <2>7. \A j \in 1..Len(kout') : kout'[j] = kin'[j]
    <3>1. Len(kout) <= Len(kin) /\ Len(kout) \in Nat /\ Len(kin) \in Nat
      BY <2>2 DEF RingOk, Index
    <3>2. QED
      BY <2>1, <2>4, <3>1 DEF RingOk
  <2>8. kout' \in Seq(Nat) /\ logsize' = Len(kin') - Len(kout')
    BY <2>1, <2>4 DEF RingOk
  <2>9. RingOk'
    BY <2>2, <2>4, <2>5, <2>6, <2>7, <2>8 DEF RingOk
  <2>10. QED
    BY <2>3, <2>9
<1>4. QED
  BY <1>2, <1>3

(* _klog_getc takes the first character.                                   *)
LEMMA GetcDoneInv ==
  ASSUME OneCpu, LogInv, LogType', GetcDone
  PROVE  CallsFresh' /\ RingOk'
<1> USE DEF LogInv
<1>0. kget[1] = kc /\ kget[2] = kp /\ logsize > 0 /\ kc \in Index /\ logsize \in Index
  BY DEF GetcDone, Reader, CallsFresh, LogType, BufferType, RingOk
<1>1. kc # kp
  <2>1. kp = Slot(logsize) /\ LogType
    BY DEF RingOk
  <2>2. logsize = 0 <=> Slot(logsize) = kc
    BY <1>0, <2>1, SlotIndex
  <2>3. QED
    BY <1>0, <2>1, <2>2
<1>2. /\ kc' = seq(kc) /\ kout' = Append(kout, kbuf[kc]) /\ logsize' = logsize - 1
      /\ UNCHANGED <<kbuf, kp, kput, kin>> /\ kget' = <<>> /\ krd' = "size"
      /\ \A c \in KlogCpus : kput[c] = <<>>
  BY <1>0, <1>1 DEF GetcDone, GetcTake, Reader, Undisturbed
<1>3. CallsFresh'
  BY <1>2 DEF CallsFresh
<1>4. logsize' \in Index
  BY <1>0, <1>2, KlogAssumption DEF Index
<1>5. kbuf[kc] = kin[Len(kout) + 1]
  <2>1. Slot(0) = kc /\ 0 \in 0..(logsize - 1)
    BY <1>0, SlotIndex, KlogAssumption DEF Index
  <2>2. kbuf[Slot(0)] = kin[Len(kout) + 1 + 0]
    BY <2>1 DEF RingOk
  <2>3. QED
    BY <2>1, <2>2 DEF RingOk
<1>6. Len(kout) < Len(kin) /\ Len(kout) \in Nat /\ Len(kin) \in Nat
  BY <1>0 DEF RingOk
<1>7. /\ kout' \in Seq(Nat) /\ Len(kout') = Len(kout) + 1
      /\ \A j \in 1..Len(kout) : kout'[j] = kout[j]
      /\ kout'[Len(kout) + 1] = kbuf[kc]
  <2>1. kbuf[kc] \in Nat
    BY <1>0 DEF LogType, BufferType
  <2>2. QED
    BY <1>2, <2>1 DEF RingOk
<1>8. \A j \in 1..Len(kout') : kout'[j] = kin'[j]
  <2>1. \A j \in 1..Len(kout) : kout'[j] = kin[j]
    BY <1>7 DEF RingOk
  <2>2. kout'[Len(kout) + 1] = kin[Len(kout) + 1]
    BY <1>5, <1>7
  <2>3. \A j \in 1..(Len(kout) + 1) : j \in 1..Len(kout) \/ j = Len(kout) + 1
    BY <1>6
  <2>4. Len(kout') = Len(kout) + 1 /\ kin' = kin
    BY <1>2, <1>7
  <2>5. QED
    BY <2>1, <2>2, <2>3, <2>4
<1>9. \A i \in Index : i + 1 \in Index => Slot(i)' = Slot(i + 1)
  <2>1. seq(kc) = (IF kc = KlogBufSz - 1 THEN 0 ELSE kc + 1)
    BY <1>0, SeqIs
  <2>2. QED
    BY <1>0, <1>2, <2>1, KlogAssumption DEF Slot, Index
<1>10. kp' = Slot(logsize)'
  <2>1. seq(kc) = (IF kc = KlogBufSz - 1 THEN 0 ELSE kc + 1)
    BY <1>0, SeqIs
  <2>2. kp = Slot(logsize)
    BY DEF RingOk
  <2>3. kc' = seq(kc) /\ kp' = kp /\ logsize' = logsize - 1
    BY <1>2
  <2>4. QED
    BY <1>0, <2>1, <2>2, <2>3, KlogAssumption DEF Slot, Index
<1>11. ASSUME NEW i \in 0..(logsize' - 1)
       PROVE  kbuf'[Slot(i)'] = kin'[Len(kout') + 1 + i]
  <2>1. i + 1 \in 0..(logsize - 1) /\ i \in Index /\ i + 1 \in Index
    BY <1>0, <1>2, KlogAssumption DEF Index
  <2>2. Slot(i)' = Slot(i + 1)
    BY <1>9, <2>1
  <2>3. kbuf[Slot(i + 1)] = kin[Len(kout) + 1 + (i + 1)]
    BY <2>1 DEF RingOk
  <2>4. Len(kout) + 1 + (i + 1) = Len(kout') + 1 + i
    BY <1>6, <1>7
  <2>5. QED
    BY <1>2, <2>2, <2>3, <2>4
<1>12. RingOk'
  <2>1. kin' \in Seq(Nat) /\ logsize' = Len(kin') - Len(kout')
    BY <1>2, <1>6, <1>7 DEF RingOk
  <2>2. QED
    BY <1>4, <1>7, <1>8, <1>10, <1>11, <2>1 DEF RingOk
<1>13. QED
  BY <1>3, <1>12

(* On one CPU the reader gets the characters that the buffer took, in      *)
(* order and each once, and KLOGDEVIO_SZ is their number, for every size   *)
(* of the buffer (klog_putc, _klog_getc, _klogdev_in).                     *)
THEOREM KlogInOrderCorrect == ASSUME OneCpu PROVE KlogSpec => []KlogInOrder
<1>1. KlogInit => CallsFresh /\ RingOk
  BY KlogAssumption DEF KlogInit, CallsFresh, RingOk, Slot, Index
<1>2. LogInv /\ LogType' /\ [KlogNext]_klogVars => CallsFresh' /\ RingOk'
  <2> SUFFICES ASSUME LogInv, LogType', [KlogNext]_klogVars
               PROVE  CallsFresh' /\ RingOk'
    OBVIOUS
  <2>1. ASSUME NEW c \in KlogCpus, PutcRead(c) PROVE CallsFresh' /\ RingOk'
    <3>1. UNCHANGED <<kbuf, kp, kc, logsize, kin, kout, kget, krd>> /\ kget = <<>>
      BY <2>1 DEF PutcRead
    <3>2. \A d \in KlogCpus : kput'[d] = <<kc, kp, kchar + 1>>
      BY <2>1, OnlyCpu DEF PutcRead, LogInv, LogType, CallsType
    <3>3. CallsFresh'
      BY <3>1, <3>2 DEF LogInv, CallsFresh
    <3>4. QED
      BY <3>1, <3>3, RingSame DEF LogInv
  <2>2. ASSUME NEW c \in KlogCpus, PutcStore(c) PROVE CallsFresh' /\ RingOk'
    BY <2>2, PutcStoreInv
  <2>3. CASE KlogOpen \/ KlogIrqmap \/ KlogIe \/ KlogClear \/ KlogSize \/ KlogAst \/ KlogClose
    <3>1. UNCHANGED <<kbuf, kc, kp, logsize, kput, kget, kin, kout>>
      BY <2>3 DEF KlogOpen, KlogIrqmap, KlogIe, KlogClear, KlogIsr, KlogSize, KlogAst, KlogClose
    <3>2. krd' \in {"getc", "got"} => logsize # 0
      BY <2>3 DEF KlogOpen, KlogIrqmap, KlogIe, KlogClear, KlogIsr, KlogSize, KlogAst,
                  KlogClose, Reader
    <3>3. logsize # 0 => logsize > 0
      BY DEF LogInv, RingOk, Index
    <3>4. CallsFresh'
      BY <3>1, <3>2, <3>3 DEF LogInv, CallsFresh
    <3>5. QED
      BY <3>1, <3>4, RingSame DEF LogInv
  <2>4. CASE GetcRead
    <3>1. UNCHANGED <<kbuf, kp, kc, logsize, kin, kout, kput>> /\ kget' = <<kc, kp>>
      BY <2>4 DEF GetcRead
    <3>2. (\A c \in KlogCpus : kput[c] = <<>>) /\ logsize > 0
      BY <2>4 DEF GetcRead, Reader, Undisturbed, LogInv, CallsFresh
    <3>3. CallsFresh'
      BY <3>1, <3>2 DEF LogInv, CallsFresh
    <3>4. QED
      BY <3>1, <3>3, RingSame DEF LogInv
  <2>5. CASE GetcDone
    BY <2>5, GetcDoneInv
  <2>6. CASE UNCHANGED klogVars
    <3>1. UNCHANGED <<kbuf, kc, kp, logsize, kput, kget, kin, kout, krd>>
      BY <2>6 DEF klogVars
    <3>2. CallsFresh'
      BY <3>1 DEF LogInv, CallsFresh
    <3>3. QED
      BY <3>1, <3>2, RingSame DEF LogInv
  <2>7. QED
    BY <2>2, <2>3, <2>4, <2>5, <2>6, <2>1 DEF KlogNext, KlogReader, KlogPut
<1>3. LogType /\ CallsFresh /\ RingOk => KlogInOrder
  <2> SUFFICES ASSUME RingOk PROVE KlogInOrder
    OBVIOUS
  <2>1. Len(kout) <= Len(kin) /\ Len(kout) \in Nat /\ Len(kin) \in Nat
    BY DEF RingOk, Index
  <2>2. kout = SubSeq(kin, 1, Len(kout))
    BY <2>1 DEF RingOk
  <2>3. QED
    BY <2>2 DEF RingOk, KlogInOrder
<1>4. KlogSpec => [](LogType /\ CallsFresh /\ RingOk)
  BY <1>1, <1>2, LogTypeCorrect, PTL DEF KlogSpec, LogInv
<1>5. QED
  BY <1>3, <1>4, PTL

-----------------------------------------------------------------------------
(* Ahci: the driver, for any number of slots and requests.                 *)
(* One port has a disk: IS is not cleared when a disk has been identified, *)
(* so that the event of a second port would come before its answer.        *)
OneDisk == \A i, j \in APorts : i = j

(* What a failed set_prdt takes back beyond the pages that it exported is  *)
(* in no other buffer.                                                     *)
NoNeighbour ==
  \A r, s \in AReqs : r # s =>
    \A k \in DOMAIN APages[r] : TakenBack(APages[r], k) \cap ToSet(APages[s]) = {}

(* Buffers may share pages, but for the first page of a buffer of several  *)
(* pages, of which ahci_port_unset_prdt takes back as many exports as the  *)
(* buffer has pages.                                                       *)
FirstPagesOwn ==
  \A r, s \in AReqs : r # s /\ Len(APages[r]) > 1 => APages[r][1] \notin ToSet(APages[s])

-----------------------------------------------------------------------------
(* Where the driver is, and what it holds there.                           *)
DriverType ==
  \/ apc.at \in {"probe", "idle", "intr"}
  \/ apc.at = "ident" /\ apc.i \in APorts /\ apst[apc.i] = "ident"
  \/ apc.at \in {"ci", "is"} /\ apc.i \in APorts
  \/ apc.at = "issue" /\ apc.i \in APorts /\ apc.j \in ASlots /\ apc.ci \subseteq ASlots

(* A port that is not up has none of our commands, and IDENTIFY is over    *)
(* when it is up.                                                          *)
PortsOk ==
  \A i \in APorts :
    /\ apst[i] = "off" => apc.at = "probe" /\ hci[i] = {} /\ his = {} /\ ~awake
    /\ apst[i] = "ident" => apc.at = "ident" /\ \A j, k \in hci[i] : j = k
    /\ apst[i] = "ident" /\ (awake \/ his # {}) => hci[i] = {} \/ i \in herr
    /\ apst[i] # "up" => /\ alast[i] = {}
                         /\ \A j \in hci[i] : hcmd[i][j] = AIdent
                         /\ \A r \in AReqs : APortOf[r] = i => areq[r] # "busy"

(* A command that the HBA works on is shown by lastci, with its request.   *)
Shown ==
  \A i \in APorts : apst[i] = "up" =>
    \A j \in hci[i] : j \in alast[i] /\ hcmd[i][j] = acmd[i][j]

(* A slot of lastci holds a request of its own, which is not reported yet. *)
SlotsOk ==
  \A i \in APorts : \A j \in alast[i] :
    /\ acmd[i][j] \in AReqs /\ APortOf[acmd[i][j]] = i /\ areq[acmd[i][j]] = "busy"
    /\ \A k \in alast[i] : acmd[i][j] = acmd[i][k] => j = k

(* The request that is being issued, and the PxCI that was read.           *)
IssueOk ==
  apc.at = "issue" =>
    apst[apc.i] = "up" /\ apc.j \in alast[apc.i] /\ apc.ci \subseteq alast[apc.i]

(* What PxCI no longer shows is carried out, but for what it does not show *)
(* yet.                                                                    *)
Pending(i) == IF apc.at = "issue" /\ apc.i = i THEN {apc.j} ELSE {}
CarriedOut == \A i \in APorts : \A j \in (alast[i] \ hci[i]) \ Pending(i) : acmd[i][j] \in hran

(* A page is exported at least once for each request that is being served. *)
Using(p) == {r \in AReqs : areq[r] = "busy" /\ p \in ToSet(APages[r])}
BuffersOk == \A p \in Buffers : aexp[p] >= Cardinality(Using(p))

AhciInv ==
  /\ AhciTypeOK /\ DriverType /\ PortsOk /\ Shown /\ SlotsOk /\ IssueOk
  /\ CarriedOut /\ BuffersOk /\ ReportedWasDone

-----------------------------------------------------------------------------
LEMMA SlotFree ==
  ASSUME NEW i, FreeSlots(i) # {}
  PROVE  Min(FreeSlots(i)) \in ASlots /\ Min(FreeSlots(i)) \notin alast[i]
<1>1. FreeSlots(i) \in SUBSET Nat
  BY AhciAssumption DEF FreeSlots
<1>2. Min(FreeSlots(i)) \in FreeSlots(i)
  BY <1>1, LeastNatural
<1>3. QED
  BY <1>2 DEF FreeSlots

(* The pages of a buffer.                                                  *)
LEMMA PagesType ==
  ASSUME NEW r \in AReqs
  PROVE  /\ APages[r] \in Seq(Nat) /\ Len(APages[r]) \in Nat \ {0}
         /\ APages[r][1] \in ToSet(APages[r])
         /\ ToSet(APages[r]) \subseteq Buffers
         /\ \A p \in ToSet(APages[r]) : \E k \in 1..Len(APages[r]) : APages[r][k] = p
<1>1. APages[r] \in Seq(Nat) /\ APages[r] # <<>>
  BY AhciAssumption
<1>2. Len(APages[r]) \in Nat \ {0}
  BY <1>1
<1>3. ToSet(APages[r]) = {APages[r][k] : k \in 1..Len(APages[r])}
  BY <1>1 DEF ToSet
<1>4. ToSet(APages[r]) \subseteq Buffers
  BY DEF Buffers
<1>5. QED
  BY <1>1, <1>2, <1>3, <1>4

(* The requests that use a page are a finite set.                          *)
LEMMA UsingFinite ==
  ASSUME NEW p
  PROVE  /\ IsFiniteSet(Using(p)) /\ Cardinality(Using(p)) \in Nat
         /\ IsFiniteSet(Using(p)') /\ Cardinality(Using(p)') \in Nat
<1>1. Using(p) \subseteq AReqs /\ Using(p)' \subseteq AReqs /\ IsFiniteSet(AReqs)
  BY AhciAssumption DEF Using
<1>2. QED
  BY <1>1, FS_Subset, FS_CardinalityType

(* Pages become exported once more; a page of the sequence at least once.  *)
LEMMA Exported ==
  ASSUME NEW e \in [Buffers -> Nat], NEW ps \in Seq(Nat)
  PROVE  /\ Export(e, ps) \in [Buffers -> Nat]
         /\ \A p \in Buffers : Export(e, ps)[p] >= e[p]
         /\ \A p \in Buffers : p \in ToSet(ps) => Export(e, ps)[p] > e[p]
<1> DEFINE at(p) == {k \in DOMAIN ps : ps[k] = p}
<1>1. Len(ps) \in Nat /\ DOMAIN ps = 1..Len(ps)
  OBVIOUS
<1>2. IsFiniteSet(DOMAIN ps)
  BY <1>1, FS_Interval
<1>3. \A p : IsFiniteSet(at(p)) /\ Cardinality(at(p)) \in Nat
  <2> TAKE p
  <2>1. at(p) \subseteq DOMAIN ps
    OBVIOUS
  <2>2. QED
    BY <2>1, <1>2, FS_Subset, FS_CardinalityType
<1>4. \A p \in ToSet(ps) : Cardinality(at(p)) > 0
  <2> TAKE p \in ToSet(ps)
  <2>1. PICK k \in DOMAIN ps : ps[k] = p
    BY DEF ToSet
  <2>2. k \in at(p)
    BY <2>1
  <2>3. Cardinality(at(p)) # 0
    BY <2>2, <1>3, FS_EmptySet
  <2>4. Cardinality(at(p)) \in Nat
    BY <1>3
  <2> HIDE DEF at
  <2>5. QED
    BY <2>3, <2>4
<1>5. Export(e, ps) = [p \in Buffers |-> e[p] + Cardinality(at(p))]
  BY DEF Export
<1> HIDE DEF at
<1>6. QED
  BY <1>3, <1>4, <1>5

LEMMA UnexportType ==
  ASSUME NEW x \in Nat, NEW n \in Nat
  PROVE  Unexport(x, n) \in Nat
BY DEF Unexport

-----------------------------------------------------------------------------
LEMMA AhciInitInv == AhciInit => AhciInv
<1> SUFFICES ASSUME AhciInit PROVE AhciInv
  OBVIOUS
<1>1. AhciTypeOK
  <2>1. aioq \in Seq(AReqs)
    BY DEF AhciInit
  <2>2. QED
    BY <2>1 DEF AhciInit, AhciTypeOK
<1>2. DriverType /\ PortsOk /\ Shown /\ SlotsOk /\ IssueOk
  BY DEF AhciInit, DriverType, PortsOk, Shown, SlotsOk, IssueOk
<1>3. CarriedOut /\ BuffersOk /\ ReportedWasDone
  <2>1. \A p : Using(p) = {}
    BY DEF AhciInit, Using
  <2>2. BuffersOk
    <3>1. Cardinality({}) = 0
      BY FS_EmptySet
    <3>2. \A p \in Buffers : aexp[p] = 0 /\ Cardinality(Using(p)) = 0
      BY <2>1, <3>1 DEF AhciInit
    <3>3. QED
      BY <3>2 DEF BuffersOk
  <2>3. QED
    BY <2>2 DEF AhciInit, CarriedOut, Pending, ReportedWasDone
<1>4. QED
  BY <1>1, <1>2, <1>3 DEF AhciInv

(* A step that changes neither the requests nor the slots, and is not the  *)
(* write of PxCI, keeps what is said about them.                           *)
LEMMA SlotsSame ==
  ASSUME AhciInv, UNCHANGED <<apst, alast, acmd, aioq, aexp, areq, hci, hcmd, hran>>,
         apc.at # "issue" \/ apc' = apc, apc'.at # "issue" \/ apc' = apc
  PROVE  Shown' /\ SlotsOk' /\ IssueOk' /\ CarriedOut' /\ BuffersOk' /\ ReportedWasDone'
<1> USE DEF AhciInv
<1>1. Shown'
  BY DEF Shown
<1>2. SlotsOk'
  BY DEF SlotsOk
<1>3. IssueOk'
  BY DEF IssueOk
<1>4. \A i \in APorts : Pending(i)' = Pending(i)
  BY DEF Pending
<1>5. CarriedOut'
  BY <1>4 DEF CarriedOut
<1>6. BuffersOk' /\ ReportedWasDone'
  BY DEF BuffersOk, Using, ReportedWasDone
<1>7. QED
  BY <1>1, <1>2, <1>3, <1>5, <1>6

LEMMA QuietInv ==
  ASSUME AhciInv, OneDisk,
         \/ ProbeEnd \/ AstStart \/ ClearIs \/ AstEnd \/ HbaIrq
         \/ \E i \in APorts : PortIntr(i) \/ HbaFails(i)
  PROVE  AhciInv'
<1> USE DEF AhciInv
<1>1. CASE ProbeEnd
  <2>1. AhciTypeOK' /\ DriverType' /\ PortsOk'
    BY <1>1 DEF ProbeEnd, hba, AhciTypeOK, DriverType, PortsOk
  <2>2. QED
    BY <1>1, <2>1, SlotsSame DEF ProbeEnd, hba
<1>2. CASE AstStart
  <2>1. AhciTypeOK' /\ DriverType' /\ PortsOk'
    BY <1>2 DEF AstStart, hba, AhciTypeOK, DriverType, PortsOk
  <2>2. QED
    BY <1>2, <2>1, SlotsSame DEF AstStart, hba
<1>3. CASE ClearIs
  <2>0. apc.i \in APorts /\ hpxis \subseteq APorts
    BY <1>3 DEF ClearIs, DriverType, AhciTypeOK
  <2>1. AhciTypeOK' /\ DriverType'
    BY <1>3, <2>0 DEF ClearIs, AhciTypeOK, DriverType
  <2>2. PortsOk'
    BY <1>3, <2>0 DEF ClearIs, PortsOk, AhciTypeOK
  <2>3. QED
    BY <1>3, <2>1, <2>2, SlotsSame DEF ClearIs
<1>4. CASE AstEnd
  <2>1. AhciTypeOK' /\ DriverType' /\ PortsOk'
    BY <1>4 DEF AstEnd, AhciTypeOK, DriverType, PortsOk
  <2>2. QED
    BY <1>4, <2>1, SlotsSame DEF AstEnd
<1>5. CASE HbaIrq
  <2>1. AhciTypeOK' /\ DriverType' /\ PortsOk'
    BY <1>5 DEF HbaIrq, AhciTypeOK, DriverType, PortsOk
  <2>2. QED
    BY <1>5, <2>1, SlotsSame DEF HbaIrq
<1>6. ASSUME NEW i \in APorts, PortIntr(i) PROVE AhciInv'
  <2>1. AhciTypeOK' /\ DriverType' /\ PortsOk'
    BY <1>6 DEF PortIntr, AhciTypeOK, DriverType, PortsOk
  <2>2. QED
    BY <1>6, <2>1, SlotsSame DEF PortIntr
<1>7. ASSUME NEW i \in APorts, HbaFails(i) PROVE AhciInv'
  <2>1. AhciTypeOK' /\ DriverType'
    BY <1>7 DEF HbaFails, AhciTypeOK, DriverType
  <2>2. PortsOk'
    BY <1>7, OneDisk DEF HbaFails, PortsOk, OneDisk
  <2>3. QED
    BY <1>7, <2>1, <2>2, SlotsSame DEF HbaFails
<1>8. QED
  BY <1>1, <1>2, <1>3, <1>4, <1>5, <1>6, <1>7

(* IDENTIFY is given to the HBA: no event can have come before.            *)
LEMMA PortInitInv ==
  ASSUME AhciInv, OneDisk, NEW i \in APorts, PortInit(i)
  PROVE  AhciInv'
<1> USE DEF AhciInv
<1> DEFINE j == Min(FreeSlots(i))
<1>0. j \in ASlots
  BY SlotFree, AhciAssumption DEF PortInit, PortsOk, FreeSlots
<1>1. hcmd' = [hcmd EXCEPT ![i][j] = AIdent] /\ hci' = [hci EXCEPT ![i] = @ \cup {j}]
  BY DEF PortInit
<1> HIDE DEF j
<1>2. AhciTypeOK'
  BY <1>0, <1>1 DEF PortInit, AhciTypeOK
<1>3. DriverType'
  BY DEF PortInit, DriverType, AhciTypeOK
<1>4. hci[i] = {} /\ his = {} /\ ~awake
  BY DEF PortInit, PortsOk
<1>5. PortsOk'
  <2>1. hci'[i] = {j} /\ hcmd'[i][j] = AIdent /\ apst'[i] = "ident"
    <3>1. hci'[i] = {j}
      BY <1>1, <1>4 DEF AhciTypeOK
    <3>2. hcmd'[i][j] = AIdent
      BY <1>0, <1>1 DEF AhciTypeOK
    <3>3. QED
      BY <3>1, <3>2 DEF PortInit, AhciTypeOK
  <2>2. alast[i] = {} /\ \A r \in AReqs : APortOf[r] = i => areq[r] # "busy"
    BY DEF PortInit, PortsOk
  <2>3. QED
    BY <2>1, <2>2, <1>4 DEF PortInit, PortsOk, OneDisk
<1>6. Shown' /\ SlotsOk' /\ IssueOk'
  BY DEF PortInit, Shown, SlotsOk, IssueOk, OneDisk, AhciTypeOK
<1>7. CarriedOut' /\ BuffersOk' /\ ReportedWasDone'
  BY DEF PortInit, PortsOk, CarriedOut, BuffersOk, Using, ReportedWasDone, OneDisk, AhciTypeOK
<1>8. QED
  BY <1>2, <1>3, <1>5, <1>6, <1>7

LEMMA PortInitFailsInv ==
  ASSUME AhciInv, OneDisk, NEW i \in APorts, PortInitFails(i)
  PROVE  AhciInv'
<1> USE DEF AhciInv
<1>1. AhciTypeOK' /\ DriverType'
  BY DEF PortInitFails, hba, AhciTypeOK, DriverType
<1>2. PortsOk'
  BY DEF PortInitFails, hba, PortsOk, OneDisk, AhciTypeOK
<1>3. Shown' /\ SlotsOk' /\ IssueOk'
  BY DEF PortInitFails, hba, Shown, SlotsOk, IssueOk, OneDisk, AhciTypeOK
<1>4. CarriedOut' /\ BuffersOk' /\ ReportedWasDone'
  BY DEF PortInitFails, hba, CarriedOut, Pending, BuffersOk, Using, ReportedWasDone
<1>5. QED
  BY <1>1, <1>2, <1>3, <1>4

(* ahci_port_get_blkinfo: the answer is there, or the port is not used.    *)
LEMMA GotBlkinfoInv ==
  ASSUME AhciInv, OneDisk, GotBlkinfo
  PROVE  AhciInv'
<1> USE DEF AhciInv
<1>0. apc.i \in APorts /\ apst[apc.i] = "ident" /\ awake
  BY DEF GotBlkinfo, DriverType
<1>1. hci[apc.i] = {} \/ apc.i \in herr
  BY <1>0 DEF PortsOk
<1>2. AhciTypeOK' /\ DriverType'
  BY <1>0 DEF GotBlkinfo, AhciTypeOK, DriverType
<1>3. PortsOk'
  BY <1>0, <1>1 DEF GotBlkinfo, PortsOk, OneDisk, AhciTypeOK
<1>4. Shown' /\ SlotsOk' /\ IssueOk'
  BY <1>0, <1>1 DEF GotBlkinfo, Shown, SlotsOk, IssueOk, OneDisk, AhciTypeOK
<1>5. CarriedOut' /\ BuffersOk' /\ ReportedWasDone'
  BY <1>0 DEF GotBlkinfo, PortsOk, CarriedOut, BuffersOk, Using, ReportedWasDone, OneDisk, AhciTypeOK
<1>6. QED
  BY <1>2, <1>3, <1>4, <1>5

-----------------------------------------------------------------------------
(* A request that is issued takes a free slot, and its pages are exported. *)
LEMMA IssueInv ==
  ASSUME AhciInv, OneDisk, NEW r \in AReqs, Issue(r)
  PROVE  AhciInv'
<1> USE DEF AhciInv
<1> DEFINE i == APortOf[r]
           j == Min(FreeSlots(i))
<1>0. /\ i \in APorts /\ j \in ASlots /\ j \notin alast[i]
      /\ apst[i] = "up" /\ areq[r] = "new" /\ apc.at = "idle"
  BY SlotFree, AhciAssumption DEF Issue, Queueable, Issuable
<1>1. /\ aexp' = Export(aexp, APages[r])
      /\ alast' = [alast EXCEPT ![i] = @ \cup {j}] /\ acmd' = [acmd EXCEPT ![i][j] = r]
      /\ apc' = [at |-> "issue", i |-> i, j |-> j, ci |-> hci[i]]
      /\ areq' = [areq EXCEPT ![r] = "busy"]
      /\ UNCHANGED <<apst, aioq, awake, hcmd, hci, hpxis, his, herr, hran, hmask>>
  BY DEF Issue, SetPrdt, hba
<1> HIDE DEF i, j
<1>2. i = APortOf[r]
  BY DEF i
<1>3. \A k \in alast[i] : k # j /\ acmd[i][k] \in AReqs /\ acmd[i][k] # r /\ k \in ASlots
  BY <1>0 DEF SlotsOk, AhciTypeOK
<1>4. /\ alast'[i] = alast[i] \cup {j} /\ acmd'[i][j] = r
      /\ \A k \in alast[i] : acmd'[i][k] = acmd[i][k]
  BY <1>0, <1>1, <1>3 DEF AhciTypeOK
<1>5. /\ aexp' \in [Buffers -> Nat] /\ \A p \in Buffers : aexp'[p] >= aexp[p]
      /\ \A p \in ToSet(APages[r]) : aexp'[p] > aexp[p]
  <2>1. aexp \in [Buffers -> Nat] /\ APages[r] \in Seq(Nat) /\ ToSet(APages[r]) \subseteq Buffers
    BY PagesType DEF AhciTypeOK
  <2>2. QED
    BY <1>1, <2>1, Exported
<1>6. AhciTypeOK'
  BY <1>0, <1>1, <1>5 DEF AhciTypeOK
<1>7. DriverType' /\ IssueOk'
  <2>1. hci[i] \subseteq alast[i] /\ hci[i] \subseteq ASlots
    BY <1>0 DEF Shown, AhciTypeOK
  <2>2. QED
    BY <1>0, <1>1, <1>4, <2>1 DEF DriverType, IssueOk
<1>8. PortsOk'
  BY <1>0, <1>1, <1>2 DEF PortsOk, AhciTypeOK, OneDisk
<1>9. Shown'
  <2>1. \A k \in hci[i] : k \in alast[i] /\ hcmd[i][k] = acmd[i][k]
    BY <1>0 DEF Shown
  <2>2. \A k \in hci'[i] : k \in alast'[i] /\ hcmd'[i][k] = acmd'[i][k]
    BY <2>1, <1>1, <1>4
  <2>3. QED
    BY <1>0, <2>2 DEF Shown, OneDisk
<1>10. SlotsOk'
  <2>1. \A k \in alast'[i] : /\ acmd'[i][k] \in AReqs /\ APortOf[acmd'[i][k]] = i
                             /\ areq'[acmd'[i][k]] = "busy"
    BY <1>0, <1>1, <1>2, <1>3, <1>4 DEF SlotsOk, AhciTypeOK
  <2>2. \A k, l \in alast'[i] : acmd'[i][k] = acmd'[i][l] => k = l
    BY <1>0, <1>3, <1>4 DEF SlotsOk
  <2>3. QED
    BY <1>0, <2>1, <2>2 DEF SlotsOk, OneDisk
<1>11. CarriedOut'
  <2>1. Pending(i) = {} /\ Pending(i)' = {j}
    BY <1>0, <1>1 DEF Pending
  <2>2. \A k \in (alast'[i] \ hci'[i]) \ {j} : acmd'[i][k] \in hran'
    BY <1>0, <1>1, <1>4, <2>1 DEF CarriedOut
  <2>3. QED
    BY <1>0, <2>1, <2>2 DEF CarriedOut, OneDisk
<1>12. BuffersOk'
  <2> SUFFICES ASSUME NEW p \in Buffers PROVE aexp'[p] >= Cardinality(Using(p)')
    BY DEF BuffersOk
  <2>0. /\ aexp[p] \in Nat /\ aexp'[p] \in Nat /\ aexp'[p] >= aexp[p]
        /\ aexp[p] >= Cardinality(Using(p)) /\ Cardinality(Using(p)) \in Nat
    BY <1>5, UsingFinite DEF AhciTypeOK, BuffersOk
  <2>1. CASE p \in ToSet(APages[r])
    <3>1. Using(p)' = Using(p) \cup {r} /\ r \notin Using(p)
      BY <1>0, <1>1, <2>1 DEF Using, AhciTypeOK
    <3>2. Cardinality(Using(p)') = Cardinality(Using(p)) + 1
      BY <3>1, UsingFinite, FS_AddElement
    <3>3. QED
      BY <2>0, <2>1, <3>2, <1>5
  <2>2. CASE p \notin ToSet(APages[r])
    <3>1. Using(p)' = Using(p)
      BY <1>0, <1>1, <2>2 DEF Using, AhciTypeOK
    <3>2. QED
      BY <2>0, <3>1
  <2>3. QED
    BY <2>1, <2>2
<1>13. ReportedWasDone'
  <2>1. \A s \in AReqs : areq'[s] = "done" => s \in hran'
    BY <1>1 DEF ReportedWasDone, AhciTypeOK
  <2>2. \A s \in AReqs : areq'[s] = "busy" /\ APortOf[s] = i => \E k \in alast'[i] : acmd'[i][k] = s
    BY <1>0, <1>1, <1>4 DEF ReportedWasDone, AhciTypeOK
  <2>3. QED
    BY <1>0, <2>1, <2>2 DEF ReportedWasDone, OneDisk
<1>14. QED
  BY <1>6, <1>7, <1>8, <1>9, <1>10, <1>11, <1>12, <1>13

(* The write of PxCI: what the HBA is given, a second time or not, is in   *)
(* lastci.                                                                 *)
LEMMA IssueWriteInv ==
  ASSUME AhciInv, OneDisk, IssueWrite
  PROVE  AhciInv'
<1> USE DEF AhciInv
<1> DEFINE i == apc.i
<1>0. /\ i \in APorts /\ apc.j \in ASlots /\ apc.ci \subseteq ASlots /\ apst[i] = "up"
      /\ apc.j \in alast[i] /\ apc.ci \subseteq alast[i]
  BY DEF IssueWrite, DriverType, IssueOk
<1>1. /\ hci' = [hci EXCEPT ![i] = @ \cup apc.ci \cup {apc.j}]
      /\ hcmd' = [hcmd EXCEPT ![i] = [j \in ASlots |->
                    IF j \in hci'[i] \ hci[i] THEN acmd[i][j] ELSE hcmd[i][j]]]
      /\ apc' = [at |-> "idle"]
      /\ UNCHANGED <<apst, alast, acmd, aioq, aexp, areq, awake, hpxis, his, herr, hran, hmask>>
  <2>1. hcmd' = [hcmd EXCEPT ![i] = [j \in ASlots |->
                    IF j \in hci'[i] \ hci[i] THEN acmd[i][j] ELSE hcmd[i][j]]]
    BY DEF IssueWrite
  <2>2. QED
    BY <2>1 DEF IssueWrite
<1>2. hci'[i] = hci[i] \cup apc.ci \cup {apc.j}
  BY <1>0, <1>1 DEF AhciTypeOK
<1>3. \A j \in ASlots : hcmd'[i][j] = IF j \in hci'[i] \ hci[i] THEN acmd[i][j] ELSE hcmd[i][j]
  BY <1>0, <1>1 DEF AhciTypeOK
<1>4. AhciTypeOK'
  <2>1. hci' \in [APorts -> SUBSET ASlots]
    BY <1>0, <1>1 DEF AhciTypeOK
  <2>2. [j \in ASlots |-> IF j \in hci'[i] \ hci[i] THEN acmd[i][j] ELSE hcmd[i][j]]
          \in [ASlots -> AReqs \cup {AIdent}]
    BY <1>0 DEF AhciTypeOK
  <2>3. hcmd' \in [APorts -> [ASlots -> AReqs \cup {AIdent}]]
    BY <1>1, <2>2 DEF AhciTypeOK
  <2>4. QED
    BY <1>1, <2>1, <2>3 DEF AhciTypeOK
<1>5. DriverType' /\ IssueOk'
  BY <1>1 DEF DriverType, IssueOk
<1>6. PortsOk'
  BY <1>0, <1>1 DEF PortsOk, OneDisk
<1>7. Shown'
  <2>1. \A j \in hci'[i] : j \in ASlots /\ j \in alast[i]
    BY <1>0, <1>2 DEF Shown, AhciTypeOK
  <2>2. \A j \in hci'[i] : hcmd'[i][j] = acmd[i][j]
    BY <1>0, <2>1, <1>3 DEF Shown
  <2>3. QED
    BY <1>0, <1>1, <2>1, <2>2 DEF Shown, OneDisk
<1>8. SlotsOk' /\ BuffersOk' /\ ReportedWasDone'
  BY <1>1 DEF SlotsOk, BuffersOk, Using, ReportedWasDone
<1>9. CarriedOut'
  <2>1. Pending(i) = {apc.j} /\ Pending(i)' = {}
    BY <1>1 DEF IssueWrite, Pending
  <2>2. \A j \in alast[i] \ hci'[i] : acmd[i][j] \in hran
    BY <1>0, <1>2, <2>1 DEF CarriedOut
  <2>3. QED
    BY <1>0, <1>1, <2>1, <2>2 DEF CarriedOut, OneDisk
<1>10. QED
  BY <1>4, <1>5, <1>6, <1>7, <1>8, <1>9

(* An export that fails takes back nothing that another request needs.     *)
LEMMA IssueFailsInv ==
  ASSUME AhciInv, NoNeighbour, NEW r \in AReqs, NEW k \in DOMAIN APages[r], IssueFails(r, k)
  PROVE  AhciInv'
<1> USE DEF AhciInv
<1> DEFINE ps == SubSeq(APages[r], 1, k - 1)
           x == Export(aexp, ps)
<1>0. areq[r] = "new" /\ apc.at = "idle"
  BY DEF IssueFails, Queueable
<1>1. aexp' = [p \in Buffers |-> IF p \in TakenBack(APages[r], k) THEN Unexport(x[p], 1) ELSE x[p]]
  BY DEF IssueFails, SetPrdtFails
<1>2. /\ areq' = [areq EXCEPT ![r] = "failed"]
      /\ UNCHANGED <<apc, apst, alast, acmd, aioq, awake, hcmd, hci, hpxis, his, herr, hran, hmask>>
  BY DEF IssueFails, hba
<1>3. x \in [Buffers -> Nat] /\ \A p \in Buffers : x[p] >= aexp[p]
  <2>1. APages[r] \in Seq(Nat)
    BY PagesType
  <2>2. ps \in Seq(Nat)
    BY <2>1
  <2>3. aexp \in [Buffers -> Nat]
    BY DEF AhciTypeOK
  <2> HIDE DEF ps
  <2>4. QED
    BY <2>2, <2>3, Exported
<1> HIDE DEF x
<1>4. aexp' \in [Buffers -> Nat]
  <2>1. \A p \in Buffers : Unexport(x[p], 1) \in Nat
    BY <1>3, UnexportType
  <2>2. QED
    BY <1>1, <1>3, <2>1
<1>5. AhciTypeOK' /\ DriverType' /\ PortsOk'
  BY <1>2, <1>4 DEF AhciTypeOK, DriverType, PortsOk
<1>6. Shown' /\ IssueOk' /\ CarriedOut'
  BY <1>2 DEF Shown, IssueOk, CarriedOut, Pending
<1>7. SlotsOk'
  BY <1>0, <1>2 DEF SlotsOk, AhciTypeOK
<1>8. BuffersOk'
  <2> SUFFICES ASSUME NEW p \in Buffers PROVE aexp'[p] >= Cardinality(Using(p)')
    BY DEF BuffersOk
  <2>1. Using(p)' = Using(p) /\ r \notin Using(p)
    BY <1>0, <1>2 DEF Using, AhciTypeOK
  <2>2. aexp[p] \in Nat /\ Cardinality(Using(p)) \in Nat /\ aexp[p] >= Cardinality(Using(p))
    BY UsingFinite DEF BuffersOk, AhciTypeOK
  <2>3. CASE p \in TakenBack(APages[r], k)
    <3>1. Using(p) = {}
      BY <2>1, <2>3 DEF NoNeighbour, Using
    <3>2. aexp'[p] >= 0 /\ Cardinality({}) = 0
      BY <1>4, FS_EmptySet
    <3>3. QED
      BY <2>1, <3>1, <3>2
  <2>4. CASE p \notin TakenBack(APages[r], k)
    <3>1. aexp'[p] = x[p] /\ x[p] \in Nat /\ x[p] >= aexp[p]
      BY <2>4, <1>1, <1>3
    <3>2. QED
      BY <2>1, <2>2, <3>1
  <2>5. QED
    BY <2>3, <2>4
<1>9. ReportedWasDone'
  BY <1>2 DEF ReportedWasDone, AhciTypeOK
<1>10. QED
  BY <1>5, <1>6, <1>7, <1>8, <1>9

LEMMA EnqueueInv ==
  ASSUME AhciInv, NEW r \in AReqs, Enqueue(r) \/ EnqueueFails(r)
  PROVE  AhciInv'
<1> USE DEF AhciInv
<1>0. areq[r] = "new"
  BY DEF Enqueue, EnqueueFails, Queueable
<1>1. /\ \E st \in {"queued", "failed"} : areq' = [areq EXCEPT ![r] = st]
      /\ aioq' \in {aioq, Append(aioq, r)}
      /\ UNCHANGED <<apc, apst, alast, acmd, aexp, awake, hcmd, hci, hpxis, his, herr, hran, hmask>>
  BY DEF Enqueue, EnqueueFails, hba
<1>2. aioq' \in Seq(AReqs)
  <2>1. aioq \in Seq(AReqs)
    BY DEF AhciTypeOK
  <2>2. Append(aioq, r) \in Seq(AReqs)
    BY <2>1
  <2>3. QED
    BY <1>1, <2>1, <2>2
<1>3. AhciTypeOK' /\ DriverType' /\ PortsOk'
  BY <1>1, <1>2 DEF AhciTypeOK, DriverType, PortsOk
<1>4. Shown' /\ IssueOk' /\ CarriedOut' /\ BuffersOk'
  <2>1. \A p : Using(p)' = Using(p)
    BY <1>0, <1>1 DEF Using, AhciTypeOK
  <2>2. BuffersOk'
    BY <1>1, <2>1 DEF BuffersOk
  <2>3. QED
    BY <1>1, <2>2 DEF Shown, IssueOk, CarriedOut, Pending
<1>5. SlotsOk'
  BY <1>0, <1>1 DEF SlotsOk, AhciTypeOK
<1>6. ReportedWasDone'
  BY <1>1 DEF ReportedWasDone, AhciTypeOK
<1>7. QED
  BY <1>3, <1>4, <1>5, <1>6

-----------------------------------------------------------------------------
(* The HBA completes a command of lastci, or IDENTIFY.                     *)
LEMMA HbaRunsInv ==
  ASSUME AhciInv, OneDisk, NEW i \in APorts, NEW j \in ASlots, HbaRuns(i, j)
  PROVE  AhciInv'
<1> USE DEF AhciInv
<1>1. /\ j \in hci[i] /\ i \notin herr
      /\ hci' = [hci EXCEPT ![i] = @ \ {j}] /\ hran' = hran \cup {hcmd[i][j]}
      /\ hpxis' = hpxis \cup {i} /\ his' = his \cup {i}
      /\ UNCHANGED <<apc, apst, alast, acmd, aioq, aexp, areq, awake, hcmd, herr, hmask>>
  BY DEF HbaRuns
<1>2. hci'[i] = hci[i] \ {j}
  BY <1>1 DEF AhciTypeOK
<1>3. AhciTypeOK' /\ DriverType' /\ IssueOk'
  BY <1>1 DEF AhciTypeOK, DriverType, IssueOk
<1>4. PortsOk'
  <2>1. apst[i] # "off"
    BY <1>1 DEF PortsOk
  <2>2. apst[i] = "ident" => hci'[i] = {}
    BY <1>1, <1>2 DEF PortsOk
  <2>3. QED
    BY <1>1, <1>2, <2>1, <2>2 DEF PortsOk, OneDisk
<1>5. Shown' /\ SlotsOk' /\ BuffersOk'
  BY <1>1, <1>2 DEF Shown, SlotsOk, BuffersOk, Using, OneDisk
<1>6. CarriedOut'
  <2>1. Pending(i)' = Pending(i)
    BY <1>1 DEF Pending
  <2>2. \A k \in (alast[i] \ hci'[i]) \ Pending(i) : acmd[i][k] \in hran'
    BY <1>1, <1>2 DEF CarriedOut, Shown, PortsOk
  <2>3. QED
    BY <1>1, <2>1, <2>2 DEF CarriedOut, OneDisk
<1>7. ReportedWasDone'
  BY <1>1 DEF ReportedWasDone
<1>8. QED
  BY <1>3, <1>4, <1>5, <1>6, <1>7

(* A request for one page has one page taken back.                         *)
LEMMA OneEach ==
  ASSUME NEW rs \in SUBSET AReqs, NEW p, \A r \in StartingAt(rs, p) : Len(APages[r]) = 1
  PROVE  Cardinality(Dunexports(rs, p)) = Cardinality(StartingAt(rs, p))
<1> DEFINE S == StartingAt(rs, p)
           D == Dunexports(rs, p)
           f == [r \in S |-> <<r, 1>>]
<1>1. S \subseteq AReqs
  BY DEF StartingAt
<1>2. \A r \in S : DOMAIN APages[r] = {1}
  <2> TAKE r \in S
  <2>1. APages[r] \in Seq(Nat)
    BY <1>1, PagesType
  <2>2. QED
    BY <2>1
<1>3. D = {<<r, 1>> : r \in S}
  BY <1>2 DEF Dunexports
<1> HIDE DEF S, D
<1>4. f \in Bijection(S, D)
  BY <1>3 DEF Bijection, Injection, Surjection, IsInjective
<1>5. IsFiniteSet(S)
  BY <1>1, AhciAssumption, FS_Subset
<1>6. Cardinality(S) = Cardinality(D)
  BY <1>4, <1>5, FS_Bijection DEF ExistsBijection
<1>7. QED
  BY <1>6 DEF S, D

LEMMA TakesBack ==
  ASSUME NEW rs \in SUBSET AReqs, NEW p, NEW x \in Nat
  PROVE  Unexport(x, Cardinality(Dunexports(rs, p))) \in Nat
<1>1. IsFiniteSet(StartingAt(rs, p))
  BY AhciAssumption, FS_Subset DEF StartingAt
<1>2. \A r \in StartingAt(rs, p) : IsFiniteSet({r} \X DOMAIN APages[r])
  <2> TAKE r \in StartingAt(rs, p)
  <2>1. APages[r] \in Seq(Nat)
    BY PagesType DEF StartingAt
  <2>2. DOMAIN APages[r] = 1..Len(APages[r]) /\ Len(APages[r]) \in Nat
    BY <2>1
  <2>3. IsFiniteSet(DOMAIN APages[r]) /\ IsFiniteSet({r})
    <3>1. IsFiniteSet(1..Len(APages[r]))
      BY <2>2, FS_Interval
    <3>2. IsFiniteSet({r})
      BY FS_Singleton
    <3>3. QED
      BY <2>2, <3>1, <3>2
  <2>4. QED
    BY <2>3, FS_Product
<1>3. IsFiniteSet({{r} \X DOMAIN APages[r] : r \in StartingAt(rs, p)})
  <2> DEFINE S == StartingAt(rs, p)
             T == {{r} \X DOMAIN APages[r] : r \in S}
             f == [r \in S |-> {r} \X DOMAIN APages[r]]
  <2>1. f \in Surjection(S, T)
    BY DEF Surjection
  <2>2. QED
    BY <1>1, <2>1, FS_Surjection DEF ExistsSurjection
<1>4. IsFiniteSet(Dunexports(rs, p))
  BY <1>2, <1>3, FS_UNION DEF Dunexports
<1>5. QED
  BY <1>4, FS_CardinalityType, UnexportType

(* ahci_port_intr reports what PxCI no longer shows, which is carried out, *)
(* and takes back the pages of no other request.                           *)
LEMMA PortDoneInv ==
  ASSUME AhciInv, OneDisk, FirstPagesOwn, PortDone
  PROVE  AhciInv'
<1> USE DEF AhciInv
<1> DEFINE i == apc.i
           done == alast[i] \ hci[i]
           rs == {acmd[i][j] : j \in done}
<1>0. i \in APorts /\ apc.at = "ci"
  BY DEF PortDone, DriverType
<1>1. /\ areq' = [r \in AReqs |-> IF r \in rs THEN "done" ELSE areq[r]]
      /\ aexp' = UnsetPrdt(aexp, rs)
      /\ alast' = IF done = {} THEN alast ELSE [alast EXCEPT ![i] = hci[i]]
      /\ apc' = IF done = {} THEN [at |-> "is", i |-> i] ELSE apc
      /\ UNCHANGED <<apst, acmd, aioq, awake, hcmd, hci, hpxis, his, herr, hran, hmask>>
  BY DEF PortDone, hba
<1>2. alast'[i] = alast[i] \cap hci[i]
  <2>1. CASE done = {}
    BY <2>1, <1>1
  <2>2. CASE done # {}
    <3>1. apst[i] = "up"
      BY <1>0, <2>2 DEF PortsOk
    <3>2. hci[i] \subseteq alast[i]
      BY <1>0, <3>1 DEF Shown
    <3>3. QED
      BY <1>0, <1>1, <2>2, <3>2 DEF AhciTypeOK
  <2>3. QED
    BY <2>1, <2>2
<1>3. rs \subseteq AReqs /\ rs \subseteq hran
  <2>1. Pending(i) = {}
    BY <1>0 DEF Pending
  <2>2. QED
    BY <1>0, <2>1 DEF SlotsOk, CarriedOut
<1>4. \A j \in alast'[i] : acmd[i][j] \notin rs
  BY <1>0, <1>2 DEF SlotsOk
<1> HIDE DEF rs
<1>5. aexp' \in [Buffers -> Nat]
  BY <1>1, <1>3, TakesBack DEF UnsetPrdt, AhciTypeOK
<1>6. BuffersOk'
  <2> SUFFICES ASSUME NEW p \in Buffers PROVE aexp'[p] >= Cardinality(Using(p)')
    BY DEF BuffersOk
  <2>1. /\ aexp[p] \in Nat /\ aexp'[p] \in Nat /\ aexp[p] >= Cardinality(Using(p))
        /\ Cardinality(Using(p)) \in Nat /\ Cardinality(Using(p)') \in Nat
    BY <1>5, UsingFinite DEF AhciTypeOK, BuffersOk
  <2>2. Using(p)' = Using(p) \ rs
    BY <1>1 DEF Using, AhciTypeOK
  <2>3. CASE \E r \in StartingAt(rs, p) : Len(APages[r]) > 1
    <3>1. PICK r \in StartingAt(rs, p) : Len(APages[r]) > 1
      BY <2>3
    <3>2. r \in rs /\ r \in AReqs /\ APages[r][1] = p
      BY <1>3 DEF StartingAt
    <3>3. Using(p)' = {}
      BY <2>2, <3>1, <3>2 DEF FirstPagesOwn, Using
    <3>4. QED
      BY <2>1, <3>3, FS_EmptySet
  <2>4. CASE ~\E r \in StartingAt(rs, p) : Len(APages[r]) > 1
    <3> DEFINE S == StartingAt(rs, p)
    <3>1. S \subseteq Using(p) /\ Using(p)' \subseteq Using(p) \ S
      <4>1. \A r \in rs : r \in AReqs /\ areq[r] = "busy"
        BY <1>0 DEF rs, SlotsOk
      <4>2. QED
        BY <4>1, <2>2, PagesType DEF StartingAt, Using
    <3>2. \A r \in S : Len(APages[r]) = 1
      <4> SUFFICES ASSUME NEW r \in S PROVE Len(APages[r]) = 1
        OBVIOUS
      <4>1. r \in AReqs
        BY <1>3 DEF StartingAt
      <4>2. Len(APages[r]) \in Nat \ {0}
        BY <4>1, PagesType
      <4>3. ~(Len(APages[r]) > 1)
        BY <2>4
      <4>4. \A k \in Nat \ {0} : k > 1 \/ k = 1
        OBVIOUS
      <4>5. QED
        BY <4>2, <4>3, <4>4, Zenon
    <3>3. Cardinality(Dunexports(rs, p)) = Cardinality(S)
      BY <1>3, <3>2, OneEach
    <3>4. aexp'[p] = Unexport(aexp[p], Cardinality(S))
      BY <1>1, <3>3 DEF UnsetPrdt
    <3> HIDE DEF S
    <3>5. /\ Cardinality(S) \in Nat
          /\ Cardinality(Using(p) \ S) = Cardinality(Using(p)) - Cardinality(S)
      <4>1. IsFiniteSet(Using(p)) /\ IsFiniteSet(S)
        BY <3>1, UsingFinite, FS_Subset
      <4>2. Using(p) \cap S = S
        BY <3>1
      <4>3. QED
        BY <4>1, <4>2, FS_CardinalityType, FS_Difference
    <3>6. Cardinality(Using(p)') <= Cardinality(Using(p) \ S)
      <4>1. IsFiniteSet(Using(p) \ S)
        BY UsingFinite, FS_Difference
      <4>2. QED
        BY <3>1, <4>1, FS_Subset
    <3>7. QED
      BY <2>1, <3>4, <3>5, <3>6 DEF Unexport
  <2>5. QED
    BY <2>3, <2>4
<1>7. AhciTypeOK'
  <2>1. areq' \in [AReqs -> {"new", "busy", "queued", "failed", "done"}]
    BY <1>1 DEF AhciTypeOK
  <2>2. alast' \in [APorts -> SUBSET ASlots]
    BY <1>0, <1>1 DEF AhciTypeOK
  <2>3. QED
    BY <1>1, <1>5, <2>1, <2>2 DEF AhciTypeOK
<1>8. DriverType' /\ IssueOk'
  BY <1>0, <1>1 DEF DriverType, IssueOk
<1>9. PortsOk'
  BY <1>0, <1>1, <1>2 DEF PortsOk, OneDisk
<1>10. Shown'
  BY <1>0, <1>1, <1>2 DEF Shown, OneDisk
<1>11. SlotsOk'
  <2>1. \A j \in alast'[i] : areq'[acmd[i][j]] = areq[acmd[i][j]]
    BY <1>0, <1>1, <1>2, <1>4 DEF SlotsOk
  <2>2. QED
    BY <1>0, <1>1, <1>2, <2>1 DEF SlotsOk, OneDisk
<1>12. CarriedOut'
  BY <1>0, <1>1, <1>2 DEF CarriedOut, OneDisk
<1>14. ReportedWasDone'
  <2>1. \A r \in AReqs : areq'[r] = "done" => r \in hran'
    BY <1>1, <1>3 DEF ReportedWasDone
  <2>2. \A r \in AReqs : areq'[r] = "busy" /\ APortOf[r] = i => \E j \in alast'[i] : acmd'[i][j] = r
    <3> SUFFICES ASSUME NEW r \in AReqs, areq'[r] = "busy", APortOf[r] = i
                 PROVE  \E j \in alast'[i] : acmd[i][j] = r
      BY <1>1
    <3>1. areq[r] = "busy" /\ r \notin rs
      BY <1>1
    <3>2. PICK j \in alast[i] : acmd[i][j] = r
      BY <1>0, <3>1 DEF ReportedWasDone
    <3>3. j \in hci[i]
      BY <3>1, <3>2 DEF rs
    <3>4. QED
      BY <1>2, <3>2, <3>3
  <2>3. QED
    BY <1>0, <2>1, <2>2 DEF ReportedWasDone, OneDisk
<1>15. QED
  BY <1>6, <1>7, <1>8, <1>9, <1>10, <1>11, <1>12, <1>14

-----------------------------------------------------------------------------
LEMMA AhciStep ==
  ASSUME AhciInv, OneDisk, NoNeighbour, FirstPagesOwn, [AhciNext]_ahciVars
  PROVE  AhciInv'
<1>1. CASE AhciDriver
  BY <1>1, QuietInv, PortInitInv, GotBlkinfoInv, IssueWriteInv, PortDoneInv DEF AhciDriver
<1>2. CASE AhciHba
  BY <1>2, QuietInv, HbaRunsInv DEF AhciHba
<1>3. ASSUME NEW i \in APorts, HbaFails(i) \/ PortInitFails(i) PROVE AhciInv'
  BY <1>3, QuietInv, PortInitFailsInv
<1>4. ASSUME NEW r \in AReqs,
             Issue(r) \/ Enqueue(r) \/ EnqueueFails(r) \/ \E k \in DOMAIN APages[r] : IssueFails(r, k)
      PROVE  AhciInv'
  BY <1>4, IssueInv, EnqueueInv, IssueFailsInv
<1>5. CASE UNCHANGED ahciVars
  <2>1. AhciTypeOK' /\ DriverType'
    BY <1>5 DEF ahciVars, AhciInv, AhciTypeOK, DriverType
  <2>2. PortsOk'
    BY <1>5 DEF ahciVars, AhciInv, PortsOk
  <2>3. QED
    BY <1>5, <2>1, <2>2, SlotsSame DEF ahciVars, AhciInv
<1>6. QED
  BY <1>1, <1>2, <1>3, <1>4, <1>5 DEF AhciNext

(* With one disk, a request is reported as done only when the HBA has      *)
(* carried it out, and the HBA works only on pages that are exported to    *)
(* it, for every number of slots and requests and every order of the       *)
(* driver's accesses to PxCI, PxIS and IS and the completions of the HBA.  *)
THEOREM RequestsSoundCorrect ==
  ASSUME OneDisk, NoNeighbour, FirstPagesOwn
  PROVE  AhciSpec => []RequestsSound
<1>1. AhciInv => RequestsSound
  <2> SUFFICES ASSUME AhciInv PROVE DmaExported
    BY DEF AhciInv, RequestsSound
  <2> SUFFICES ASSUME NEW i \in APorts, NEW j \in hci[i], hcmd[i][j] \in AReqs
               PROVE  \A p \in ToSet(APages[hcmd[i][j]]) : aexp[p] > 0
    BY DEF DmaExported
  <2>1. apst[i] = "up"
    BY AhciAssumption DEF AhciInv, PortsOk
  <2>2. j \in alast[i] /\ hcmd[i][j] = acmd[i][j]
    BY <2>1 DEF AhciInv, Shown
  <2>3. hcmd[i][j] \in AReqs /\ areq[hcmd[i][j]] = "busy"
    BY <2>2 DEF AhciInv, SlotsOk
  <2>4. \A p \in ToSet(APages[hcmd[i][j]]) : p \in Buffers /\ Cardinality(Using(p)) > 0
    <3> TAKE p \in ToSet(APages[hcmd[i][j]])
    <3>1. hcmd[i][j] \in Using(p)
      BY <2>3 DEF Using
    <3>2. Cardinality(Using(p)) # 0
      BY <3>1, UsingFinite, FS_EmptySet
    <3>3. QED
      BY <2>3, <3>2, UsingFinite, PagesType
  <2>5. QED
    BY <2>4, UsingFinite DEF AhciInv, AhciTypeOK, BuffersOk
<1>2. AhciInit => AhciInv
  BY AhciInitInv
<1>3. AhciInv /\ [AhciNext]_ahciVars => AhciInv'
  BY AhciStep
<1>4. QED
  BY <1>1, <1>2, <1>3, PTL DEF AhciSpec

-----------------------------------------------------------------------------
(* Blk: block devices, for any number of objects, descriptors and blocks.  *)
(* How often x stands in a sequence, and how that changes.                 *)
Occurs(s, x) == {k \in DOMAIN s : s[k] = x}

LEMMA OccursType ==
  ASSUME NEW S, NEW s \in Seq(S), NEW x
  PROVE  IsFiniteSet(Occurs(s, x)) /\ Cardinality(Occurs(s, x)) \in Nat
<1>1. Len(s) \in Nat /\ DOMAIN s = 1..Len(s)
  OBVIOUS
<1>2. IsFiniteSet(DOMAIN s)
  BY <1>1, FS_Interval
<1>3. Occurs(s, x) \subseteq DOMAIN s
  BY DEF Occurs
<1>4. QED
  BY <1>2, <1>3, FS_Subset, FS_CardinalityType

LEMMA OccursAppend ==
  ASSUME NEW S, NEW s \in Seq(S), NEW y \in S, NEW x
  PROVE  Cardinality(Occurs(Append(s, y), x)) = Cardinality(Occurs(s, x)) + (IF x = y THEN 1 ELSE 0)
<1>1. CASE x = y
  <2>1. Occurs(Append(s, y), x) = Occurs(s, x) \cup {Len(s) + 1}
    BY <1>1 DEF Occurs
  <2>2. Len(s) + 1 \notin Occurs(s, x)
    BY DEF Occurs
  <2>3. Cardinality(Occurs(s, x) \cup {Len(s) + 1}) = Cardinality(Occurs(s, x)) + 1
    BY <2>2, OccursType, FS_AddElement
  <2>4. QED
    BY <1>1, <2>1, <2>3
<1>2. CASE x # y
  <2>1. Occurs(Append(s, y), x) = Occurs(s, x)
    BY <1>2 DEF Occurs
  <2>2. QED
    BY <1>2, <2>1, OccursType
<1>3. QED
  BY <1>1, <1>2

LEMMA OccursCleared ==
  ASSUME NEW S, NEW s \in Seq(S), NEW k \in DOMAIN s, NEW z, z # s[k], NEW x, x # z
  PROVE  /\ Cardinality(Occurs([s EXCEPT ![k] = z], x))
              = Cardinality(Occurs(s, x)) - (IF x = s[k] THEN 1 ELSE 0)
         /\ x = s[k] => Cardinality(Occurs(s, x)) > 0
<1>1. CASE x = s[k]
  <2>1. Occurs([s EXCEPT ![k] = z], x) = Occurs(s, x) \ {k} /\ k \in Occurs(s, x)
    BY <1>1 DEF Occurs
  <2>2. Cardinality(Occurs(s, x) \ {k}) = Cardinality(Occurs(s, x)) - 1
    BY <2>1, OccursType, FS_RemoveElement
  <2>3. Cardinality(Occurs(s, x)) # 0
    BY <2>1, OccursType, FS_EmptySet
  <2>4. Cardinality(Occurs(s, x)) \in Nat
    BY OccursType
  <2> DEFINE c == Cardinality(Occurs(s, x))
             d == Cardinality(Occurs([s EXCEPT ![k] = z], x))
  <2>5. d = c - 1 /\ c # 0 /\ c \in Nat
    BY <2>1, <2>2, <2>3, <2>4
  <2> HIDE DEF c, d
  <2>6. d = c - (IF x = s[k] THEN 1 ELSE 0) /\ c > 0
    BY <1>1, <2>5
  <2>7. QED
    BY <2>6 DEF c, d
<1>2. CASE x # s[k]
  <2>1. Occurs([s EXCEPT ![k] = z], x) = Occurs(s, x)
    BY <1>2 DEF Occurs
  <2>2. QED
    BY <1>2, <2>1, OccursType
<1>3. QED
  BY <1>1, <1>2

-----------------------------------------------------------------------------
(* The objects.  A partition is created after its base, and a disk starts  *)
(* at its own first block.                                                 *)
ObjType ==
  [name : BNames, base : Nat, start : Nat, len : Nat, ref : Nat, invalid : BOOLEAN, freed : BOOLEAN]
WellFormed(objs) ==
  /\ objs \in Seq(ObjType)
  /\ \A o \in 1..Len(objs) : objs[o].base \in 0..(o - 1) /\ (objs[o].base = 0 => objs[o].start = 0)
ObjsOk == WellFormed(bobj)

(* Who holds numbers of objects.                                           *)
HoldersOk ==
  /\ btree \subseteq 1..Len(bobj)
  /\ bfd \in Seq(0..Len(bobj)) /\ bleak \in Seq(1..Len(bobj))
  /\ bscan.at \in {"iter", "read"} /\ (bscan.at = "read" => bscan.obj \in 1..Len(bobj))
  /\ bscan = [at |-> bscan.at, cur |-> bscan.cur, obj |-> bscan.obj]

(* The last read, on the disk.                                             *)
IoOk == bio.via \in 0..Len(bobj) /\ bio.from \in Nat /\ bio.n \in Nat

BlkInv == ObjsOk /\ HoldersOk /\ IoOk /\ BlkRefs /\ PartInside

-----------------------------------------------------------------------------
(* The start of a partition on its disk is the sum along its bases.        *)
IsStart(f, objs) ==
  f = [o \in 0..Len(objs) |-> IF o = 0 THEN 0 ELSE objs[o].start + f[objs[o].base]]

(* Objects as they are created: each after its base.                       *)
WellBased(objs) ==
  /\ Len(objs) \in Nat
  /\ \A o \in 1..Len(objs) : objs[o].base \in 0..(o - 1) /\ objs[o].start \in Nat

(* There are such starts, by induction on the number of objects.           *)
LEMMA StartsExist ==
  ASSUME NEW objs, WellBased(objs)
  PROVE  \E f \in [0..Len(objs) -> Nat] : IsStart(f, objs)
<1> DEFINE N == Len(objs)
           Good(f, m) == \A o \in 0..m : f[o] = IF o = 0 THEN 0 ELSE objs[o].start + f[objs[o].base]
           S == {m \in 0..N : \E f \in [0..m -> Nat] : Good(f, m)}
<1>0. N \in Nat
  BY DEF WellBased
<1> HIDE DEF N
<1>1. 0 \in S
  <2> DEFINE f == [o \in 0..0 |-> 0]
  <2>1. f \in [0..0 -> Nat] /\ Good(f, 0)
    OBVIOUS
  <2> HIDE DEF f
  <2>2. QED
    BY <1>0, <2>1
<1>2. \A m \in 0..N : m \in S /\ m < N => m + 1 \in S
  <2> SUFFICES ASSUME NEW m \in 0..N, m \in S, m < N PROVE m + 1 \in S
    OBVIOUS
  <2>1. PICK f \in [0..m -> Nat] : Good(f, m)
    OBVIOUS
  <2> DEFINE g == [o \in 0..(m + 1) |-> IF o = m + 1 THEN objs[o].start + f[objs[o].base] ELSE f[o]]
  <2>2. m + 1 \in 1..N /\ m \in Nat
    BY <1>0
  <2>3. objs[m + 1].base \in 0..m /\ objs[m + 1].start \in Nat
    BY <2>2 DEF WellBased, N
  <2>4. g \in [0..(m + 1) -> Nat]
    BY <2>2, <2>3
  <2>5. \A o \in 1..m : objs[o].base \in 0..m /\ objs[o].base # m + 1
    <3> TAKE o \in 1..m
    <3>1. o \in 1..N /\ 0..(o - 1) \subseteq 0..m /\ m + 1 \notin 0..(o - 1)
      BY <1>0, <2>2
    <3>2. objs[o].base \in 0..(o - 1)
      BY <3>1 DEF WellBased, N
    <3>3. QED
      BY <3>1, <3>2
  <2>6. Good(g, m + 1)
    <3> TAKE o \in 0..(m + 1)
    <3>1. CASE o = m + 1
      BY <3>1, <2>2, <2>3
    <3>2. CASE o = 0
      BY <3>2, <2>1, <2>2
    <3>3. CASE o \in 1..m
      BY <3>3, <2>1, <2>2, <2>5
    <3>4. QED
      BY <2>2, <3>1, <3>2, <3>3
  <2> HIDE DEF g, Good
  <2>7. m + 1 \in 0..N
    BY <1>0, <2>2
  <2>8. QED
    BY <2>4, <2>6, <2>7
<1>3. N \in S
  <2> HIDE DEF S
  <2>1. QED
    BY <1>0, <1>1, <1>2, UpTo
<1>4. PICK f \in [0..N -> Nat] : Good(f, N)
  BY <1>3
<1>5. f = [o \in 0..N |-> IF o = 0 THEN 0 ELSE objs[o].start + f[objs[o].base]]
  BY <1>4
<1>6. QED
  BY <1>4, <1>5 DEF IsStart, N

(* They are the same for the objects that two such sequences share.        *)
LEMMA StartsAgree ==
  ASSUME NEW objs, WellBased(objs), NEW more, Len(more) \in Nat, Len(objs) <= Len(more),
         \A o \in 1..Len(objs) : more[o].start = objs[o].start /\ more[o].base = objs[o].base,
         NEW f, IsStart(f, objs), NEW g, IsStart(g, more)
  PROVE  \A o \in 0..Len(objs) : f[o] = g[o]
<1> DEFINE B == {o \in 0..Len(objs) : f[o] # g[o]}
<1> SUFFICES ASSUME B # {} PROVE FALSE
  OBVIOUS
<1>0. Len(objs) \in Nat
  BY DEF WellBased
<1>1. PICK x \in B : \A y \in B : x <= y
  <2>1. B \in SUBSET Nat
    BY <1>0
  <2> HIDE DEF B
  <2>2. QED
    BY <2>1, LeastNumber
<1>2. x \in 0..Len(objs) /\ f[x] # g[x]
  BY <1>1
<1>3. f[x] = IF x = 0 THEN 0 ELSE objs[x].start + f[objs[x].base]
  BY <1>2 DEF IsStart
<1>4. g[x] = IF x = 0 THEN 0 ELSE more[x].start + g[more[x].base]
  <2>1. x \in 0..Len(more)
    BY <1>0, <1>2
  <2>2. QED
    BY <2>1 DEF IsStart
<1>5. x \in 1..Len(objs)
  BY <1>2, <1>3, <1>4
<1>6. objs[x].base \in 0..(x - 1) /\ more[x].base = objs[x].base /\ more[x].start = objs[x].start
  BY <1>5 DEF WellBased
<1>7. f[objs[x].base] = g[objs[x].base]
  BY <1>0, <1>1, <1>5, <1>6
<1>8. QED
  BY <1>2, <1>3, <1>4, <1>5, <1>6, <1>7

LEMMA DiskStartIs ==
  ASSUME NEW objs, WellBased(objs)
  PROVE  IsStart(DiskStart(objs), objs) /\ DiskStart(objs) \in [0..Len(objs) -> Nat]
<1> DEFINE d == DiskStart(objs)
<1>1. PICK f \in [0..Len(objs) -> Nat] : IsStart(f, objs)
  BY StartsExist
<1>2. d = CHOOSE g : IsStart(g, objs)
  BY DEF DiskStart, IsStart
<1>3. IsStart(d, objs)
  BY <1>1, <1>2
<1> HIDE DEF d
<1>4. DOMAIN d = 0..Len(objs) /\ d = [o \in DOMAIN d |-> d[o]]
  BY <1>3 DEF IsStart
<1>5. \A o \in 0..Len(objs) : f[o] = d[o]
  BY <1>1, <1>3, StartsAgree DEF WellBased
<1>6. d = f
  BY <1>4, <1>5
<1>7. QED
  BY <1>1, <1>3, <1>6 DEF d

-----------------------------------------------------------------------------
(* A read goes up from a partition to its base, level by level.            *)
Place == [obj : 0..Len(bobj), from : Int]
IsWay(a, o, b, n) ==
  a = [k \in 0..Len(bobj) |-> IF k = 0 THEN [obj |-> o, from |-> b] ELSE Up(a[k - 1], n)]

LEMMA ObjFacts ==
  ASSUME NEW objs, WellFormed(objs), NEW o \in 1..Len(objs)
  PROVE  /\ Len(objs) \in Nat /\ objs[o] \in ObjType
         /\ objs[o].start \in Nat /\ objs[o].len \in Nat /\ objs[o].ref \in Nat
         /\ objs[o].invalid \in BOOLEAN /\ objs[o].freed \in BOOLEAN /\ objs[o].name \in BNames
         /\ objs[o].base \in 0..(o - 1) /\ objs[o].base \in 0..Len(objs)
         /\ objs[o].base = 0 => objs[o].start = 0
<1>1. Len(objs) \in Nat /\ objs[o] \in ObjType
  BY DEF WellFormed
<1>2. objs[o].base \in 0..(o - 1) /\ (objs[o].base = 0 => objs[o].start = 0)
  BY DEF WellFormed
<1>3. objs[o].base \in 0..Len(objs)
  BY <1>1, <1>2
<1>4. QED
  BY <1>1, <1>2, <1>3 DEF ObjType

LEMMA UpPlace ==
  ASSUME ObjsOk, NEW u \in Place, NEW n \in Nat
  PROVE  Up(u, n) \in Place
<1>0. Len(bobj) \in Nat /\ u.obj \in 0..Len(bobj) /\ u.from \in Int
  BY DEF Place, ObjsOk, WellFormed
<1>1. CASE u.obj = 0
  BY <1>0, <1>1 DEF Up, Place
<1>2. CASE u.obj # 0
  <2>1. u.obj \in 1..Len(bobj)
    BY <1>0, <1>2
  <2>2. bobj[u.obj].start + u.from \in Int /\ bobj[u.obj].base \in 0..Len(bobj)
    BY <1>0, <2>1, ObjFacts DEF ObjsOk
  <2>3. QED
    BY <1>0, <2>2 DEF Up, Place
<1>3. QED
  BY <1>1, <1>2

LEMMA WayExists ==
  ASSUME ObjsOk, NEW o \in 1..Len(bobj), NEW b \in Nat, NEW n \in Nat
  PROVE  \E a : IsWay(a, o, b, n)
<1> DEFINE N == Len(bobj)
           Good(a, m) == \A k \in 0..m : a[k] = IF k = 0 THEN [obj |-> o, from |-> b] ELSE Up(a[k - 1], n)
           S == {m \in 0..N : \E a \in [0..m -> Place] : Good(a, m)}
<1>0. N \in Nat /\ [obj |-> o, from |-> b] \in Place
  BY DEF ObjsOk, WellFormed, Place
<1>1. 0 \in S
  <2> DEFINE a == [k \in 0..0 |-> [obj |-> o, from |-> b]]
  <2>1. a \in [0..0 -> Place] /\ Good(a, 0)
    BY <1>0
  <2> HIDE DEF a, Good
  <2>2. QED
    BY <1>0, <2>1
<1>2. \A m \in 0..N : m \in S /\ m < N => m + 1 \in S
  <2> SUFFICES ASSUME NEW m \in 0..N, m \in S, m < N PROVE m + 1 \in S
    OBVIOUS
  <2>1. PICK a \in [0..m -> Place] : Good(a, m)
    OBVIOUS
  <2>2. m + 1 \in 0..N /\ m \in Nat /\ a[m] \in Place
    BY <1>0
  <2> DEFINE c == [k \in 0..(m + 1) |-> IF k = m + 1 THEN Up(a[m], n) ELSE a[k]]
  <2>3. c \in [0..(m + 1) -> Place]
    BY <2>2, UpPlace
  <2>4. Good(c, m + 1)
    <3> SUFFICES ASSUME NEW k \in 0..(m + 1)
                 PROVE  c[k] = IF k = 0 THEN [obj |-> o, from |-> b] ELSE Up(c[k - 1], n)
      OBVIOUS
    <3>1. CASE k = m + 1
      BY <3>1, <2>2
    <3>2. CASE k # m + 1
      <4>1. k \in 0..m /\ (k # 0 => k - 1 \in 0..m)
        BY <3>2, <2>2
      <4>2. c[k] = a[k] /\ (k # 0 => c[k - 1] = a[k - 1])
        BY <4>1, <2>2
      <4>3. QED
        BY <4>1, <4>2, <2>1
    <3>3. QED
      BY <3>1, <3>2
  <2> HIDE DEF c, Good
  <2>5. QED
    BY <2>2, <2>3, <2>4
<1>3. N \in S
  <2> HIDE DEF S
  <2>1. \A m \in 0..N : m \in S
    BY <1>0, <1>1, <1>2, UpTo
  <2>2. QED
    BY <1>0, <2>1
<1>4. PICK a \in [0..N -> Place] : Good(a, N)
  BY <1>3
<1>5. a = [k \in 0..N |-> IF k = 0 THEN [obj |-> o, from |-> b] ELSE Up(a[k - 1], n)]
  BY <1>4
<1>6. QED
  BY <1>5 DEF IsWay

LEMMA BasesOk ==
  ASSUME NEW objs, WellFormed(objs)
  PROVE  WellBased(objs)
BY ObjFacts DEF WellFormed, WellBased

(* It ends at the disk, at the block that the starts of the partitions add *)
(* up to, and the partition it began in has not refused it.                *)
LEMMA ReachesDisk ==
  ASSUME ObjsOk, NEW o \in 1..Len(bobj), NEW b \in Nat, NEW n \in Nat
  PROVE  /\ Reaches(o, b, n) \in Int
         /\ Reaches(o, b, n) >= 0 =>
              /\ Reaches(o, b, n) = b + DiskStart(bobj)[o]
              /\ bobj[o].base # 0 => b + n < bobj[o].len
<1> DEFINE N == Len(bobj)
<1>0. N \in Nat /\ o \in 1..N /\ N > 0
  BY DEF ObjsOk, WellFormed
<1>1. PICK a : IsWay(a, o, b, n) /\ Reaches(o, b, n) = a[N].from
  <2> DEFINE w == CHOOSE a : IsWay(a, o, b, n)
  <2>1. IsWay(w, o, b, n)
    BY WayExists
  <2>2. Reaches(o, b, n) = w[N].from
    BY DEF Reaches, IsWay
  <2>3. QED
    BY <2>1, <2>2
<1> DEFINE D == DiskStart(bobj)
<1>2. D \in [0..N -> Nat] /\ IsStart(D, bobj)
  BY BasesOk, DiskStartIs DEF ObjsOk
<1> HIDE DEF D
<1> DEFINE On(k) ==
             /\ a[k].obj \in 1..N /\ a[k].from \in Nat
             /\ a[k].from + D[a[k].obj] = b + D[o]
             /\ a[k].obj <= o - k \/ bobj[a[k].obj].base = 0
             /\ k > 0 /\ bobj[o].base # 0 => b + n < bobj[o].len
           Lost(k) == a[k] = [obj |-> 0, from |-> -1]
           S == {k \in 0..N : On(k) \/ Lost(k)}
<1> HIDE DEF N
<1>3. a[0] = [obj |-> o, from |-> b] /\ \A k \in 1..N : a[k] = Up(a[k - 1], n)
  <2>1. \A k \in 0..N : a[k] = IF k = 0 THEN [obj |-> o, from |-> b] ELSE Up(a[k - 1], n)
    BY <1>1 DEF IsWay, N
  <2>2. QED
    BY <1>0, <2>1
<1>4. On(0)
  BY <1>0, <1>2, <1>3
<1>5. \A k \in 0..N : (On(k) \/ Lost(k)) /\ k < N => On(k + 1) \/ Lost(k + 1)
  <2> SUFFICES ASSUME NEW k \in 0..N, On(k) \/ Lost(k), k < N PROVE On(k + 1) \/ Lost(k + 1)
    OBVIOUS
  <2>0. k \in Nat /\ k + 1 \in 1..N
    BY <1>0
  <2>1. a[k + 1] = Up(a[k], n)
    BY <1>3, <2>0
  <2>2. CASE Lost(k)
    BY <2>1, <2>2 DEF Up
  <2>3. CASE On(k)
    <3> DEFINE u == a[k].obj
               p == bobj[u]
    <3>1. u \in 1..N /\ a[k].from \in Nat /\ u # 0
      BY <1>0, <2>3
    <3>2. /\ p.start \in Nat /\ p.len \in Nat /\ p.base \in 0..(u - 1) /\ p.base \in 0..N
          /\ p.base = 0 => p.start = 0
      BY <3>1, ObjFacts DEF N, ObjsOk
    <3>3. D[u] = p.start + D[p.base] /\ D[p.base] \in Nat
      <4>1. u \in 0..Len(bobj) /\ u # 0
        BY <1>0, <3>1 DEF N
      <4>2. D[u] = p.start + D[p.base]
        BY <4>1, <1>2 DEF IsStart
      <4>3. QED
        BY <4>2, <3>2, <1>2
    <3>4. CASE p.invalid \/ (p.base # 0 /\ PartRefuses(p, a[k].from, n))
      BY <2>1, <3>4 DEF Up
    <3>5. CASE ~p.invalid /\ p.base = 0
      <4>1. a[k + 1] = a[k]
        BY <2>1, <3>1, <3>5 DEF Up
      <4>2. k = 0 => bobj[o].base = 0
        BY <1>3, <3>5
      <4>3. QED
        BY <2>0, <2>3, <3>5, <4>1, <4>2
    <3>6. CASE ~p.invalid /\ p.base # 0 /\ ~PartRefuses(p, a[k].from, n)
      <4>1. a[k + 1] = [obj |-> p.base, from |-> p.start + a[k].from]
        BY <2>1, <3>1, <3>6 DEF Up
      <4>2. a[k].from + n < p.len
        BY SMTT(30), <3>1, <3>2, <3>6 DEF PartRefuses
      <4>3. k = 0 => b + n < bobj[o].len
        BY <1>3, <4>2
      <4>0. a[k + 1].obj = p.base /\ a[k + 1].from = p.start + a[k].from
        BY <4>1
      <4>9. a[k].from + D[u] = b + D[o] /\ (u <= o - k \/ p.base = 0)
        BY <2>3
      <4> HIDE DEF p, u
      <4>4. a[k + 1].obj \in 1..N /\ a[k + 1].from \in Nat
        BY SMTT(30), <1>0, <3>1, <3>2, <3>6, <4>0
      <4>5. a[k + 1].from + D[a[k + 1].obj] = b + D[o]
        <5>1. D[o] \in Nat
          BY <1>0, <1>2
        <5>2. QED
          BY SMTT(30), <3>1, <3>2, <3>3, <4>0, <4>9, <5>1
      <4>6. a[k + 1].obj <= o - (k + 1)
        <5>1. u <= o - k
          BY <3>6, <4>9
        <5>2. QED
          BY <1>0, <2>0, <3>1, <3>2, <4>0, <5>1
      <4>7. k + 1 > 0 /\ bobj[o].base # 0 => b + n < bobj[o].len
        BY <2>0, <2>3, <4>3
      <4>8. QED
        BY <4>4, <4>5, <4>6, <4>7
    <3>7. QED
      BY <3>4, <3>5, <3>6
  <2>4. QED
    BY <2>2, <2>3
<1>6. On(N) \/ Lost(N)
  <2>1. 0 \in S
    BY <1>0, <1>4
  <2>2. \A k \in 0..N : k \in S /\ k < N => k + 1 \in S
    <3> HIDE DEF On, Lost
    <3>1. \A k \in 0..N : k < N => k + 1 \in 0..N
      BY <1>0
    <3>2. QED
      BY <1>5, <3>1
  <2> HIDE DEF S, On, Lost
  <2>3. \A k \in 0..N : k \in S
    BY <1>0, <2>1, <2>2, UpTo
  <2>4. N \in S
    BY <1>0, <2>3
  <2>5. QED
    BY <2>4 DEF S
<1>7. CASE Lost(N)
  BY <1>1, <1>7 DEF N
<1>8. CASE On(N)
  <2> DEFINE u == a[N].obj
  <2>1. u \in 1..N /\ ~(u <= o - N)
    BY <1>0, <1>8
  <2>2. bobj[u].base = 0 /\ bobj[u].start = 0
    BY <1>8, <2>1, ObjFacts DEF N, ObjsOk
  <2>3. D[u] = 0
    <3>1. D[u] = bobj[u].start + D[bobj[u].base] /\ D[0] = 0
      BY <1>0, <1>2, <2>1 DEF IsStart, N
    <3>2. QED
      BY <2>2, <3>1
  <2>4. a[N].from = b + D[o] /\ a[N].from \in Nat
    BY <1>8, <2>3
  <2>5. bobj[o].base # 0 => b + n < bobj[o].len
    BY <1>0, <1>8
  <2>6. QED
    BY <1>1, <2>4, <2>5 DEF N, D
<1>9. QED
  BY <1>6, <1>7, <1>8

-----------------------------------------------------------------------------
(* The partitions of an object.                                            *)
Based(objs, o) == {p \in DOMAIN objs : objs[p].base = o}

LEMMA BasedType ==
  ASSUME NEW objs \in Seq(ObjType), NEW o
  PROVE  IsFiniteSet(Based(objs, o)) /\ Cardinality(Based(objs, o)) \in Nat
<1>1. Len(objs) \in Nat /\ DOMAIN objs = 1..Len(objs)
  OBVIOUS
<1>2. IsFiniteSet(DOMAIN objs)
  BY <1>1, FS_Interval
<1>3. Based(objs, o) \subseteq DOMAIN objs
  BY DEF Based
<1>4. QED
  BY <1>2, <1>3, FS_Subset, FS_CardinalityType

LEMMA BasedAppend ==
  ASSUME NEW objs \in Seq(ObjType), NEW x \in ObjType, NEW o
  PROVE  Cardinality(Based(Append(objs, x), o))
           = Cardinality(Based(objs, o)) + (IF o = x.base THEN 1 ELSE 0)
<1>1. CASE o = x.base
  <2>1. Based(Append(objs, x), o) = Based(objs, o) \cup {Len(objs) + 1}
    BY <1>1 DEF Based
  <2>2. Len(objs) + 1 \notin Based(objs, o)
    BY DEF Based
  <2>3. Cardinality(Based(objs, o) \cup {Len(objs) + 1}) = Cardinality(Based(objs, o)) + 1
    BY <2>2, BasedType, FS_AddElement
  <2>4. QED
    BY <1>1, <2>1, <2>3
<1>2. CASE o # x.base
  <2>1. Based(Append(objs, x), o) = Based(objs, o)
    BY <1>2 DEF Based
  <2>2. QED
    BY <1>2, <2>1, BasedType
<1>3. QED
  BY <1>1, <1>2

(* BlkRefs, with the counts named.                                         *)
Scanning(scan, o) == IF scan.at = "read" /\ scan.obj = o THEN 1 ELSE 0
Count(objs, fds, leak, scan, o) ==
  Cardinality(Occurs(fds, o)) + Cardinality(Based(objs, o)) + Cardinality(Occurs(leak, o))
  + Scanning(scan, o)
FreedOk(x) == x.freed <=> x.invalid /\ x.ref = 0

LEMMA RefsAre ==
  ASSUME ObjsOk
  PROVE  BlkRefs <=> \A o \in 1..Len(bobj) : /\ bobj[o].ref = Count(bobj, bfd, bleak, bscan, o)
                                             /\ FreedOk(bobj[o])
                                             /\ o \in btree => ~bobj[o].invalid
<1>1. DOMAIN bobj = 1..Len(bobj)
  BY DEF ObjsOk, WellFormed
<1>2. QED
  BY <1>1 DEF BlkRefs, Holders, Count, Occurs, Based, Scanning, FreedOk

LEMMA RefsAreNext ==
  ASSUME ObjsOk'
  PROVE  BlkRefs' <=> \A o \in 1..Len(bobj') : /\ bobj'[o].ref = Count(bobj', bfd', bleak', bscan', o)
                                               /\ FreedOk(bobj'[o])
                                               /\ o \in btree' => ~bobj'[o].invalid
<1>1. DOMAIN bobj' = 1..Len(bobj')
  BY DEF ObjsOk, WellFormed
<1>2. QED
  BY <1>1 DEF BlkRefs, Holders, Count, Occurs, Based, Scanning, FreedOk

LEMMA CountType ==
  ASSUME ObjsOk, HoldersOk, NEW o
  PROVE  /\ Cardinality(Occurs(bfd, o)) \in Nat /\ Cardinality(Based(bobj, o)) \in Nat
         /\ Cardinality(Occurs(bleak, o)) \in Nat /\ Scanning(bscan, o) \in 0..1
<1>1. bobj \in Seq(ObjType) /\ bfd \in Seq(0..Len(bobj)) /\ bleak \in Seq(1..Len(bobj))
  BY DEF ObjsOk, WellFormed, HoldersOk
<1>2. QED
  BY <1>1, OccursType, BasedType DEF Scanning

-----------------------------------------------------------------------------
(* What a change of one object leaves as it was.                           *)
SameShape(objs, more) ==
  /\ Len(more) = Len(objs) /\ DOMAIN more = DOMAIN objs
  /\ \A p \in 1..Len(objs) : /\ more[p].base = objs[p].base /\ more[p].start = objs[p].start
                             /\ more[p].len = objs[p].len
Touches(objs, more, o) ==
  /\ WellFormed(more) /\ SameShape(objs, more)
  /\ \A p \in 1..Len(objs) : p # o => more[p] = objs[p]

LEMMA TouchedIs ==
  ASSUME NEW objs, WellFormed(objs), NEW o \in 1..Len(objs), NEW x \in ObjType,
         x.base = objs[o].base, x.start = objs[o].start, x.len = objs[o].len
  PROVE  Touches(objs, [objs EXCEPT ![o] = x], o) /\ [objs EXCEPT ![o] = x][o] = x
<1> DEFINE more == [objs EXCEPT ![o] = x]
<1>1. objs \in Seq(ObjType) /\ Len(objs) \in Nat /\ DOMAIN objs = 1..Len(objs)
  BY DEF WellFormed
<1>2. more \in Seq(ObjType) /\ Len(more) = Len(objs) /\ DOMAIN more = DOMAIN objs
  BY <1>1
<1>3. more[o] = x /\ \A p \in 1..Len(objs) : p # o => more[p] = objs[p]
  BY <1>1
<1> HIDE DEF more
<1>4. SameShape(objs, more)
  BY <1>2, <1>3 DEF SameShape
<1>5. WellFormed(more)
  BY <1>2, <1>4 DEF WellFormed, SameShape
<1>6. QED
  BY <1>3, <1>4, <1>5 DEF Touches, more

LEMMA SameBased ==
  ASSUME NEW objs, NEW more, WellFormed(objs), SameShape(objs, more), NEW o
  PROVE  Based(more, o) = Based(objs, o)
<1>1. DOMAIN objs = 1..Len(objs)
  BY DEF WellFormed
<1>2. QED
  BY <1>1 DEF Based, SameShape

(* blk_open, blk_close and blk_del of one object.                          *)
LEMMA OpenedIs ==
  ASSUME NEW objs, WellFormed(objs), NEW o \in 1..Len(objs)
  PROVE  /\ Touches(objs, Opened(objs, o), o)
         /\ Opened(objs, o)[o].ref = objs[o].ref + 1
         /\ Opened(objs, o)[o].invalid = objs[o].invalid /\ Opened(objs, o)[o].freed = objs[o].freed
<1> DEFINE x == [objs[o] EXCEPT !.ref = @ + 1]
<1>1. objs[o] \in ObjType /\ objs[o].ref \in Nat
  BY ObjFacts
<1>2. Opened(objs, o) = [objs EXCEPT ![o] = x]
  BY DEF Opened
<1>3. /\ x \in ObjType /\ x.base = objs[o].base /\ x.start = objs[o].start /\ x.len = objs[o].len
      /\ x.ref = objs[o].ref + 1 /\ x.invalid = objs[o].invalid /\ x.freed = objs[o].freed
  BY <1>1 DEF ObjType
<1> HIDE DEF x
<1>4. Touches(objs, [objs EXCEPT ![o] = x], o) /\ [objs EXCEPT ![o] = x][o] = x
  BY <1>3, TouchedIs
<1>5. QED
  BY <1>2, <1>3, <1>4

LEMMA ClosedIs ==
  ASSUME NEW objs, WellFormed(objs), NEW o \in 1..Len(objs), objs[o].ref > 0
  PROVE  /\ Touches(objs, Closed(objs, o), o)
         /\ Closed(objs, o)[o].ref = objs[o].ref - 1
         /\ Closed(objs, o)[o].invalid = objs[o].invalid
         /\ Closed(objs, o)[o].freed <=> objs[o].invalid /\ objs[o].ref = 1
<1> DEFINE f == objs[o].invalid /\ objs[o].ref = 1
           x == [objs[o] EXCEPT !.ref = @ - 1, !.freed = f]
<1>1. objs[o] \in ObjType /\ objs[o].ref - 1 \in Nat
  BY ObjFacts
<1>2. Closed(objs, o) = [objs EXCEPT ![o] = x]
  <2>1. Closed(objs, o) = [[objs EXCEPT ![o].ref = @ - 1] EXCEPT ![o].freed = f]
    BY DEF Closed
  <2>2. DOMAIN objs = 1..Len(objs)
    BY DEF WellFormed
  <2>3. QED
    BY <1>1, <2>1, <2>2 DEF ObjType
<1>3. f \in BOOLEAN
  OBVIOUS
<1>4. /\ x \in ObjType /\ x.base = objs[o].base /\ x.start = objs[o].start /\ x.len = objs[o].len
      /\ x.ref = objs[o].ref - 1 /\ x.invalid = objs[o].invalid /\ x.freed = f
  <2> HIDE DEF f
  <2>1. QED
    BY <1>1, <1>3 DEF ObjType
<1> HIDE DEF x
<1>5. Touches(objs, [objs EXCEPT ![o] = x], o) /\ [objs EXCEPT ![o] = x][o] = x
  BY <1>4, TouchedIs
<1>6. QED
  BY <1>2, <1>4, <1>5

(* A new object, a disk or a partition, which nobody holds.                *)
Adds(objs, more, tree, wood, base) ==
  /\ WellFormed(more) /\ Len(more) = Len(objs) + 1
  /\ \A p \in 1..Len(objs) : more[p] = objs[p]
  /\ more[Len(more)].ref = 0 /\ ~more[Len(more)].invalid /\ ~more[Len(more)].freed
  /\ \A p : Cardinality(Based(more, p)) = Cardinality(Based(objs, p)) + (IF p = base THEN 1 ELSE 0)
  /\ wood \subseteq tree \cup {Len(more)}

LEMMA AddedIs ==
  ASSUME NEW objs, WellFormed(objs), NEW tree, tree \subseteq 1..Len(objs), NEW n \in BNames,
         NEW base \in 0..Len(objs), NEW start \in Nat, NEW len \in Nat, base = 0 => start = 0
  PROVE  Adds(objs, Added(objs, tree, n, base, start, len).objs,
              tree, Added(objs, tree, n, base, start, len).tree, base)
<1> DEFINE more == Added(objs, tree, n, base, start, len).objs
           wood == Added(objs, tree, n, base, start, len).tree
<1> DEFINE x == [name |-> n, base |-> base, start |-> start, len |-> len,
                 ref |-> 0, invalid |-> FALSE, freed |-> FALSE]
<1>1. objs \in Seq(ObjType) /\ Len(objs) \in Nat /\ base \in Nat
  BY DEF WellFormed
<1>2. x \in ObjType
  BY <1>1 DEF ObjType
<1>3. /\ more = Append(objs, x)
      /\ wood = IF \E o \in tree : objs[o].name = n THEN tree ELSE tree \cup {Len(objs) + 1}
  BY DEF Added
<1>4. x.base = base /\ x.start = start /\ x.ref = 0 /\ ~x.invalid /\ ~x.freed
  OBVIOUS
<1> HIDE DEF x, more, wood
<1>5. /\ more \in Seq(ObjType) /\ Len(more) = Len(objs) + 1 /\ more[Len(more)] = x
      /\ \A p \in 1..Len(objs) : more[p] = objs[p]
  BY <1>1, <1>2, <1>3
<1>6. WellFormed(more)
  <2> SUFFICES ASSUME NEW o \in 1..Len(more)
               PROVE  more[o].base \in 0..(o - 1) /\ (more[o].base = 0 => more[o].start = 0)
    BY <1>5 DEF WellFormed
  <2>1. CASE o = Len(objs) + 1
    BY <1>1, <1>4, <1>5, <2>1
  <2>2. CASE o \in 1..Len(objs)
    BY <1>5, <2>2 DEF WellFormed
  <2>3. QED
    BY <1>1, <1>5, <2>1, <2>2
<1>7. \A p : Cardinality(Based(more, p)) = Cardinality(Based(objs, p)) + (IF p = base THEN 1 ELSE 0)
  BY <1>1, <1>2, <1>3, <1>4, BasedAppend
<1>8. Adds(objs, more, tree, wood, base)
  BY <1>3, <1>4, <1>5, <1>6, <1>7 DEF Adds
<1>9. QED
  BY <1>8 DEF more, wood

LEMMA NobodyHolds ==
  ASSUME ObjsOk, HoldersOk
  PROVE  Count(bobj, bfd, bleak, bscan, Len(bobj) + 1) = 0
<1> DEFINE o == Len(bobj) + 1
<1>1. Len(bobj) \in Nat /\ DOMAIN bobj = 1..Len(bobj) /\ o \notin 0..Len(bobj)
  BY DEF ObjsOk, WellFormed
<1>2. Occurs(bfd, o) = {} /\ Occurs(bleak, o) = {}
  BY <1>1 DEF HoldersOk, Occurs
<1>3. Based(bobj, o) = {}
  <2>1. \A p \in 1..Len(bobj) : bobj[p].base \in 0..Len(bobj)
    BY ObjFacts DEF ObjsOk
  <2>2. QED
    BY <1>1, <2>1 DEF Based
<1>4. Scanning(bscan, o) = 0
  BY <1>1 DEF HoldersOk, Scanning
<1>5. Cardinality({}) = 0
  BY FS_EmptySet
<1> HIDE DEF o
<1>6. Count(bobj, bfd, bleak, bscan, o) = 0
  BY <1>2, <1>3, <1>4, <1>5 DEF Count
<1>7. QED
  BY <1>6 DEF o

(* A step that keeps the bounds of the objects keeps what was said about   *)
(* the last read.                                                          *)
LEMMA InsideKept ==
  ASSUME ObjsOk, ObjsOk', IoOk, PartInside, bio' = bio, Len(bobj) <= Len(bobj'),
         \A o \in 1..Len(bobj) : /\ bobj'[o].base = bobj[o].base /\ bobj'[o].start = bobj[o].start
                                 /\ bobj'[o].len = bobj[o].len
  PROVE  IoOk' /\ PartInside'
<1> DEFINE D == DiskStart(bobj)
           E == DiskStart(bobj')
<1>0. Len(bobj) \in Nat /\ Len(bobj') \in Nat
  BY DEF ObjsOk, WellFormed
<1>1. IsStart(D, bobj) /\ IsStart(E, bobj') /\ WellBased(bobj)
  BY BasesOk, DiskStartIs DEF ObjsOk
<1>2. \A o \in 0..Len(bobj) : D[o] = E[o]
  <2> HIDE DEF D, E
  <2>1. QED
    BY <1>0, <1>1, StartsAgree
<1>3. PartInside' <=> (bio.via # 0 /\ bobj'[bio.via].base # 0 =>
                         bio.from >= E[bio.via] /\ bio.from + bio.n <= E[bio.via] + bobj'[bio.via].len)
  BY DEF PartInside
<1>4. bio.via # 0 /\ bobj[bio.via].base # 0 =>
        bio.from >= D[bio.via] /\ bio.from + bio.n <= D[bio.via] + bobj[bio.via].len
  BY DEF PartInside
<1>5. bio.via \in 0..Len(bobj)
  BY DEF IoOk
<1> HIDE DEF D, E
<1>6. PartInside'
  BY <1>0, <1>2, <1>3, <1>4, <1>5
<1>7. IoOk'
  BY <1>0 DEF IoOk
<1>8. QED
  BY <1>6, <1>7

LEMMA TouchStep ==
  ASSUME BlkInv, NEW o \in 1..Len(bobj), Touches(bobj, bobj', o), bio' = bio
  PROVE  /\ ObjsOk' /\ IoOk' /\ PartInside' /\ Len(bobj') = Len(bobj)
         /\ \A p : Based(bobj', p) = Based(bobj, p)
         /\ \A p \in 1..Len(bobj) : p # o => bobj'[p] = bobj[p]
<1>1. ObjsOk' /\ Len(bobj') = Len(bobj) /\ Len(bobj) \in Nat /\ SameShape(bobj, bobj')
  BY DEF Touches, ObjsOk, SameShape, BlkInv, WellFormed
<1>2. IoOk' /\ PartInside'
  BY <1>1, InsideKept DEF BlkInv, SameShape
<1>3. \A p : Based(bobj', p) = Based(bobj, p)
  BY <1>1, SameBased DEF BlkInv, ObjsOk
<1>4. QED
  BY <1>1, <1>2, <1>3 DEF Touches

(* An object in the tree is valid, so it is not freed.                     *)
LEMMA FindIs ==
  ASSUME BlkInv, NEW n, NEW o \in Find(n)
  PROVE  o \in btree /\ o \in 1..Len(bobj) /\ ~bobj[o].invalid /\ ~bobj[o].freed
<1>1. o \in btree /\ o \in 1..Len(bobj)
  BY DEF Find, BlkInv, HoldersOk
<1>2. QED
  BY <1>1, RefsAre DEF BlkInv, FreedOk

LEMMA SeqWider ==
  ASSUME NEW S, NEW T, S \subseteq T, NEW s \in Seq(S)
  PROVE  s \in Seq(T)
OBVIOUS

-----------------------------------------------------------------------------
LEMMA BlkInitInv == BlkInit => BlkInv
<1> SUFFICES ASSUME BlkInit PROVE BlkInv
  OBVIOUS
<1>1. bobj \in Seq(ObjType) /\ Len(bobj) = 0 /\ DOMAIN bobj = 1..0
  BY DEF BlkInit
<1>2. ObjsOk
  BY <1>1 DEF ObjsOk, WellFormed
<1>3. bfd \in Seq(0..Len(bobj)) /\ bleak \in Seq(1..Len(bobj))
  BY DEF BlkInit
<1>4. HoldersOk
  BY <1>3 DEF BlkInit, HoldersOk
<1>5. IoOk /\ PartInside
  BY <1>1 DEF BlkInit, IoOk, PartInside, NoIo
<1>6. BlkRefs
  BY <1>1 DEF BlkRefs
<1>7. QED
  BY <1>2, <1>4, <1>5, <1>6 DEF BlkInv

(* blk_add.                                                                *)
LEMMA BlkAddInv ==
  ASSUME BlkInv, NEW n \in BNames, BlkAdd(n)
  PROVE  BlkInv'
<1> USE DEF BlkInv
<1>0. /\ UNCHANGED <<bfd, bscan, bleak, bio>> /\ btree \subseteq 1..Len(bobj) /\ Len(bobj) \in Nat
  BY DEF BlkAdd, HoldersOk, ObjsOk, WellFormed
<1>1. Adds(bobj, bobj', btree, btree', 0)
  <2>1. bobj' = Added(bobj, btree, n, 0, 0, DiskLen).objs /\ btree' = Added(bobj, btree, n, 0, 0, DiskLen).tree
    BY DEF BlkAdd
  <2>2. 0 \in 0..Len(bobj) /\ 0 \in Nat /\ DiskLen \in Nat /\ WellFormed(bobj)
    BY <1>0, BlkAssumption DEF ObjsOk
  <2>3. Adds(bobj, Added(bobj, btree, n, 0, 0, DiskLen).objs,
             btree, Added(bobj, btree, n, 0, 0, DiskLen).tree, 0)
    BY <1>0, <2>2, AddedIs
  <2>4. QED
    BY <2>1, <2>3
<1> USE DEF Adds
<1>2. ObjsOk'
  BY <1>1 DEF ObjsOk
<1>3. HoldersOk'
  <2>1. 0..Len(bobj) \subseteq 0..Len(bobj') /\ 1..Len(bobj) \subseteq 1..Len(bobj')
    BY <1>0, <1>1
  <2>2. bfd' \in Seq(0..Len(bobj')) /\ bleak' \in Seq(1..Len(bobj'))
    BY <1>0, <2>1, SeqWider DEF HoldersOk
  <2>3. btree' \subseteq 1..Len(bobj')
    <3>1. Len(bobj') \in 1..Len(bobj')
      BY <1>0, <1>1
    <3>2. QED
      BY <1>0, <1>1, <2>1, <3>1
  <2>4. QED
    BY <1>0, <2>1, <2>2, <2>3 DEF HoldersOk
<1>4. IoOk' /\ PartInside'
  BY <1>0, <1>1, <1>2, InsideKept
<1>5. BlkRefs'
  <2> SUFFICES ASSUME NEW o \in 1..Len(bobj')
               PROVE  /\ bobj'[o].ref = Count(bobj', bfd', bleak', bscan', o)
                      /\ FreedOk(bobj'[o])
                      /\ o \in btree' => ~bobj'[o].invalid
    BY <1>2, RefsAreNext
  <2>1. o # 0 /\ Cardinality(Based(bobj', o)) = Cardinality(Based(bobj, o))
    <3>1. Cardinality(Based(bobj, o)) \in Nat
      BY CountType
    <3>2. QED
      BY <1>1, <3>1
  <2>2. Count(bobj', bfd', bleak', bscan', o) = Count(bobj, bfd, bleak, bscan, o)
    BY <1>0, <2>1 DEF Count
  <2>3. CASE o \in 1..Len(bobj)
    <3>1. bobj[o].ref = Count(bobj, bfd, bleak, bscan, o) /\ FreedOk(bobj[o]) /\ (o \in btree => ~bobj[o].invalid)
      BY <2>3, RefsAre
    <3>2. bobj'[o] = bobj[o] /\ (o \in btree' => o \in btree)
      BY <1>0, <1>1, <2>3
    <3>3. QED
      BY <2>2, <3>1, <3>2
  <2>4. CASE o = Len(bobj) + 1
    BY <1>1, <2>2, <2>4, NobodyHolds DEF FreedOk
  <2>5. QED
    BY <1>0, <1>1, <2>3, <2>4
<1>6. QED
  BY <1>2, <1>3, <1>4, <1>5

(* blk_del: an object that is not in use is freed at once.                 *)
LEMMA BlkDelInv ==
  ASSUME BlkInv, NEW n \in BNames, BlkDel(n)
  PROVE  BlkInv'
<1> USE DEF BlkInv
<1>1. PICK o \in Find(n) :
        /\ bobj' = [bobj EXCEPT ![o].invalid = TRUE, ![o].freed = bobj[o].ref = 0]
        /\ btree' = btree \ {o}
        /\ UNCHANGED <<bfd, bscan, bleak, bio>>
  BY DEF BlkDel
<1>2. o \in btree /\ o \in 1..Len(bobj)
  BY FindIs
<1> DEFINE f == bobj[o].ref = 0
           x == [bobj[o] EXCEPT !.invalid = TRUE, !.freed = f]
<1>3. bobj[o] \in ObjType /\ DOMAIN bobj = 1..Len(bobj)
  BY <1>2, ObjFacts DEF ObjsOk, WellFormed
<1>4. bobj' = [bobj EXCEPT ![o] = x]
  <2>1. bobj' = [[bobj EXCEPT ![o].invalid = TRUE] EXCEPT ![o].freed = f]
    BY <1>1
  <2>2. QED
    BY <1>2, <1>3, <2>1 DEF ObjType
<1>5. f \in BOOLEAN
  OBVIOUS
<1>6. /\ x \in ObjType /\ x.base = bobj[o].base /\ x.start = bobj[o].start /\ x.len = bobj[o].len
      /\ x.ref = bobj[o].ref /\ x.invalid = TRUE /\ x.freed = f
  <2> HIDE DEF f
  <2>1. QED
    BY <1>3, <1>5 DEF ObjType
<1> HIDE DEF x
<1>7. Touches(bobj, bobj', o) /\ bobj'[o] = x
  <2>1. WellFormed(bobj)
    BY DEF ObjsOk
  <2>2. Touches(bobj, [bobj EXCEPT ![o] = x], o) /\ [bobj EXCEPT ![o] = x][o] = x
    BY <1>2, <1>6, <2>1, TouchedIs
  <2>3. QED
    BY <1>4, <2>2
<1>8. /\ ObjsOk' /\ IoOk' /\ PartInside' /\ Len(bobj') = Len(bobj)
      /\ \A p : Based(bobj', p) = Based(bobj, p)
      /\ \A p \in 1..Len(bobj) : p # o => bobj'[p] = bobj[p]
  BY <1>1, <1>2, <1>7, TouchStep
<1>9. HoldersOk'
  BY <1>1, <1>8 DEF HoldersOk
<1>10. BlkRefs'
  <2> SUFFICES ASSUME NEW p \in 1..Len(bobj)
               PROVE  /\ bobj'[p].ref = Count(bobj', bfd', bleak', bscan', p)
                      /\ FreedOk(bobj'[p])
                      /\ p \in btree' => ~bobj'[p].invalid
    BY <1>8, RefsAreNext
  <2>1. bobj[p].ref = Count(bobj, bfd, bleak, bscan, p) /\ FreedOk(bobj[p]) /\ (p \in btree => ~bobj[p].invalid)
    BY RefsAre
  <2>2. Count(bobj', bfd', bleak', bscan', p) = Count(bobj, bfd, bleak, bscan, p)
    BY <1>1, <1>8 DEF Count
  <2>3. CASE p = o
    BY <1>1, <1>6, <1>7, <2>1, <2>2, <2>3 DEF FreedOk
  <2>4. CASE p # o
    BY <1>1, <1>8, <2>1, <2>2, <2>4
  <2>5. QED
    BY <2>3, <2>4
<1>11. QED
  BY <1>8, <1>9, <1>10

-----------------------------------------------------------------------------
(* rumpuser_open: the descriptor holds the object, or nobody does.         *)
LEMMA RumpOpenInv ==
  ASSUME BlkInv, NEW n \in BNames, RumpOpen(n)
  PROVE  BlkInv'
<1> USE DEF BlkInv
<1>1. PICK o \in Find(n) :
        /\ IF Len(bfd) < FdMax THEN bobj' = Opened(bobj, o) /\ bfd' = Append(bfd, o)
           ELSE bobj' = Closed(Opened(bobj, o), o) /\ UNCHANGED bfd
        /\ UNCHANGED <<btree, bscan, bleak, bio>>
  BY DEF RumpOpen
<1>2. o \in btree /\ o \in 1..Len(bobj) /\ ~bobj[o].invalid /\ ~bobj[o].freed /\ bobj[o].ref \in Nat
  BY FindIs, ObjFacts DEF ObjsOk
<1> DEFINE m == Opened(bobj, o)
<1>3. /\ Touches(bobj, m, o) /\ m[o].ref = bobj[o].ref + 1
      /\ m[o].invalid = bobj[o].invalid /\ m[o].freed = bobj[o].freed
  BY <1>2, OpenedIs DEF ObjsOk
<1>4. CASE Len(bfd) < FdMax
  <2>1. bobj' = m /\ bfd' = Append(bfd, o) /\ UNCHANGED <<btree, bscan, bleak, bio>>
    BY <1>1, <1>4
  <2> HIDE DEF m
  <2>2. /\ ObjsOk' /\ IoOk' /\ PartInside' /\ Len(bobj') = Len(bobj)
        /\ \A p : Based(bobj', p) = Based(bobj, p)
        /\ \A p \in 1..Len(bobj) : p # o => bobj'[p] = bobj[p]
    BY <1>2, <1>3, <2>1, TouchStep
  <2>3. bfd \in Seq(0..Len(bobj)) /\ o \in 0..Len(bobj)
    BY <1>2 DEF HoldersOk
  <2>4. HoldersOk'
    BY <2>1, <2>2, <2>3 DEF HoldersOk
  <2>5. BlkRefs'
    <3> SUFFICES ASSUME NEW p \in 1..Len(bobj)
                 PROVE  /\ bobj'[p].ref = Count(bobj', bfd', bleak', bscan', p)
                        /\ FreedOk(bobj'[p])
                        /\ p \in btree' => ~bobj'[p].invalid
      BY <2>2, RefsAreNext
    <3>1. bobj[p].ref = Count(bobj, bfd, bleak, bscan, p) /\ FreedOk(bobj[p]) /\ (p \in btree => ~bobj[p].invalid)
      BY RefsAre
    <3>2. Cardinality(Occurs(bfd', p)) = Cardinality(Occurs(bfd, p)) + (IF p = o THEN 1 ELSE 0)
      BY <2>1, <2>3, OccursAppend
    <3>3. Count(bobj', bfd', bleak', bscan', p)
            = Count(bobj, bfd, bleak, bscan, p) + (IF p = o THEN 1 ELSE 0)
      BY <2>1, <2>2, <3>2, CountType DEF Count
    <3>4. CASE p = o
      BY <1>2, <1>3, <2>1, <3>1, <3>3, <3>4 DEF FreedOk
    <3>5. CASE p # o
      BY <2>1, <2>2, <3>1, <3>3, <3>5, CountType DEF Count
    <3>6. QED
      BY <3>4, <3>5
  <2>6. QED
    BY <2>2, <2>4, <2>5
<1>5. CASE ~(Len(bfd) < FdMax)
  <2>1. bobj' = Closed(m, o) /\ UNCHANGED <<btree, bscan, bleak, bio, bfd>>
    BY <1>1, <1>5
  <2> HIDE DEF m
  <2>2. WellFormed(m) /\ Len(m) = Len(bobj) /\ SameShape(bobj, m)
    BY <1>3 DEF Touches, SameShape
  <2>3. /\ Touches(m, bobj', o) /\ bobj'[o].ref = m[o].ref - 1 /\ bobj'[o].invalid = m[o].invalid
        /\ bobj'[o].freed <=> m[o].invalid /\ m[o].ref = 1
    BY <1>2, <1>3, <2>1, <2>2, ClosedIs
  <2>4. Touches(bobj, bobj', o)
    BY <1>3, <2>2, <2>3 DEF Touches, SameShape
  <2>5. /\ ObjsOk' /\ IoOk' /\ PartInside' /\ Len(bobj') = Len(bobj)
        /\ \A p : Based(bobj', p) = Based(bobj, p)
        /\ \A p \in 1..Len(bobj) : p # o => bobj'[p] = bobj[p]
    BY <1>2, <2>1, <2>4, TouchStep
  <2>6. HoldersOk'
    BY <2>1, <2>5 DEF HoldersOk
  <2>7. BlkRefs'
    <3> SUFFICES ASSUME NEW p \in 1..Len(bobj)
                 PROVE  /\ bobj'[p].ref = Count(bobj', bfd', bleak', bscan', p)
                        /\ FreedOk(bobj'[p])
                        /\ p \in btree' => ~bobj'[p].invalid
      BY <2>5, RefsAreNext
    <3>1. bobj[p].ref = Count(bobj, bfd, bleak, bscan, p) /\ FreedOk(bobj[p]) /\ (p \in btree => ~bobj[p].invalid)
      BY RefsAre
    <3>2. Count(bobj', bfd', bleak', bscan', p) = Count(bobj, bfd, bleak, bscan, p)
      BY <2>1, <2>5 DEF Count
    <3>3. CASE p = o
      BY <1>2, <1>3, <2>1, <2>3, <3>1, <3>2, <3>3 DEF FreedOk
    <3>4. CASE p # o
      BY <2>1, <2>5, <3>1, <3>2, <3>4
    <3>5. QED
      BY <3>3, <3>4
  <2>8. QED
    BY <2>5, <2>6, <2>7
<1>6. QED
  BY <1>4, <1>5

(* rumpuser_close.                                                         *)
LEMMA RumpCloseInv ==
  ASSUME BlkInv, NEW fd, RumpClose(fd)
  PROVE  BlkInv'
<1> USE DEF BlkInv
<1> DEFINE o == bfd[fd]
<1>1. /\ fd \in DOMAIN bfd /\ o # 0
      /\ bobj' = Closed(bobj, o) /\ bfd' = [bfd EXCEPT ![fd] = 0]
      /\ UNCHANGED <<btree, bscan, bleak, bio>>
  BY DEF RumpClose
<1>2. bfd \in Seq(0..Len(bobj)) /\ Len(bobj) \in Nat
  BY DEF HoldersOk, ObjsOk, WellFormed
<1>3. o \in 1..Len(bobj) /\ Occurs(bfd, o) # {}
  BY <1>1, <1>2 DEF Occurs
<1>4. /\ \A p \in 1..Len(bobj) : Cardinality(Occurs(bfd', p))
                                   = Cardinality(Occurs(bfd, p)) - (IF p = o THEN 1 ELSE 0)
      /\ Cardinality(Occurs(bfd, o)) > 0
  <2>1. \A p \in 1..Len(bobj) : p # 0
    BY <1>2
  <2>2. \A p \in 1..Len(bobj) :
          /\ Cardinality(Occurs([bfd EXCEPT ![fd] = 0], p))
               = Cardinality(Occurs(bfd, p)) - (IF p = bfd[fd] THEN 1 ELSE 0)
          /\ p = bfd[fd] => Cardinality(Occurs(bfd, p)) > 0
    <3> TAKE p \in 1..Len(bobj)
    <3>1. p # 0 /\ 0 # bfd[fd]
      BY <1>1, <2>1
    <3>2. QED
      BY <1>1, <1>2, <3>1, OccursCleared
  <2>3. QED
    BY <1>1, <1>3, <2>2
<1>5. bobj[o].ref = Count(bobj, bfd, bleak, bscan, o) /\ bobj[o].ref > 0
  <2>1. bobj[o].ref = Count(bobj, bfd, bleak, bscan, o)
    BY <1>3, RefsAre
  <2>2. QED
    BY <2>1, <1>4, CountType DEF Count
<1>6. bfd' \in Seq(0..Len(bobj))
  BY <1>1, <1>2
<1> HIDE DEF o
<1>7. /\ Touches(bobj, bobj', o) /\ bobj'[o].ref = bobj[o].ref - 1
      /\ bobj'[o].invalid = bobj[o].invalid
      /\ bobj'[o].freed <=> bobj[o].invalid /\ bobj[o].ref = 1
  BY <1>1, <1>3, <1>5, ClosedIs DEF ObjsOk
<1>8. /\ ObjsOk' /\ IoOk' /\ PartInside' /\ Len(bobj') = Len(bobj)
      /\ \A p : Based(bobj', p) = Based(bobj, p)
      /\ \A p \in 1..Len(bobj) : p # o => bobj'[p] = bobj[p]
  BY <1>1, <1>3, <1>7, TouchStep
<1>9. HoldersOk'
  BY <1>1, <1>6, <1>8 DEF HoldersOk
<1>10. BlkRefs'
  <2> SUFFICES ASSUME NEW p \in 1..Len(bobj)
               PROVE  /\ bobj'[p].ref = Count(bobj', bfd', bleak', bscan', p)
                      /\ FreedOk(bobj'[p])
                      /\ p \in btree' => ~bobj'[p].invalid
    BY <1>8, RefsAreNext
  <2>1. bobj[p].ref = Count(bobj, bfd, bleak, bscan, p) /\ FreedOk(bobj[p]) /\ (p \in btree => ~bobj[p].invalid)
    BY RefsAre
  <2>2. Count(bobj', bfd', bleak', bscan', p)
          = Count(bobj, bfd, bleak, bscan, p) - (IF p = o THEN 1 ELSE 0)
    <3>1. Cardinality(Occurs(bfd', p)) = Cardinality(Occurs(bfd, p)) - (IF p = o THEN 1 ELSE 0)
      BY <1>4
    <3>2. /\ Cardinality(Occurs(bfd, p)) \in Nat /\ Cardinality(Based(bobj, p)) \in Nat
          /\ Cardinality(Occurs(bleak, p)) \in Nat /\ Scanning(bscan, p) \in 0..1
      BY CountType
    <3>3. Based(bobj', p) = Based(bobj, p) /\ UNCHANGED <<bleak, bscan>>
      BY <1>1, <1>8
    <3> HIDE DEF BlkInv
    <3>4. QED
      BY <3>1, <3>2, <3>3 DEF Count
  <2>3. bobj[p].ref \in Nat
    BY ObjFacts DEF ObjsOk
  <2>4. CASE p = o
    BY <1>1, <1>5, <1>7, <2>1, <2>2, <2>3, <2>4 DEF FreedOk
  <2>5. CASE p # o
    BY <1>1, <1>8, <2>1, <2>2, <2>3, <2>5
  <2>6. QED
    BY <2>4, <2>5
<1>11. QED
  BY <1>8, <1>9, <1>10

(* rumpuser_bio: a read that a partition lets through stays inside it.     *)
LEMMA RumpReadInv ==
  ASSUME BlkInv, NEW fd, NEW b \in Nat, NEW n \in Nat, RumpRead(fd, b, n)
  PROVE  BlkInv'
<1> USE DEF BlkInv
<1> DEFINE o == bfd[fd]
           from == Reaches(o, b, n)
           D == DiskStart(bobj)
<1>1. /\ fd \in DOMAIN bfd /\ o # 0 /\ UNCHANGED <<bobj, btree, bfd, bscan, bleak>>
      /\ bio' = IF from < 0 THEN NoIo ELSE [via |-> o, from |-> from, n |-> n]
  BY DEF RumpRead
<1>2. o \in 1..Len(bobj) /\ Len(bobj) \in Nat
  BY <1>1 DEF HoldersOk, ObjsOk, WellFormed
<1>3. from \in Int /\ (from >= 0 => from = b + D[o] /\ (bobj[o].base # 0 => b + n < bobj[o].len))
  BY <1>2, ReachesDisk
<1>4. D[o] \in Nat /\ bobj[o].len \in Nat
  <2>1. D \in [0..Len(bobj) -> Nat] /\ o \in 0..Len(bobj)
    BY <1>2, BasesOk, DiskStartIs DEF ObjsOk
  <2> HIDE DEF D
  <2>2. QED
    BY <1>2, <2>1, ObjFacts DEF ObjsOk
<1>5. PartInside' <=> (bio'.via # 0 /\ bobj[bio'.via].base # 0 =>
                         bio'.from >= D[bio'.via] /\ bio'.from + bio'.n <= D[bio'.via] + bobj[bio'.via].len)
  BY <1>1 DEF PartInside
<1> HIDE DEF D, from, o
<1>6. IoOk' /\ PartInside'
  <2>1. CASE from < 0
    BY <1>1, <1>2, <1>5, <2>1 DEF NoIo, IoOk
  <2>2. CASE from >= 0
    <3>1. bio'.via = o /\ bio'.from = from /\ bio'.n = n
      BY <1>1, <1>3, <2>2
    <3>2. PartInside'
      BY <1>3, <1>4, <1>5, <2>2, <3>1
    <3>3. IoOk'
      BY <1>1, <1>2, <1>3, <2>2, <3>1 DEF IoOk
    <3>4. QED
      BY <3>2, <3>3
  <2>3. QED
    BY <1>3, <2>1, <2>2
<1>7. ObjsOk' /\ HoldersOk' /\ BlkRefs'
  BY <1>1 DEF ObjsOk, HoldersOk, BlkRefs, Holders
<1>8. QED
  BY <1>6, <1>7

-----------------------------------------------------------------------------
(* The scan opens the next device, and keeps it open if the read fails.    *)
LEMMA NextDevice ==
  ASSUME NEW S, S # {}, NEW k, \A x \in S : k[x] \in Nat
  PROVE  \E x \in S : \A y \in S : k[x] <= k[y]
<1> DEFINE T == {k[x] : x \in S}
<1>1. T \in SUBSET Nat /\ T # {}
  OBVIOUS
<1>2. PICK t \in T : \A u \in T : t <= u
  <2> HIDE DEF T
  <2>1. QED
    BY <1>1, LeastNumber
<1>3. PICK x \in S : t = k[x]
  OBVIOUS
<1>4. QED
  BY <1>2, <1>3

LEMMA ScanOpenInv ==
  ASSUME BlkInv, ScanOpen
  PROVE  BlkInv'
<1> USE DEF BlkInv
<1> DEFINE o == CHOOSE x \in IterNext : \A y \in IterNext : bobj[x].name <= bobj[y].name
           ok == Reaches(o, 0, 1) >= 0
           m == Opened(bobj, o)
<1>1. /\ bscan.at = "iter" /\ IterNext # {} /\ bobj' = m
      /\ bscan' = [at |-> IF ok THEN "read" ELSE "iter", cur |-> bobj[o].name, obj |-> o]
      /\ bleak' = IF ok THEN bleak ELSE Append(bleak, o)
      /\ UNCHANGED <<btree, bfd, bio>>
  BY DEF ScanOpen
<1>2. o \in IterNext
  <2>1. \A x \in IterNext : bobj[x].name \in Nat
    <3>1. \A x \in IterNext : x \in 1..Len(bobj)
      BY DEF IterNext, HoldersOk
    <3>2. \A x \in IterNext : bobj[x].name \in BNames
      BY <3>1, ObjFacts DEF ObjsOk
    <3>3. QED
      BY <3>2, BlkAssumption
  <2> DEFINE k == [x \in IterNext |-> bobj[x].name]
  <2>2. \A x \in IterNext : k[x] \in Nat /\ k[x] = bobj[x].name
    BY <2>1
  <2> HIDE DEF k
  <2>3. \E x \in IterNext : \A y \in IterNext : k[x] <= k[y]
    BY <1>1, <2>2, NextDevice
  <2>4. \E x \in IterNext : \A y \in IterNext : bobj[x].name <= bobj[y].name
    BY <2>2, <2>3
  <2>5. QED
    BY <2>4
<1> HIDE DEF o, ok
<1>3. o \in btree /\ o \in 1..Len(bobj)
  BY <1>2 DEF IterNext, HoldersOk
<1>4. /\ Touches(bobj, m, o) /\ m[o].ref = bobj[o].ref + 1
      /\ m[o].invalid = bobj[o].invalid /\ m[o].freed = bobj[o].freed
  BY <1>3, OpenedIs DEF ObjsOk
<1> HIDE DEF m
<1>5. /\ ObjsOk' /\ IoOk' /\ PartInside' /\ Len(bobj') = Len(bobj)
      /\ \A p : Based(bobj', p) = Based(bobj, p)
      /\ \A p \in 1..Len(bobj) : p # o => bobj'[p] = bobj[p]
  BY <1>1, <1>3, <1>4, TouchStep
<1>6. bleak \in Seq(1..Len(bobj)) /\ bleak' \in Seq(1..Len(bobj))
  <2>1. bleak \in Seq(1..Len(bobj))
    BY DEF HoldersOk
  <2>2. Append(bleak, o) \in Seq(1..Len(bobj))
    BY <1>3, <2>1
  <2>3. QED
    BY <1>1, <2>1, <2>2
<1>7. HoldersOk'
  BY <1>1, <1>3, <1>5, <1>6 DEF HoldersOk
<1>8. BlkRefs'
  <2> SUFFICES ASSUME NEW p \in 1..Len(bobj)
               PROVE  /\ bobj'[p].ref = Count(bobj', bfd', bleak', bscan', p)
                      /\ FreedOk(bobj'[p])
                      /\ p \in btree' => ~bobj'[p].invalid
    BY <1>5, RefsAreNext
  <2>1. /\ bobj[p].ref = Count(bobj, bfd, bleak, bscan, p) /\ FreedOk(bobj[p])
        /\ (p \in btree => ~bobj[p].invalid) /\ bobj[p].ref \in Nat
    BY RefsAre, ObjFacts DEF ObjsOk
  <2>2. Count(bobj', bfd', bleak', bscan', p)
          = Count(bobj, bfd, bleak, bscan, p) + (IF p = o THEN 1 ELSE 0)
    <3>1. /\ Cardinality(Occurs(bfd, p)) \in Nat /\ Cardinality(Based(bobj, p)) \in Nat
          /\ Cardinality(Occurs(bleak, p)) \in Nat
      BY CountType
    <3>2. Based(bobj', p) = Based(bobj, p) /\ bfd' = bfd /\ Scanning(bscan, p) = 0
      BY <1>1, <1>5 DEF Scanning
    <3>3. Cardinality(Occurs(bleak', p)) + Scanning(bscan', p)
            = Cardinality(Occurs(bleak, p)) + (IF p = o THEN 1 ELSE 0)
      <4>1. CASE ok
        BY <1>1, <4>1, <3>1 DEF Scanning
      <4>2. CASE ~ok
        <5>1. Cardinality(Occurs(bleak', p)) = Cardinality(Occurs(bleak, p)) + (IF p = o THEN 1 ELSE 0)
          BY <1>1, <1>3, <1>6, <4>2, OccursAppend
        <5>2. Scanning(bscan', p) = 0
          BY <1>1, <4>2 DEF Scanning
        <5>3. QED
          BY <3>1, <5>1, <5>2
      <4>3. QED
        BY <4>1, <4>2
    <3>4. Cardinality(Occurs(bleak', p)) \in Nat /\ Scanning(bscan', p) \in Nat
      BY <1>6, OccursType DEF Scanning
    <3> HIDE DEF BlkInv
    <3>5. QED
      BY <3>1, <3>2, <3>3, <3>4 DEF Count
  <2>3. CASE p = o
    BY <1>1, <1>3, <1>4, <2>1, <2>2, <2>3 DEF FreedOk
  <2>4. CASE p # o
    BY <1>1, <1>5, <2>1, <2>2, <2>4
  <2>5. QED
    BY <2>3, <2>4
<1>9. QED
  BY <1>5, <1>7, <1>8

LEMMA ScanLeavesInv ==
  ASSUME BlkInv, ScanLeaves
  PROVE  BlkInv'
<1> USE DEF BlkInv
<1> DEFINE o == bscan.obj
<1>1. /\ bscan.at = "read" /\ bscan' = [bscan EXCEPT !.at = "iter"] /\ bleak' = Append(bleak, o)
      /\ UNCHANGED <<bobj, btree, bfd, bio>>
  BY DEF ScanLeaves
<1>2. o \in 1..Len(bobj) /\ bleak \in Seq(1..Len(bobj)) /\ bscan'.at = "iter"
  BY <1>1 DEF HoldersOk
<1>3. HoldersOk'
  BY <1>1, <1>2 DEF HoldersOk
<1>4. ObjsOk' /\ IoOk' /\ PartInside'
  BY <1>1 DEF ObjsOk, IoOk, PartInside
<1>5. BlkRefs'
  <2> SUFFICES ASSUME NEW p \in 1..Len(bobj)
               PROVE  Count(bobj', bfd', bleak', bscan', p) = Count(bobj, bfd, bleak, bscan, p)
    BY <1>1, <1>4, RefsAre, RefsAreNext
  <2>1. /\ Cardinality(Occurs(bfd, p)) \in Nat /\ Cardinality(Based(bobj, p)) \in Nat
        /\ Cardinality(Occurs(bleak, p)) \in Nat
    BY CountType
  <2>2. Cardinality(Occurs(bleak', p)) = Cardinality(Occurs(bleak, p)) + (IF p = o THEN 1 ELSE 0)
    BY <1>1, <1>2, OccursAppend
  <2>3. Scanning(bscan', p) = 0 /\ Scanning(bscan, p) = IF p = o THEN 1 ELSE 0
    BY <1>1, <1>2 DEF Scanning
  <2> HIDE DEF BlkInv, o
  <2>4. QED
    BY <1>1, <2>1, <2>2, <2>3 DEF Count
<1>6. QED
  BY <1>3, <1>4, <1>5

(* A partition holds the disk that it was found on.                        *)
LEMMA ScanPartInv ==
  ASSUME BlkInv, NEW n \in BNames, NEW start \in Nat, NEW len \in Nat, ScanPart(n, start, len)
  PROVE  BlkInv'
<1> USE DEF BlkInv
<1>1. PICK o \in Find(bscan.cur) :
        /\ bobj' = Added(Opened(bobj, o), btree, n, o, start, len).objs
        /\ btree' = Added(Opened(bobj, o), btree, n, o, start, len).tree
  BY DEF ScanPart
<1>2. o \in btree /\ o \in 1..Len(bobj) /\ ~bobj[o].invalid /\ ~bobj[o].freed
  BY FindIs
<1>3. UNCHANGED <<bfd, bscan, bleak, bio>> /\ btree \subseteq 1..Len(bobj) /\ Len(bobj) \in Nat
  BY DEF ScanPart, HoldersOk, ObjsOk, WellFormed
<1> DEFINE m == Opened(bobj, o)
<1>4. /\ Touches(bobj, m, o) /\ m[o].ref = bobj[o].ref + 1
      /\ m[o].invalid = bobj[o].invalid /\ m[o].freed = bobj[o].freed
  BY <1>2, OpenedIs DEF ObjsOk
<1>5. WellFormed(m) /\ Len(m) = Len(bobj) /\ SameShape(bobj, m)
  BY <1>4 DEF Touches, SameShape
<1>6. Adds(m, bobj', btree, btree', o)
  <2>1. bobj' = Added(m, btree, n, o, start, len).objs /\ btree' = Added(m, btree, n, o, start, len).tree
    BY <1>1
  <2> HIDE DEF m
  <2>2. o \in 0..Len(m) /\ (o = 0 => start = 0) /\ btree \subseteq 1..Len(m)
    BY <1>2, <1>3, <1>5
  <2>3. Adds(m, Added(m, btree, n, o, start, len).objs, btree, Added(m, btree, n, o, start, len).tree, o)
    BY <1>5, <2>2, AddedIs
  <2>4. QED
    BY <2>1, <2>3
<1> HIDE DEF m
<1>7. /\ ObjsOk' /\ Len(bobj') = Len(bobj) + 1 /\ btree' \subseteq btree \cup {Len(bobj')}
      /\ \A p \in 1..Len(bobj) : bobj'[p] = m[p]
      /\ bobj'[Len(bobj')].ref = 0 /\ ~bobj'[Len(bobj')].invalid /\ ~bobj'[Len(bobj')].freed
  BY <1>5, <1>6 DEF Adds, ObjsOk
<1>8. HoldersOk'
  <2>1. 0..Len(bobj) \subseteq 0..Len(bobj') /\ 1..Len(bobj) \subseteq 1..Len(bobj') /\ Len(bobj') \in 1..Len(bobj')
    BY <1>3, <1>7
  <2>2. bfd' \in Seq(0..Len(bobj')) /\ bleak' \in Seq(1..Len(bobj'))
    BY <1>3, <2>1, SeqWider DEF HoldersOk
  <2>3. btree' \subseteq 1..Len(bobj')
    BY <1>3, <1>7, <2>1
  <2>4. QED
    BY <1>3, <2>1, <2>2, <2>3 DEF HoldersOk
<1>9. IoOk' /\ PartInside'
  <2>1. Len(bobj) <= Len(bobj')
    BY <1>3, <1>7
  <2>2. \A p \in 1..Len(bobj) : /\ bobj'[p].base = bobj[p].base /\ bobj'[p].start = bobj[p].start
                                /\ bobj'[p].len = bobj[p].len
    BY <1>5, <1>7 DEF SameShape
  <2>3. QED
    BY <1>3, <1>7, <2>1, <2>2, InsideKept
<1>10. BlkRefs'
  <2> SUFFICES ASSUME NEW p \in 1..Len(bobj')
               PROVE  /\ bobj'[p].ref = Count(bobj', bfd', bleak', bscan', p)
                      /\ FreedOk(bobj'[p])
                      /\ p \in btree' => ~bobj'[p].invalid
    BY <1>7, RefsAreNext
  <2>1. Count(bobj', bfd', bleak', bscan', p)
          = Count(bobj, bfd, bleak, bscan, p) + (IF p = o THEN 1 ELSE 0)
    <3>1. /\ Cardinality(Occurs(bfd, p)) \in Nat /\ Cardinality(Based(bobj, p)) \in Nat
          /\ Cardinality(Occurs(bleak, p)) \in Nat /\ Scanning(bscan, p) \in 0..1
      BY CountType
    <3>2. Based(m, p) = Based(bobj, p)
      BY <1>5, SameBased DEF ObjsOk
    <3>3. Cardinality(Based(bobj', p)) = Cardinality(Based(m, p)) + (IF p = o THEN 1 ELSE 0)
      BY <1>6 DEF Adds
    <3>4. UNCHANGED <<bfd, bscan, bleak>>
      BY <1>3
    <3> HIDE DEF BlkInv
    <3>5. QED
      BY <3>1, <3>2, <3>3, <3>4 DEF Count
  <2>2. CASE p \in 1..Len(bobj)
    <3>1. /\ bobj[p].ref = Count(bobj, bfd, bleak, bscan, p) /\ FreedOk(bobj[p])
          /\ (p \in btree => ~bobj[p].invalid) /\ bobj[p].ref \in Nat
      BY <2>2, RefsAre, ObjFacts DEF ObjsOk
    <3>2. bobj'[p] = m[p] /\ (p \in btree' => p \in btree)
      BY <1>3, <1>7, <2>2
    <3>3. CASE p = o
      BY <1>2, <1>4, <2>1, <3>1, <3>2, <3>3 DEF FreedOk
    <3>4. CASE p # o
      <4>1. m[p] = bobj[p]
        BY <1>4, <2>2, <3>4 DEF Touches
      <4>2. QED
        BY <2>1, <3>1, <3>2, <3>4, <4>1
    <3>5. QED
      BY <3>3, <3>4
  <2>3. CASE p = Len(bobj) + 1
    <3>1. p # o /\ Count(bobj, bfd, bleak, bscan, p) = 0
      BY <1>2, <1>3, <2>3, NobodyHolds
    <3>2. QED
      BY <1>7, <2>1, <2>3, <3>1 DEF FreedOk
  <2>4. QED
    BY <1>3, <1>7, <2>2, <2>3
<1>11. QED
  BY <1>7, <1>8, <1>9, <1>10

LEMMA ScanCloseInv ==
  ASSUME BlkInv, ScanClose
  PROVE  BlkInv'
<1> USE DEF BlkInv
<1> DEFINE o == bscan.obj
<1>1. /\ bscan.at = "read" /\ bobj' = Closed(bobj, o) /\ bscan' = [bscan EXCEPT !.at = "iter"]
      /\ UNCHANGED <<btree, bfd, bleak, bio>>
  BY DEF ScanClose
<1>2. o \in 1..Len(bobj) /\ bscan'.at = "iter"
  BY <1>1 DEF HoldersOk
<1>3. \A p : Scanning(bscan, p) = (IF p = o THEN 1 ELSE 0) /\ Scanning(bscan', p) = 0
  BY <1>1, <1>2 DEF Scanning
<1>4. bobj[o].ref = Count(bobj, bfd, bleak, bscan, o) /\ bobj[o].ref > 0
  <2>1. bobj[o].ref = Count(bobj, bfd, bleak, bscan, o)
    BY <1>2, RefsAre
  <2>2. QED
    BY <2>1, <1>3, CountType DEF Count
<1> HIDE DEF o
<1>5. /\ Touches(bobj, bobj', o) /\ bobj'[o].ref = bobj[o].ref - 1
      /\ bobj'[o].invalid = bobj[o].invalid
      /\ bobj'[o].freed <=> bobj[o].invalid /\ bobj[o].ref = 1
  BY <1>1, <1>2, <1>4, ClosedIs DEF ObjsOk
<1>6. /\ ObjsOk' /\ IoOk' /\ PartInside' /\ Len(bobj') = Len(bobj)
      /\ \A p : Based(bobj', p) = Based(bobj, p)
      /\ \A p \in 1..Len(bobj) : p # o => bobj'[p] = bobj[p]
  BY <1>1, <1>2, <1>5, TouchStep
<1>7. HoldersOk'
  BY <1>1, <1>2, <1>6 DEF HoldersOk
<1>8. BlkRefs'
  <2> SUFFICES ASSUME NEW p \in 1..Len(bobj)
               PROVE  /\ bobj'[p].ref = Count(bobj', bfd', bleak', bscan', p)
                      /\ FreedOk(bobj'[p])
                      /\ p \in btree' => ~bobj'[p].invalid
    BY <1>6, RefsAreNext
  <2>1. /\ bobj[p].ref = Count(bobj, bfd, bleak, bscan, p) /\ FreedOk(bobj[p])
        /\ (p \in btree => ~bobj[p].invalid) /\ bobj[p].ref \in Nat
    BY RefsAre, ObjFacts DEF ObjsOk
  <2>2. Count(bobj', bfd', bleak', bscan', p)
          = Count(bobj, bfd, bleak, bscan, p) - (IF p = o THEN 1 ELSE 0)
    <3>1. /\ Cardinality(Occurs(bfd, p)) \in Nat /\ Cardinality(Based(bobj, p)) \in Nat
          /\ Cardinality(Occurs(bleak, p)) \in Nat
      BY CountType
    <3>2. Based(bobj', p) = Based(bobj, p) /\ UNCHANGED <<bfd, bleak>>
      BY <1>1, <1>6
    <3> HIDE DEF BlkInv
    <3>3. QED
      BY <1>3, <3>1, <3>2 DEF Count
  <2>3. CASE p = o
    BY <1>1, <1>4, <1>5, <2>1, <2>2, <2>3 DEF FreedOk
  <2>4. CASE p # o
    BY <1>1, <1>6, <2>1, <2>2, <2>4
  <2>5. QED
    BY <2>3, <2>4
<1>9. QED
  BY <1>6, <1>7, <1>8

-----------------------------------------------------------------------------
LEMMA BlkStep ==
  ASSUME BlkInv, [BlkNext]_blkVars
  PROVE  BlkInv'
<1>0. 0..DiskLen \subseteq Nat /\ 1..DiskLen \subseteq Nat
  BY BlkAssumption
<1>1. ASSUME NEW n \in BNames, BlkAdd(n) \/ BlkDel(n) \/ RumpOpen(n) PROVE BlkInv'
  BY <1>1, BlkAddInv, BlkDelInv, RumpOpenInv
<1>2. ASSUME NEW n \in BNames, NEW s \in 0..DiskLen, NEW l \in 0..DiskLen, ScanPart(n, s, l) PROVE BlkInv'
  <2>1. s \in Nat /\ l \in Nat
    BY <1>0
  <2>2. QED
    BY <1>2, <2>1, ScanPartInv
<1>3. ASSUME NEW fd \in 1..FdMax, RumpClose(fd) PROVE BlkInv'
  BY <1>3, RumpCloseInv
<1>4. ASSUME NEW fd \in 1..FdMax, NEW b \in 0..DiskLen, NEW n \in 1..DiskLen, RumpRead(fd, b, n) PROVE BlkInv'
  <2>1. b \in Nat /\ n \in Nat
    BY <1>0
  <2>2. QED
    BY <1>4, <2>1, RumpReadInv
<1>5. CASE ScanOpen \/ ScanLeaves \/ ScanClose
  BY <1>5, ScanOpenInv, ScanLeavesInv, ScanCloseInv
<1>6. CASE UNCHANGED blkVars
  BY <1>6 DEF blkVars, BlkInv, ObjsOk, HoldersOk, IoOk, BlkRefs, Holders, PartInside
<1>7. QED
  BY <1>1, <1>2, <1>3, <1>4, <1>5, <1>6 DEF BlkNext

(* The references of every block device are its holders, a device is freed *)
(* exactly when it is deleted and the last of them is gone, and a read     *)
(* through partitions, however deep, reaches no block outside of the one   *)
(* it is given to: for any number of devices, descriptors and partitions.  *)
THEOREM BlkSoundCorrect == BlkSpec => []BlkSound
<1>1. BlkInv => BlkSound
  BY DEF BlkInv, BlkSound
<1>2. BlkInit => BlkInv
  BY BlkInitInv
<1>3. BlkInv /\ [BlkNext]_blkVars => BlkInv'
  BY BlkStep
<1>4. QED
  BY <1>1, <1>2, <1>3, PTL DEF BlkSpec

-----------------------------------------------------------------------------
(* Console: the keys, for any number of screens and key presses and for    *)
(* buffers of any size.                                                    *)
(* A sequence is the function of its elements.                             *)
LEMMA AsFunction ==
  ASSUME NEW S, NEW q \in Seq(S), NEW n, Len(q) = n
  PROVE  q = [i \in 1 .. n |-> q[i]]
OBVIOUS

(* The key buffer of a screen is a ring.                                   *)
Keys == Nat \ {0}
Places == 0 .. KbdBufSize - 1
ScreenRec == [active : BOOLEAN, req : BOOLEAN, fpos : Places, wpos : Places, buf : [Places -> Nat]]
Filled(sc) == IF sc.wpos >= sc.fpos THEN sc.wpos - sc.fpos ELSE sc.wpos + KbdBufSize - sc.fpos
After1(p) == IF p + 1 = KbdBufSize THEN 0 ELSE p + 1
At(p, i) == IF p + i - 1 < KbdBufSize THEN p + i - 1 ELSE p + i - 1 - KbdBufSize

(* One turn of the ring at most.                                           *)
LEMMA Modulo ==
  ASSUME NEW n \in Nat \ {0}, NEW x \in Nat, x < 2 * n
  PROVE  x % n = IF x < n THEN x ELSE x - n
<1>1. CASE x < n
  BY <1>1
<1>2. CASE ~(x < n)
  BY <1>2
<1>3. QED
  BY <1>1, <1>2

(* The positions of the ring (kbdbuf_add, kbdfetch).                       *)
LEMMA RingFacts ==
  /\ KbdBufSize \in Nat /\ KbdBufSize >= 2
  /\ \A p \in Places : (p + 1) % KbdBufSize = After1(p) /\ After1(p) \in Places
BY ConsoleAssumption DEF Places, After1

LEMMA RingIs ==
  ASSUME NEW sc \in ScreenRec
  PROVE  /\ RingKeys(sc) = [i \in 1 .. Filled(sc) |-> sc.buf[At(sc.fpos, i)]]
         /\ Filled(sc) \in Nat /\ Filled(sc) < KbdBufSize
         /\ \A i \in 1 .. Filled(sc) : At(sc.fpos, i) \in Places
         /\ Filled(sc) = 0 <=> sc.fpos = sc.wpos
<1> DEFINE f == sc.fpos
           w == sc.wpos
<1>1. KbdBufSize \in Nat \ {0} /\ f \in Nat /\ f < KbdBufSize /\ w \in Nat /\ w < KbdBufSize
  <2>1. f \in Places /\ w \in Places
    BY DEF ScreenRec
  <2> HIDE DEF f, w
  <2>2. QED
    BY <2>1, RingFacts DEF Places
<1> HIDE DEF f, w
<1>2. (w + KbdBufSize - f) % KbdBufSize = IF w >= f THEN w - f ELSE w + KbdBufSize - f
  <2>1. w + KbdBufSize - f \in Nat /\ w + KbdBufSize - f < 2 * KbdBufSize
    BY <1>1
  <2>2. (w + KbdBufSize - f) % KbdBufSize = IF w + KbdBufSize - f < KbdBufSize THEN w + KbdBufSize - f
                                            ELSE (w + KbdBufSize - f) - KbdBufSize
    BY <1>1, <2>1, Modulo
  <2>3. QED
    BY <1>1, <2>2
<1>3. Filled(sc) = IF w >= f THEN w - f ELSE w + KbdBufSize - f
  BY DEF Filled, f, w
<1>4. Filled(sc) \in Nat /\ Filled(sc) < KbdBufSize /\ (Filled(sc) = 0 <=> f = w)
  BY <1>1, <1>3
<1>5. ASSUME NEW i \in 1 .. Filled(sc)
      PROVE  (f + i - 1) % KbdBufSize = At(f, i) /\ At(f, i) \in Places
  <2>1. f + i - 1 \in Nat /\ f + i - 1 < 2 * KbdBufSize
    BY <1>1, <1>4
  <2>2. (f + i - 1) % KbdBufSize = At(f, i)
    <3> DEFINE x == f + i - 1
    <3>1. x \in Nat /\ x < 2 * KbdBufSize
      BY <2>1
    <3>2. At(f, i) = IF x < KbdBufSize THEN x ELSE x - KbdBufSize
      BY <1>1, <1>4 DEF At
    <3> HIDE DEF x
    <3>3. x % KbdBufSize = IF x < KbdBufSize THEN x ELSE x - KbdBufSize
      BY <1>1, <3>1, Modulo
    <3>4. QED
      BY <3>2, <3>3 DEF x
  <2>3. At(f, i) \in Places
    BY <1>1, <2>1 DEF At, Places
  <2>4. QED
    BY <2>2, <2>3
<1>6. RingKeys(sc) = [i \in 1 .. Filled(sc) |-> sc.buf[(f + i - 1) % KbdBufSize]]
  BY <1>2, <1>3 DEF RingKeys, f, w
<1>7. QED
  BY <1>4, <1>5, <1>6 DEF f, w

ScreenOk(sc) ==
  /\ sc \in ScreenRec /\ RingKeys(sc) \in Seq(Keys)
  /\ sc.req => sc.fpos = sc.wpos

LEMMA RingEmpty ==
  ASSUME NEW sc \in ScreenRec, sc.fpos = sc.wpos
  PROVE  RingKeys(sc) = <<>>
<1>1. Filled(sc) = 0
  BY RingIs
<1>2. RingKeys(sc) = [i \in 1 .. 0 |-> sc.buf[At(sc.fpos, i)]]
  BY <1>1, RingIs
<1>3. QED
  BY <1>2

(* kbdbuf_add puts a key behind the others.                                *)
Pushed(sc, key) ==
  [sc EXCEPT !.buf[sc.wpos] = key, !.wpos = (@ + 1) % KbdBufSize, !.req = FALSE]
LEMMA PushOk ==
  ASSUME NEW sc, ScreenOk(sc), ~KbdbufFull(sc), NEW key \in Keys
  PROVE  /\ ScreenOk(Pushed(sc, key)) /\ Pushed(sc, key).req = FALSE
         /\ RingKeys(Pushed(sc, key)) = Append(RingKeys(sc), key)
<1> DEFINE t == Pushed(sc, key)
           n == Filled(sc)
<1>1. sc \in ScreenRec /\ sc.wpos \in Places /\ sc.fpos \in Places /\ sc.buf \in [Places -> Nat]
  BY DEF ScreenOk, ScreenRec
<1>2. t = [active |-> sc.active, req |-> FALSE, fpos |-> sc.fpos, wpos |-> After1(sc.wpos),
           buf |-> [sc.buf EXCEPT ![sc.wpos] = key]]
  <2>1. (sc.wpos + 1) % KbdBufSize = After1(sc.wpos)
    BY <1>1, RingFacts
  <2>2. sc = [active |-> sc.active, req |-> sc.req, fpos |-> sc.fpos, wpos |-> sc.wpos, buf |-> sc.buf]
    BY <1>1 DEF ScreenRec
  <2> DEFINE b == [sc.buf EXCEPT ![sc.wpos] = key]
             w == (sc.wpos + 1) % KbdBufSize
  <2>3. t = [sc EXCEPT !.buf = b, !.wpos = w, !.req = FALSE]
    BY DEF Pushed
  <2> HIDE DEF b, w, t
  <2>4. t = [active |-> sc.active, req |-> FALSE, fpos |-> sc.fpos, wpos |-> w, buf |-> b]
    BY <2>3, <1>1 DEF ScreenRec
  <2>5. QED
    BY <2>1, <2>4 DEF b, w
<1>3. t \in ScreenRec
  BY <1>1, <1>2, RingFacts DEF ScreenRec, Keys
<1>4. /\ t.fpos = sc.fpos /\ t.wpos = After1(sc.wpos) /\ t.req = FALSE
      /\ t.buf = [sc.buf EXCEPT ![sc.wpos] = key]
  BY <1>2
<1> HIDE DEF t, n
<1>5. After1(sc.wpos) # sc.fpos
  BY <1>1, RingFacts DEF KbdbufFull
<1>6. KbdBufSize \in Nat /\ sc.fpos \in Nat /\ sc.wpos \in Nat /\ sc.fpos < KbdBufSize /\ sc.wpos < KbdBufSize
  BY <1>1, RingFacts DEF Places
<1>7. n \in Nat /\ Filled(t) = n + 1 /\ At(sc.fpos, n + 1) = sc.wpos
  BY <1>4, <1>5, <1>6 DEF n, Filled, After1, At
<1>8. ASSUME NEW i \in 1 .. n PROVE At(sc.fpos, i) # sc.wpos
  BY <1>6, <1>8 DEF n, Filled, At
<1>9. RingKeys(sc) = [i \in 1 .. n |-> sc.buf[At(sc.fpos, i)]] /\ \A i \in 1 .. n : At(sc.fpos, i) \in Places
  BY <1>1, RingIs DEF n
<1>10. RingKeys(t) = [i \in 1 .. n + 1 |-> t.buf[At(sc.fpos, i)]]
  BY <1>3, <1>4, <1>7, RingIs
<1>11. RingKeys(sc) \in Seq(Keys) /\ Len(RingKeys(sc)) = n
  BY <1>7, <1>9 DEF ScreenOk
<1>12. RingKeys(t) = Append(RingKeys(sc), key)
  <2>1. \A i \in 1 .. n : t.buf[At(sc.fpos, i)] = RingKeys(sc)[i]
    BY <1>1, <1>4, <1>8, <1>9
  <2>2. t.buf[At(sc.fpos, n + 1)] = key
    BY <1>1, <1>4, <1>7
  <2>3. \A i \in 1 .. n + 1 : t.buf[At(sc.fpos, i)] = IF i = n + 1 THEN key ELSE RingKeys(sc)[i]
    BY <1>7, <2>1, <2>2
  <2>4. Append(RingKeys(sc), key) = [i \in 1 .. n + 1 |-> IF i = n + 1 THEN key ELSE RingKeys(sc)[i]]
    <3>1. /\ Append(RingKeys(sc), key) \in Seq(Keys) /\ Len(Append(RingKeys(sc), key)) = n + 1
          /\ \A i \in 1 .. n : Append(RingKeys(sc), key)[i] = RingKeys(sc)[i]
          /\ Append(RingKeys(sc), key)[n + 1] = key
      BY <1>11, AppendProperties
    <3>2. \A i \in 1 .. n + 1 : Append(RingKeys(sc), key)[i] = IF i = n + 1 THEN key ELSE RingKeys(sc)[i]
      BY <1>7, <3>1
    <3>3. Append(RingKeys(sc), key) = [i \in 1 .. n + 1 |-> Append(RingKeys(sc), key)[i]]
      BY <3>1, AsFunction
    <3>4. QED
      BY <3>2, <3>3
  <2>5. QED
    BY <1>10, <2>3, <2>4
<1>13. RingKeys(t) \in Seq(Keys)
  BY <1>11, <1>12
<1>14. QED
  BY <1>3, <1>4, <1>12, <1>13 DEF ScreenOk, t

(* kbdfetch takes the first key.                                           *)
LEMMA FetchOk ==
  ASSUME NEW sc, ScreenOk(sc), sc.fpos # sc.wpos
  PROVE  /\ ScreenOk(AfterFetch(sc)) /\ AfterFetch(sc).req = FALSE /\ Fetched(sc) \in Keys
         /\ RingKeys(sc) = <<Fetched(sc)>> \o RingKeys(AfterFetch(sc))
<1> DEFINE t == AfterFetch(sc)
           n == Filled(sc)
<1>1. sc \in ScreenRec /\ sc.wpos \in Places /\ sc.fpos \in Places /\ sc.req = FALSE
  BY DEF ScreenOk, ScreenRec
<1>2. t = [active |-> sc.active, req |-> FALSE, fpos |-> After1(sc.fpos), wpos |-> sc.wpos, buf |-> sc.buf]
  BY <1>1, RingFacts DEF AfterFetch, ScreenRec
<1>3. t \in ScreenRec
  BY <1>1, <1>2, RingFacts DEF ScreenRec
<1>4. t.fpos = After1(sc.fpos) /\ t.wpos = sc.wpos /\ t.buf = sc.buf /\ t.req = FALSE
  BY <1>2
<1> HIDE DEF t, n
<1>5. KbdBufSize \in Nat /\ sc.fpos \in Nat /\ sc.wpos \in Nat /\ sc.fpos < KbdBufSize /\ sc.wpos < KbdBufSize
  BY <1>1, RingFacts DEF Places
<1>6. n \in Nat \ {0} /\ Filled(t) = n - 1 /\ At(sc.fpos, 1) = sc.fpos
  BY <1>4, <1>5 DEF n, Filled, After1, At
<1>7. ASSUME NEW i \in 1 .. n - 1 PROVE At(t.fpos, i) = At(sc.fpos, i + 1)
  BY <1>4, <1>5, <1>7 DEF n, Filled, At, After1
<1>8. RingKeys(sc) = [i \in 1 .. n |-> sc.buf[At(sc.fpos, i)]]
  BY <1>1, RingIs DEF n
<1>9. RingKeys(t) = [i \in 1 .. n - 1 |-> sc.buf[At(t.fpos, i)]]
  BY <1>3, <1>4, <1>6, RingIs
<1>10. RingKeys(sc) \in Seq(Keys) /\ Len(RingKeys(sc)) = n
  BY <1>6, <1>8 DEF ScreenOk
<1>11. Fetched(sc) = RingKeys(sc)[1]
  BY <1>6, <1>8 DEF Fetched
<1>12. RingKeys(t) = Tail(RingKeys(sc))
  <2>1. Tail(RingKeys(sc)) = [i \in 1 .. n - 1 |-> RingKeys(sc)[i + 1]]
    <3>1. /\ Tail(RingKeys(sc)) \in Seq(Keys) /\ Len(Tail(RingKeys(sc))) = n - 1
          /\ \A i \in 1 .. n - 1 : Tail(RingKeys(sc))[i] = RingKeys(sc)[i + 1]
      BY <1>6, <1>10, HeadTailProperties
    <3>2. Tail(RingKeys(sc)) = [i \in 1 .. n - 1 |-> Tail(RingKeys(sc))[i]]
      BY <3>1, AsFunction
    <3>3. QED
      BY <3>1, <3>2
  <2>2. \A i \in 1 .. n - 1 : sc.buf[At(t.fpos, i)] = RingKeys(sc)[i + 1]
    BY <1>6, <1>7, <1>8
  <2>3. QED
    BY <1>9, <2>1, <2>2
<1>13. RingKeys(sc) # <<>> /\ Head(RingKeys(sc)) = RingKeys(sc)[1]
  BY <1>6, <1>10
<1>14. /\ RingKeys(sc)[1] \in Keys /\ RingKeys(t) \in Seq(Keys)
       /\ RingKeys(sc) = <<RingKeys(sc)[1]>> \o RingKeys(t)
  BY <1>10, <1>12, <1>13, HeadTailProperties
<1>15. QED
  BY <1>3, <1>4, <1>11, <1>14 DEF ScreenOk, t

(* devsts_kbdata_update gives out the first key, or notes the request.     *)
Updated(sc) == IF Fetched(sc) = 0 THEN [AfterFetch(sc) EXCEPT !.req = TRUE] ELSE AfterFetch(sc)
LEMMA UpdateOk ==
  ASSUME NEW sc, ScreenOk(sc)
  PROVE  /\ ScreenOk(Updated(sc)) /\ Fetched(sc) \in Nat
         /\ Fetched(sc) = 0 => /\ Updated(sc).req = TRUE /\ RingKeys(sc) = <<>>
                               /\ RingKeys(Updated(sc)) = <<>>
         /\ Fetched(sc) # 0 => /\ Updated(sc).req = FALSE /\ Fetched(sc) \in Keys
                               /\ RingKeys(sc) = <<Fetched(sc)>> \o RingKeys(Updated(sc))
<1>1. CASE sc.fpos # sc.wpos
  <2>1. Fetched(sc) # 0 /\ Updated(sc) = AfterFetch(sc)
    BY <1>1, FetchOk DEF Updated, Keys
  <2>2. QED
    BY <1>1, <2>1, FetchOk DEF Keys
<1>2. CASE sc.fpos = sc.wpos
  <2>1. Fetched(sc) = 0 /\ Updated(sc) = [sc EXCEPT !.req = TRUE]
    BY <1>2 DEF Fetched, AfterFetch, Updated
  <2>2. sc \in ScreenRec
    BY DEF ScreenOk
  <2>3. Updated(sc) \in ScreenRec /\ Updated(sc).req = TRUE /\ Updated(sc).fpos = Updated(sc).wpos
    BY <1>2, <2>1, <2>2 DEF ScreenRec
  <2>4. RingKeys(sc) = <<>> /\ RingKeys(Updated(sc)) = <<>>
    BY <1>2, <2>2, <2>3, RingEmpty
  <2>5. QED
    BY <2>1, <2>3, <2>4 DEF ScreenOk
<1>3. QED
  BY <1>1, <1>2

-----------------------------------------------------------------------------
(* A clist with one chunk.                                                 *)
ChunkOk(x) ==
  /\ x \in [read : Nat, written : Nat, buf : Seq(Keys)]
  /\ x.read < x.written /\ x.written = Len(x.buf)
ClistOk(cl) == cl = <<>> \/ \E x : cl = <<x>> /\ ChunkOk(x)

LEMMA NoClistKeys == ClistKeys(<<>>) = <<>>
<1>1. [i \in DOMAIN <<>> |-> SubSeq(<<>>[i].buf, <<>>[i].read + 1, Len(<<>>[i].buf))] = <<>>
  OBVIOUS
<1>2. FlattenSeq(<<>>) = <<>>
  BY DEF FlattenSeq
<1>3. QED
  BY <1>1, <1>2 DEF ClistKeys

LEMMA FlattenOne ==
  ASSUME NEW q
  PROVE  FlattenSeq(<<q>>) = q
<1> DEFINE IsFlat(f) == f = [i \in 1 .. 1 |-> IF i = 1 THEN <<q>>[i] ELSE f[i - 1] \o <<q>>[i]]
           g == [i \in 1 .. 1 |-> q]
<1>1. Len(<<q>>) = 1
  OBVIOUS
<1>2. IsFlat(g)
  <2>1. \A i \in 1 .. 1 : i = 1 /\ <<q>>[i] = q
    OBVIOUS
  <2>2. QED
    BY <2>1
<1>3. FlattenSeq(<<q>>) = (CHOOSE f : IsFlat(f))[1]
  BY <1>1 DEF FlattenSeq
<1>4. IsFlat(CHOOSE f : IsFlat(f))
  BY <1>2
<1> DEFINE h == CHOOSE f : IsFlat(f)
<1>5. h = [i \in 1 .. 1 |-> IF i = 1 THEN <<q>>[i] ELSE h[i - 1] \o <<q>>[i]]
  BY <1>4
<1> HIDE DEF h
<1>6. h[1] = q
  BY <1>5
<1>7. QED
  BY <1>3, <1>6 DEF h

LEMMA OneChunk ==
  ASSUME NEW x
  PROVE  ClistKeys(<<x>>) = SubSeq(x.buf, x.read + 1, Len(x.buf))
<1> DEFINE q == SubSeq(x.buf, x.read + 1, Len(x.buf))
<1>1. [i \in DOMAIN <<x>> |-> SubSeq(<<x>>[i].buf, <<x>>[i].read + 1, Len(<<x>>[i].buf))] = <<q>>
  <2>1. DOMAIN <<x>> = 1 .. 1 /\ \A i \in 1 .. 1 : <<x>>[i] = x
    OBVIOUS
  <2>2. [i \in DOMAIN <<x>> |-> SubSeq(<<x>>[i].buf, <<x>>[i].read + 1, Len(<<x>>[i].buf))] = [i \in 1 .. 1 |-> q]
    BY <2>1
  <2> HIDE DEF q
  <2>3. [i \in 1 .. 1 |-> q] = <<q>>
    OBVIOUS
  <2>4. QED
    BY <2>2, <2>3
<1>2. QED
  BY <1>1, FlattenOne DEF ClistKeys

LEMMA ClistIs ==
  ASSUME NEW cl, ClistOk(cl)
  PROVE  ClistKeys(cl) \in Seq(Keys)
<1>1. CASE cl = <<>>
  BY <1>1, NoClistKeys, EmptySeq
<1>2. ASSUME NEW x, cl = <<x>>, ChunkOk(x) PROVE ClistKeys(cl) \in Seq(Keys)
  <2>1. x.read \in Nat /\ x.buf \in Seq(Keys) /\ x.read < Len(x.buf) /\ Len(x.buf) \in Nat
    BY <1>2 DEF ChunkOk
  <2>2. SubSeq(x.buf, x.read + 1, Len(x.buf)) \in Seq(Keys)
    BY <2>1, SubSeqProperties
  <2>3. QED
    BY <1>2, <2>2, OneChunk
<1>3. QED
  BY <1>1, <1>2 DEF ClistOk

(* _clist_add, unless the chunk overflows.                                 *)
LEMMA AddOk ==
  ASSUME NEW cl, ClistOk(cl), NEW key \in Keys,
         \A i \in DOMAIN ClistAdd(cl, key) : ClistAdd(cl, key)[i].written <= ClistSize
  PROVE  ClistOk(ClistAdd(cl, key)) /\ ClistKeys(ClistAdd(cl, key)) = ClistKeys(cl) \o <<key>>
<1>1. CASE cl = <<>>
  <2> DEFINE y == [read |-> 0, written |-> 1, buf |-> <<key>>]
  <2>1. ClistAdd(cl, key) = <<y>>
    BY <1>1 DEF ClistAdd
  <2>2. ChunkOk(y)
    BY DEF ChunkOk
  <2>3. y.read = 0 /\ y.buf = <<key>> /\ <<key>> \in Seq(Keys)
    OBVIOUS
  <2> HIDE DEF y
  <2>4. ClistKeys(<<y>>) = SubSeq(<<key>>, 1, 1)
    BY <2>3, OneChunk
  <2>5. SubSeq(<<key>>, 1, 1) = <<key>> /\ <<>> \o <<key>> = <<key>>
    <3>1. SubSeq(<<key>>, 1, Len(<<key>>)) = <<key>>
      BY <2>3, SubSeqFull
    <3>2. <<>> \o <<key>> = <<key>>
      BY <2>3, ConcatEmptySeq
    <3>3. Len(<<key>>) = 1
      OBVIOUS
    <3>4. QED
      BY <3>1, <3>2, <3>3
  <2>6. QED
    BY <1>1, <2>1, <2>2, <2>4, <2>5, NoClistKeys DEF ClistOk
<1>2. ASSUME NEW x, cl = <<x>>, ChunkOk(x)
      PROVE  ClistOk(ClistAdd(cl, key)) /\ ClistKeys(ClistAdd(cl, key)) = ClistKeys(cl) \o <<key>>
  <2>0. cl # <<>> /\ Len(cl) = 1 /\ cl[1] = x /\ DOMAIN cl = 1 .. 1
    BY <1>2
  <2>1. /\ x = [read |-> x.read, written |-> x.written, buf |-> x.buf] /\ x.read \in Nat
        /\ x.written \in Nat /\ x.buf \in Seq(Keys) /\ x.read < x.written /\ x.written = Len(x.buf)
    BY <1>2 DEF ChunkOk
  <2>2. ClistSize \in Nat
    BY ConsoleAssumption
  <2>3. ASSUME x.written >= ClistSize PROVE FALSE
    <3> DEFINE a == [cl EXCEPT ![1].written = @ + 1]
               z == [read |-> 0, written |-> 0, buf |-> <<>>]
    <3>1. ClistAdd(cl, key) = Append(a, z)
      BY <2>0, <2>3 DEF ClistAdd
    <3> DEFINE u == [x EXCEPT !.written = @ + 1]
    <3>2. a = <<u>>
      BY <2>0, <1>2
    <3>3. u.written = x.written + 1
      BY <2>1
    <3> HIDE DEF z, a, u
    <3>4. <<u>> \in Seq({u, z}) /\ z \in {u, z} /\ Len(<<u>>) = 1 /\ <<u>>[1] = u
      OBVIOUS
    <3>5. /\ Append(<<u>>, z) \in Seq({u, z}) /\ Len(Append(<<u>>, z)) = Len(<<u>>) + 1
          /\ \A i \in 1 .. Len(<<u>>) : Append(<<u>>, z)[i] = <<u>>[i]
      BY <3>4, AppendProperties
    <3>6. u.written <= ClistSize
      <4>1. Append(<<u>>, z)[1] = u /\ 1 \in DOMAIN Append(<<u>>, z)
        BY <3>4, <3>5
      <4>2. QED
        BY <3>1, <3>2, <4>1
    <3>7. QED
      BY <3>3, <3>6, <2>1, <2>2, <2>3
  <2> DEFINE y == [read |-> x.read, written |-> x.written + 1, buf |-> Append(x.buf, key)]
  <2>4. ClistAdd(cl, key) = <<y>>
    <3>0. cl[Len(cl)] = x /\ ~(cl[Len(cl)].written >= ClistSize)
      BY <2>0, <2>3
    <3>1. ClistAdd(cl, key) = [cl EXCEPT ![Len(cl)] = y]
      BY <2>0, <3>0 DEF ClistAdd
    <3> HIDE DEF y
    <3>2. QED
      BY <1>2, <2>0, <3>1
  <2>5. /\ Append(x.buf, key) \in Seq(Keys) /\ Len(Append(x.buf, key)) = x.written + 1
    BY <2>1, AppendProperties
  <2>6. ChunkOk(y)
    BY <2>1, <2>5 DEF ChunkOk
  <2>7. y.read = x.read /\ y.buf = Append(x.buf, key)
    OBVIOUS
  <2> HIDE DEF y
  <2>8. SubSeq(Append(x.buf, key), x.read + 1, x.written + 1) = SubSeq(x.buf, x.read + 1, x.written) \o <<key>>
    <3> DEFINE B == Append(x.buf, key)
               m == x.read + 1
               n == x.written + 1
    <3>1. B = x.buf \o <<key>> /\ <<key>> \in Seq(Keys) /\ B[n] = key
      BY <2>1, AppendIsConcat, AppendProperties
    <3>2. B \in Seq(Keys) /\ m \in 1 .. Len(B) /\ n \in m .. Len(B) /\ n - 1 = x.written
      BY <2>1, <2>5
    <3>3. m \in 1 .. Len(x.buf) /\ x.written \in 1 .. Len(x.buf)
      BY <2>1
    <3> HIDE DEF B, m, n
    <3>4. SubSeq(B, m, n) = SubSeq(B, m, n - 1) \o <<B[n]>>
      BY <3>2, SubSeqRecursiveSecond
    <3>5. SubSeq(x.buf \o <<key>>, m, x.written) = SubSeq(x.buf, m, x.written)
      BY <2>1, <3>1, <3>3, SubSeqOfConcat1
    <3>6. QED
      BY <3>1, <3>2, <3>4, <3>5 DEF B, m, n
  <2>9. QED
    BY <1>2, <2>1, <2>4, <2>5, <2>6, <2>7, <2>8, OneChunk DEF ClistOk
<1>3. QED
  BY <1>1, <1>2 DEF ClistOk

(* clist_fetch.                                                            *)
LEMMA ClistFetchOk ==
  ASSUME NEW cl, ClistOk(cl), cl # <<>>
  PROVE  LET f == cl[1]
             rest == IF f.read + 1 = f.written THEN Tail(cl) ELSE [cl EXCEPT ![1].read = @ + 1] IN
         /\ ClistOk(rest) /\ f.buf[f.read + 1] \in Keys
         /\ ClistKeys(cl) = <<f.buf[f.read + 1]>> \o ClistKeys(rest)
<1>1. PICK x : cl = <<x>> /\ ChunkOk(x)
  BY DEF ClistOk
<1>2. /\ x = [read |-> x.read, written |-> x.written, buf |-> x.buf] /\ x.read \in Nat
      /\ x.written \in Nat /\ x.buf \in Seq(Keys) /\ x.read < x.written /\ x.written = Len(x.buf)
  BY <1>1 DEF ChunkOk
<1>3. cl[1] = x /\ Tail(cl) = <<>>
  BY <1>1
<1>4. x.buf[x.read + 1] \in Keys
  BY <1>2, ElementOfSeq
<1>5. SubSeq(x.buf, x.read + 1, x.written) = <<x.buf[x.read + 1]>> \o SubSeq(x.buf, x.read + 2, x.written)
  <2>1. x.read + 1 \in 1 .. Len(x.buf) /\ x.written \in x.read + 1 .. Len(x.buf) /\ (x.read + 1) + 1 = x.read + 2
    BY <1>2
  <2>2. SubSeq(x.buf, x.read + 1, x.written) = <<x.buf[x.read + 1]>> \o SubSeq(x.buf, (x.read + 1) + 1, x.written)
    BY <1>2, <2>1, SubSeqRecursiveFirst
  <2>3. QED
    BY <2>1, <2>2
<1>6. CASE x.read + 1 = x.written
  <2>1. SubSeq(x.buf, x.read + 2, x.written) = <<>>
    BY <1>2, <1>6
  <2>2. QED
    BY <1>1, <1>2, <1>3, <1>4, <1>5, <1>6, <2>1, NoClistKeys, OneChunk DEF ClistOk
<1>7. CASE x.read + 1 # x.written
  <2> DEFINE y == [read |-> x.read + 1, written |-> x.written, buf |-> x.buf]
  <2>1. [cl EXCEPT ![1].read = @ + 1] = <<y>>
    <3>1. [x EXCEPT !.read = @ + 1] = y
      BY <1>2
    <3> HIDE DEF y
    <3>2. QED
      BY <1>1, <3>1
  <2>2. ChunkOk(y) /\ y.read = x.read + 1 /\ y.buf = x.buf
    BY <1>2, <1>7 DEF ChunkOk
  <2> HIDE DEF y
  <2>3. ClistKeys(<<y>>) = SubSeq(x.buf, x.read + 2, x.written)
    <3>1. y.read + 1 = x.read + 2
      BY <1>2, <2>2
    <3>2. QED
      BY <1>2, <2>2, <3>1, OneChunk
  <2>4. ClistKeys(cl) = SubSeq(x.buf, x.read + 1, x.written)
    BY <1>1, <1>2, OneChunk
  <2>5. QED
    BY <1>3, <1>4, <1>5, <1>7, <2>1, <2>2, <2>3, <2>4 DEF ClistOk
<1>8. QED
  BY <1>6, <1>7

-----------------------------------------------------------------------------
(* The queue of requests, seen from one screen.                            *)
Reqs == {<<op, s>> : op \in {"out", "open", "close"}, s \in Screens}
          \cup {<<"clone", s, c>> : s \in Screens, c \in Screens}
To(r) == IF r[1] = "clone" THEN r[3] ELSE r[2]
Has(Q, op, s) == \E i \in 1 .. Len(Q) : Q[i] = <<op, s>>
None(Q, s) == \A i \in 1 .. Len(Q) : To(Q[i]) # s
CloseLast(Q, s) == \A i, j \in 1 .. Len(Q) : i < j /\ Q[i] = <<"close", s>> => To(Q[j]) # s
OpenFirst(Q, s) == \A i, j \in 1 .. Len(Q) : i < j /\ Q[j] = <<"open", s>> => To(Q[i]) # s
OutOnce(Q, s) == \A i, j \in 1 .. Len(Q) : i < j => ~(Q[i] = <<"out", s>> /\ Q[j] = <<"out", s>>)
NoClone(Q, s) == \A i \in 1 .. Len(Q) : Q[i][1] = "clone" => Q[i][3] # s
Ops == {"out", "open", "close"}

LEMMA ToIs ==
  /\ \A op \in Ops, s \in Screens : To(<<op, s>>) = s /\ <<op, s>>[1] = op /\ <<op, s>>[1] # "clone" /\ <<op, s>> \in Reqs
  /\ \A s, c \in Screens : /\ To(<<"clone", s, c>>) = c /\ <<"clone", s, c>>[1] = "clone"
                           /\ <<"clone", s, c>> \in Reqs
                           /\ \A op \in Ops, x \in Screens : <<"clone", s, c>> # <<op, x>>
<1>1. \A op \in Ops, s \in Screens : To(<<op, s>>) = s /\ <<op, s>>[1] = op /\ <<op, s>>[1] # "clone" /\ <<op, s>> \in Reqs
  BY DEF To, Ops, Reqs
<1>2. \A s, c \in Screens : /\ To(<<"clone", s, c>>) = c /\ <<"clone", s, c>>[1] = "clone"
                           /\ <<"clone", s, c>> \in Reqs
  BY DEF To, Reqs
<1>3. ASSUME NEW s \in Screens, NEW c \in Screens, NEW op \in Ops, NEW x \in Screens
      PROVE  <<"clone", s, c>> # <<op, x>>
  <2>1. <<op, x>>[1] # <<"clone", s, c>>[1]
    BY <1>1, <1>2
  <2>2. QED
    BY <2>1
<1>4. QED
  BY <1>1, <1>2, <1>3

LEMMA AddReq ==
  ASSUME NEW Q \in Seq(Reqs), NEW r \in Reqs
  PROVE  /\ Append(Q, r) \in Seq(Reqs) /\ Len(Append(Q, r)) = Len(Q) + 1 /\ Len(Q) \in Nat
         /\ \A i \in 1 .. Len(Q) : Append(Q, r)[i] = Q[i]
         /\ Append(Q, r)[Len(Q) + 1] = r
BY AppendProperties

LEMMA TakeReq ==
  ASSUME NEW Q \in Seq(Reqs), Q # <<>>
  PROVE  /\ Tail(Q) \in Seq(Reqs) /\ Len(Tail(Q)) = Len(Q) - 1 /\ Len(Q) \in Nat \ {0}
         /\ \A i \in 1 .. Len(Tail(Q)) : Tail(Q)[i] = Q[i + 1] /\ i + 1 \in 1 .. Len(Q)
         /\ Head(Q) = Q[1] /\ Head(Q) \in Reqs
<1>1. Tail(Q) \in Seq(Reqs) /\ Len(Tail(Q)) = Len(Q) - 1 /\ Head(Q) \in Reqs
      /\ \A i \in 1 .. Len(Tail(Q)) : Tail(Q)[i] = Q[i + 1]
  BY HeadTailProperties
<1>2. Len(Q) \in Nat \ {0} /\ Head(Q) = Q[1]
  OBVIOUS
<1>3. QED
  BY <1>1, <1>2

(* A request for another screen.                                           *)
LEMMA AddOther ==
  ASSUME NEW Q \in Seq(Reqs), NEW r \in Reqs, NEW s \in Screens, To(r) # s
  PROVE  LET A == Append(Q, r) IN
         /\ \A op \in Ops : Has(A, op, s) = Has(Q, op, s)
         /\ None(Q, s) => None(A, s)
         /\ CloseLast(Q, s) => CloseLast(A, s)
         /\ OpenFirst(Q, s) => OpenFirst(A, s)
         /\ OutOnce(Q, s) => OutOnce(A, s)
         /\ NoClone(Q, s) => NoClone(A, s)
<1> DEFINE A == Append(Q, r)
           n == Len(Q)
<1>1. n \in Nat /\ Len(A) = n + 1 /\ A[n + 1] = r /\ \A i \in 1 .. n : A[i] = Q[i]
  BY AddReq
<1>2. \A op \in Ops : r # <<op, s>>
  BY ToIs
<1>3. \A i \in 1 .. n + 1 : (i \in 1 .. n /\ A[i] = Q[i]) \/ (i = n + 1 /\ A[i] = r)
  BY <1>1
<1> HIDE DEF A, n
<1>4. ASSUME NEW op \in Ops PROVE Has(A, op, s) = Has(Q, op, s)
  <2>1. Has(Q, op, s) => Has(A, op, s)
    BY <1>1 DEF Has, n
  <2>2. Has(A, op, s) => Has(Q, op, s)
    BY <1>1, <1>2, <1>3 DEF Has, n
  <2>3. QED
    BY <2>1, <2>2 DEF Has
<1>5. None(Q, s) => None(A, s)
  BY <1>1, <1>3 DEF None, n
<1>6. CloseLast(Q, s) => CloseLast(A, s)
  BY <1>1, <1>2, <1>3 DEF CloseLast, n, Ops
<1>7. OpenFirst(Q, s) => OpenFirst(A, s)
  BY <1>1, <1>2, <1>3 DEF OpenFirst, n, Ops
<1>8. OutOnce(Q, s) => OutOnce(A, s)
  BY <1>1, <1>2, <1>3 DEF OutOnce, n, Ops
<1>9. NoClone(Q, s) => NoClone(A, s)
  BY <1>1, <1>3 DEF NoClone, n, To
<1>10. QED
  BY <1>4, <1>5, <1>6, <1>7, <1>8, <1>9 DEF A

LEMMA TakeOther ==
  ASSUME NEW Q \in Seq(Reqs), Q # <<>>, NEW s \in Screens
  PROVE  /\ \A op \in Ops : Head(Q) # <<op, s>> => Has(Tail(Q), op, s) = Has(Q, op, s)
         /\ None(Q, s) => None(Tail(Q), s)
         /\ CloseLast(Q, s) => CloseLast(Tail(Q), s)
         /\ OpenFirst(Q, s) => OpenFirst(Tail(Q), s)
         /\ OutOnce(Q, s) => OutOnce(Tail(Q), s)
         /\ NoClone(Q, s) => NoClone(Tail(Q), s)
<1> DEFINE A == Tail(Q)
           n == Len(Q)
<1>1. n \in Nat \ {0} /\ Len(A) = n - 1 /\ Head(Q) = Q[1] /\ \A i \in 1 .. n - 1 : A[i] = Q[i + 1] /\ i + 1 \in 1 .. n
  BY TakeReq
<1> HIDE DEF A, n
<1>2. \A i \in 1 .. n : i = 1 \/ (i - 1 \in 1 .. n - 1 /\ A[i - 1] = Q[i])
  BY <1>1
<1>4. ASSUME NEW op \in Ops, Head(Q) # <<op, s>> PROVE Has(A, op, s) = Has(Q, op, s)
  <2>1. Has(A, op, s) => Has(Q, op, s)
    BY <1>1 DEF Has, n
  <2>2. Has(Q, op, s) => Has(A, op, s)
    BY <1>1, <1>2, <1>4 DEF Has, n
  <2>3. QED
    BY <2>1, <2>2 DEF Has
<1>5. None(Q, s) => None(A, s)
  BY <1>1 DEF None, n
<1>6. CloseLast(Q, s) => CloseLast(A, s)
  BY <1>1 DEF CloseLast, n
<1>7. OpenFirst(Q, s) => OpenFirst(A, s)
  BY <1>1 DEF OpenFirst, n
<1>8. OutOnce(Q, s) => OutOnce(A, s)
  BY <1>1 DEF OutOnce, n
<1>9. NoClone(Q, s) => NoClone(A, s)
  BY <1>1 DEF NoClone, n
<1>10. QED
  BY <1>4, <1>5, <1>6, <1>7, <1>8, <1>9 DEF A

(* A request for this one.                                                 *)
LEMMA AddOwn ==
  ASSUME NEW Q \in Seq(Reqs), NEW r \in Reqs, NEW s \in Screens, To(r) = s
  PROVE  LET A == Append(Q, r) IN
         /\ \A op \in Ops : Has(A, op, s) <=> Has(Q, op, s) \/ r = <<op, s>>
         /\ CloseLast(Q, s) /\ ~Has(Q, "close", s) => CloseLast(A, s)
         /\ OpenFirst(Q, s) /\ (r = <<"open", s>> => None(Q, s)) => OpenFirst(A, s)
         /\ OutOnce(Q, s) /\ (r = <<"out", s>> => ~Has(Q, "out", s)) => OutOnce(A, s)
         /\ NoClone(Q, s) /\ r[1] # "clone" => NoClone(A, s)
         /\ None(Q, s) => NoClone(Q, s) /\ OpenFirst(Q, s) /\ OutOnce(Q, s) /\ \A op \in Ops : ~Has(Q, op, s)
<1> DEFINE A == Append(Q, r)
           n == Len(Q)
<1>1. n \in Nat /\ Len(A) = n + 1 /\ A[n + 1] = r /\ \A i \in 1 .. n : A[i] = Q[i]
  BY AddReq
<1>3. \A i \in 1 .. n + 1 : (i \in 1 .. n /\ A[i] = Q[i]) \/ (i = n + 1 /\ A[i] = r)
  BY <1>1
<1> HIDE DEF A, n
<1>4. ASSUME NEW op \in Ops PROVE Has(A, op, s) <=> Has(Q, op, s) \/ r = <<op, s>>
  <2>1. Has(Q, op, s) => Has(A, op, s)
    BY <1>1 DEF Has, n
  <2>2. Has(A, op, s) => Has(Q, op, s) \/ r = <<op, s>>
    BY <1>1, <1>3 DEF Has, n
  <2>3. n + 1 \in 1 .. n + 1
    BY <1>1
  <2>4. r = <<op, s>> => Has(A, op, s)
    BY <1>1, <2>3 DEF Has
  <2>5. QED
    BY <2>1, <2>2, <2>4
<1>6. CloseLast(Q, s) /\ ~Has(Q, "close", s) => CloseLast(A, s)
  BY <1>1, <1>3 DEF CloseLast, n, Has
<1>7. OpenFirst(Q, s) /\ (r = <<"open", s>> => None(Q, s)) => OpenFirst(A, s)
  <2> SUFFICES ASSUME OpenFirst(Q, s), r = <<"open", s>> => None(Q, s),
                      NEW i \in 1 .. n + 1, NEW j \in 1 .. n + 1, i < j, A[j] = <<"open", s>>
               PROVE  To(A[i]) # s
    BY <1>1 DEF OpenFirst
  <2>1. i \in 1 .. n /\ A[i] = Q[i]
    BY <1>1
  <2>2. CASE j = n + 1
    <3>1. None(Q, s)
      BY <1>1, <2>2
    <3>2. QED
      BY <2>1, <3>1 DEF None, n
  <2>3. CASE j \in 1 .. n
    <3>1. Q[j] = <<"open", s>>
      BY <1>1, <2>3
    <3>2. QED
      BY <2>1, <2>3, <3>1 DEF OpenFirst, n
  <2>4. QED
    BY <1>1, <2>2, <2>3
<1>8. OutOnce(Q, s) /\ (r = <<"out", s>> => ~Has(Q, "out", s)) => OutOnce(A, s)
  <2> SUFFICES ASSUME OutOnce(Q, s), r = <<"out", s>> => ~Has(Q, "out", s), NEW i \in 1 .. n + 1,
                      NEW j \in 1 .. n + 1, i < j, A[i] = <<"out", s>>, A[j] = <<"out", s>>
               PROVE  FALSE
    BY <1>1 DEF OutOnce
  <2>1. i \in 1 .. n /\ Q[i] = <<"out", s>>
    BY <1>1
  <2>2. CASE j = n + 1
    <3>1. ~Has(Q, "out", s)
      BY <1>1, <2>2
    <3>2. QED
      BY <2>1, <3>1 DEF Has, n
  <2>3. CASE j \in 1 .. n
    <3>1. Q[j] = <<"out", s>>
      BY <1>1, <2>3
    <3>2. QED
      BY <2>1, <2>3, <3>1 DEF OutOnce, n
  <2>4. QED
    BY <1>1, <2>2, <2>3
<1>9. NoClone(Q, s) /\ r[1] # "clone" => NoClone(A, s)
  BY <1>1, <1>3 DEF NoClone, n
<1>10. ASSUME None(Q, s)
       PROVE  NoClone(Q, s) /\ OpenFirst(Q, s) /\ OutOnce(Q, s) /\ \A op \in Ops : ~Has(Q, op, s)
  <2>1. NoClone(Q, s)
    BY <1>10 DEF None, NoClone, To
  <2>2. ASSUME NEW op \in Ops, Has(Q, op, s) PROVE FALSE
    <3>1. PICK i \in 1 .. Len(Q) : Q[i] = <<op, s>>
      BY <2>2 DEF Has
    <3>2. To(Q[i]) = s
      BY <3>1, ToIs
    <3>3. QED
      BY <1>10, <3>2 DEF None
  <2>3. OpenFirst(Q, s) /\ OutOnce(Q, s)
    BY <2>2 DEF OpenFirst, OutOnce, Has, Ops
  <2>4. QED
    BY <2>1, <2>2, <2>3
<1>11. QED
  BY <1>4, <1>6, <1>7, <1>8, <1>9, <1>10 DEF A

LEMMA TakeOwn ==
  ASSUME NEW Q \in Seq(Reqs), Q # <<>>, NEW s \in Screens, To(Head(Q)) = s
  PROVE  /\ OpenFirst(Q, s) => ~Has(Tail(Q), "open", s)
         /\ OutOnce(Q, s) /\ Head(Q) = <<"out", s>> => ~Has(Tail(Q), "out", s)
         /\ CloseLast(Q, s) /\ Head(Q) = <<"close", s>> => None(Tail(Q), s)
         /\ ~None(Q, s)
         /\ NoClone(Q, s) => Head(Q)[1] # "clone"
         /\ \A op \in Ops : Head(Q) = <<op, s>> => Has(Q, op, s)
<1> DEFINE A == Tail(Q)
           n == Len(Q)
<1>1. n \in Nat \ {0} /\ Len(A) = n - 1 /\ Head(Q) = Q[1] /\ \A i \in 1 .. n - 1 : A[i] = Q[i + 1] /\ i + 1 \in 1 .. n
  BY TakeReq
<1>2. 1 \in 1 .. n /\ \A i \in 1 .. n - 1 : 1 < i + 1
  BY <1>1
<1> HIDE DEF A, n
<1>3. OpenFirst(Q, s) => ~Has(A, "open", s)
  BY <1>1, <1>2 DEF OpenFirst, Has, n
<1>4. OutOnce(Q, s) /\ Head(Q) = <<"out", s>> => ~Has(A, "out", s)
  BY <1>1, <1>2 DEF OutOnce, Has, n
<1>5. CloseLast(Q, s) /\ Head(Q) = <<"close", s>> => None(A, s)
  BY <1>1, <1>2 DEF CloseLast, None, n
<1>6. ~None(Q, s)
  BY <1>1, <1>2 DEF None, n
<1>7. NoClone(Q, s) => Head(Q)[1] # "clone"
  BY <1>1, <1>2 DEF NoClone, n, To
<1>8. \A op \in Ops : Head(Q) = <<op, s>> => Has(Q, op, s)
  BY <1>1, <1>2 DEF Has, n
<1>9. QED
  BY <1>3, <1>4, <1>5, <1>6, <1>7, <1>8 DEF A

-----------------------------------------------------------------------------
(* The invariant, screen by screen.  An open session has its request in    *)
(* one place: queued, noted on the screen, answered by an interrupt that   *)
(* is not delivered, or by one that is.                                    *)
VtOk(p) ==
  /\ p = [pc |-> p.pc, evt |-> p.evt, cevt |-> p.cevt, clist |-> p.clist, rd |-> p.rd, own |-> p.own]
  /\ p.pc \in {"closed", "ask", "wait", "clear"} /\ p.evt \in BOOLEAN /\ p.own \in BOOLEAN
Way(s, R, p, data) == IF s \in R \/ (p.evt /\ p.pc = "wait") THEN <<data>> ELSE <<>>
OneOf(a, b, c, d) == /\ a \/ b \/ c \/ d
                     /\ ~(a /\ b) /\ ~(a /\ c) /\ ~(a /\ d) /\ ~(b /\ c) /\ ~(b /\ d) /\ ~(c /\ d)
Word(a, b, c, d) == a \o b \o c \o d
Put(q, k) == Append(q, k)
OwnQueue(Q, s) == NoClone(Q, s) /\ OpenFirst(Q, s) /\ OutOnce(Q, s)
OwnToken(Q, s, sc, R, p) ==
  /\ p.pc = "ask" => ~Has(Q, "out", s) /\ ~sc.req /\ s \notin R /\ ~p.evt
  /\ p.pc = "wait" => OneOf(Has(Q, "out", s), sc.req, s \in R, p.evt)
  /\ p.pc = "clear" => ~Has(Q, "out", s) /\ ~sc.req /\ s \notin R /\ p.evt
OwnKeys(Q, s, sc, R, p, data, acc, got) ==
  /\ ClistOk(p.clist) /\ got \in Seq(Keys)
  /\ s \in R \/ (p.evt /\ p.pc = "wait") => data \in Keys
  /\ Has(Q, "open", s) => ~sc.req /\ s \notin R /\ ~p.evt /\ p.clist = <<>> /\ got = <<>>
  /\ ~Has(Q, "open", s) => acc = Word(got, ClistKeys(p.clist), Way(s, R, p, data), RingKeys(sc))
SOk(Q, s, sc, R, p, data, acc, got) ==
  /\ ScreenOk(sc) /\ VtOk(p) /\ CloseLast(Q, s)
  /\ p.pc # "closed" => ~Has(Q, "close", s)
  /\ p.pc = "closed" /\ ~Has(Q, "close", s) => None(Q, s) /\ ~sc.req
  /\ p.pc # "closed" /\ p.own =>
       OwnQueue(Q, s) /\ OwnToken(Q, s, sc, R, p) /\ OwnKeys(Q, s, sc, R, p, data, acc, got)

LEMMA WordAssoc == \A x, y, z \in Seq(Keys) : (x \o y) \o z = x \o (y \o z)
BY ConcatAssociative
LEMMA WordLaws ==
  /\ \A x, y, z \in Seq(Keys) : (x \o y) \o z = x \o (y \o z)
  /\ \A x, y \in Seq(Keys) : x \o y \in Seq(Keys)
  /\ \A k \in Keys : <<k>> \in Seq(Keys)
  /\ \A x \in Seq(Keys), k \in Keys : Append(x, k) = x \o <<k>> /\ Append(x, k) \in Seq(Keys)
  /\ \A x \in Seq(Keys) : x \o <<>> = x
<1>1. \A x, y, z \in Seq(Keys) : (x \o y) \o z = x \o (y \o z)
  BY WordAssoc
<1>2. \A x, y \in Seq(Keys) : x \o y \in Seq(Keys)
  BY ConcatProperties
<1>3. \A k \in Keys : <<k>> \in Seq(Keys)
  OBVIOUS
<1>4. \A x \in Seq(Keys), k \in Keys : Append(x, k) = x \o <<k>> /\ Append(x, k) \in Seq(Keys)
  BY AppendIsConcat
<1>5. \A x \in Seq(Keys) : x \o <<>> = x
  BY ConcatEmptySeq
<1>6. QED
  BY <1>1, <1>2, <1>3, <1>4, <1>5

LEMMA PutLast ==
  ASSUME NEW m \in Seq(Keys), NEW d \in Seq(Keys), NEW k \in Keys
  PROVE  Put(m \o d, k) = m \o Put(d, k)
<1>1. <<k>> \in Seq(Keys) /\ m \o d \in Seq(Keys)
  BY WordLaws
<1>2. Append(m \o d, k) = (m \o d) \o <<k>>
  BY <1>1, WordLaws
<1>3. Append(d, k) = d \o <<k>>
  BY WordLaws
<1>4. (m \o d) \o <<k>> = m \o (d \o <<k>>)
  <2> DEFINE e == <<k>>
  <2> HIDE DEF e
  <2>1. e \in Seq(Keys)
    BY <1>1 DEF e
  <2>2. (m \o d) \o e = m \o (d \o e)
    BY <2>1, WordAssoc
  <2>3. QED
    BY <2>2 DEF e
<1>5. QED
  BY <1>2, <1>3, <1>4 DEF Put
LEMMA PushWord ==
  ASSUME NEW a \in Seq(Keys), NEW b \in Seq(Keys), NEW c \in Seq(Keys), NEW d \in Seq(Keys), NEW k \in Keys
  PROVE  Put(Word(a, b, c, d), k) = Word(a, b, c, Put(d, k))
<1> DEFINE m == a \o b \o c
<1>1. m \in Seq(Keys)
  BY WordLaws
<1>2. Word(a, b, c, d) = m \o d /\ Word(a, b, c, Put(d, k)) = m \o Put(d, k)
  BY DEF Word
<1> HIDE DEF m
<1>3. Put(m \o d, k) = m \o Put(d, k)
  BY <1>1, PutLast
<1>4. QED
  BY <1>2, <1>3
LEMMA FetchWord ==
  ASSUME NEW a \in Seq(Keys), NEW b \in Seq(Keys), NEW d \in Seq(Keys), NEW k \in Keys
  PROVE  Word(a, b, <<>>, <<k>> \o d) = Word(a, b, <<k>>, d)
<1>1. a \o b \in Seq(Keys) /\ <<k>> \in Seq(Keys)
  BY WordLaws
<1>2. a \o b \o <<>> = a \o b
  BY <1>1, WordLaws
<1>3. (a \o b) \o (<<k>> \o d) = ((a \o b) \o <<k>>) \o d
  BY <1>1, WordLaws
<1>4. QED
  BY <1>2, <1>3 DEF Word
LEMMA TakeWord ==
  ASSUME NEW a \in Seq(Keys), NEW b \in Seq(Keys), NEW d \in Seq(Keys), NEW k \in Keys
  PROVE  Word(a, b, <<k>>, d) = Word(a, b \o <<k>>, <<>>, d)
<1>1. (a \o b) \o <<k>> = a \o (b \o <<k>>) /\ a \o (b \o <<k>>) \in Seq(Keys)
  BY WordLaws
<1>2. a \o (b \o <<k>>) \o <<>> = a \o (b \o <<k>>)
  BY <1>1, WordLaws
<1>3. QED
  BY <1>1, <1>2 DEF Word
LEMMA ReadWord ==
  ASSUME NEW a \in Seq(Keys), NEW b \in Seq(Keys), NEW c, NEW d, NEW k \in Keys
  PROVE  Word(a, <<k>> \o b, c, d) = Word(Append(a, k), b, c, d)
<1>1. a \o (<<k>> \o b) = (a \o <<k>>) \o b
  <2> DEFINE e == <<k>>
  <2>1. e \in Seq(Keys)
    OBVIOUS
  <2> HIDE DEF e
  <2>2. a \o (e \o b) = (a \o e) \o b
    BY <2>1, WordAssoc
  <2>3. QED
    BY <2>2 DEF e
<1>2. Append(a, k) = a \o <<k>>
  BY WordLaws
<1>3. QED
  BY <1>1, <1>2 DEF Word

(* What does not touch a screen.                                           *)
LEMMA Kept ==
  ASSUME NEW Q, NEW s, NEW sc, NEW R, NEW p, NEW data, NEW acc, NEW got,
         SOk(Q, s, sc, R, p, data, acc, got), NEW R2, s \in R2 <=> s \in R,
         NEW q, VtOk(q), q.pc = p.pc, q.evt = p.evt, q.own = p.own, q.clist = p.clist
  PROVE  SOk(Q, s, sc, R2, q, data, acc, got)
<1>1. OwnToken(Q, s, sc, R, p) => OwnToken(Q, s, sc, R2, q)
  BY DEF OwnToken, OneOf
<1>2. Way(s, R, p, data) = Way(s, R2, q, data)
  BY DEF Way
<1>3. OwnKeys(Q, s, sc, R, p, data, acc, got) => OwnKeys(Q, s, sc, R2, q, data, acc, got)
  BY <1>2 DEF OwnKeys
<1>4. QED
  BY <1>1, <1>3 DEF SOk

LEMMA KeptAdd ==
  ASSUME NEW Q \in Seq(Reqs), NEW s \in Screens, NEW sc, NEW R, NEW p, NEW data, NEW acc, NEW got,
         SOk(Q, s, sc, R, p, data, acc, got), NEW r \in Reqs, To(r) # s
  PROVE  SOk(Append(Q, r), s, sc, R, p, data, acc, got)
<1> DEFINE A == Append(Q, r)
<1>1. /\ Has(A, "out", s) = Has(Q, "out", s) /\ Has(A, "open", s) = Has(Q, "open", s)
      /\ Has(A, "close", s) = Has(Q, "close", s)
      /\ None(Q, s) => None(A, s)
      /\ CloseLast(Q, s) => CloseLast(A, s)
      /\ OwnQueue(Q, s) => OwnQueue(A, s)
  BY AddOther DEF OwnQueue, Ops
<1> HIDE DEF A
<1>2. OwnToken(Q, s, sc, R, p) => OwnToken(A, s, sc, R, p)
  BY <1>1 DEF OwnToken
<1>3. OwnKeys(Q, s, sc, R, p, data, acc, got) => OwnKeys(A, s, sc, R, p, data, acc, got)
  BY <1>1 DEF OwnKeys
<1>4. SOk(A, s, sc, R, p, data, acc, got)
  BY <1>1, <1>2, <1>3 DEF SOk
<1>5. QED
  BY <1>4 DEF A

LEMMA KeptTake ==
  ASSUME NEW Q \in Seq(Reqs), Q # <<>>, NEW s \in Screens, NEW sc, NEW R, NEW p, NEW data, NEW acc, NEW got,
         SOk(Q, s, sc, R, p, data, acc, got), To(Head(Q)) # s
  PROVE  SOk(Tail(Q), s, sc, R, p, data, acc, got)
<1> DEFINE A == Tail(Q)
<1>0. \A op \in Ops : Head(Q) # <<op, s>>
  BY ToIs
<1>1. /\ Has(A, "out", s) = Has(Q, "out", s) /\ Has(A, "open", s) = Has(Q, "open", s)
      /\ Has(A, "close", s) = Has(Q, "close", s)
      /\ None(Q, s) => None(A, s)
      /\ CloseLast(Q, s) => CloseLast(A, s)
      /\ OwnQueue(Q, s) => OwnQueue(A, s)
  BY <1>0, TakeOther DEF OwnQueue, Ops
<1> HIDE DEF A
<1>2. OwnToken(Q, s, sc, R, p) => OwnToken(A, s, sc, R, p)
  BY <1>1 DEF OwnToken
<1>3. OwnKeys(Q, s, sc, R, p, data, acc, got) => OwnKeys(A, s, sc, R, p, data, acc, got)
  BY <1>1 DEF OwnKeys
<1>4. SOk(A, s, sc, R, p, data, acc, got)
  BY <1>1, <1>2, <1>3 DEF SOk
<1>5. QED
  BY <1>4 DEF A

(* kbdbuf_add, for the screen it is for.                                   *)
LEMMA PressOk ==
  ASSUME NEW Q, NEW s, NEW sc, NEW R, NEW p, NEW data, NEW acc, NEW got,
         SOk(Q, s, sc, R, p, data, acc, got), NEW key \in Keys, ~KbdbufFull(sc), ~sc.req
  PROVE  SOk(Q, s, Pushed(sc, key), R, p, data, Append(acc, key), got)
<1> DEFINE t == Pushed(sc, key)
<1>1. ScreenOk(t) /\ t.req = FALSE /\ RingKeys(t) = Append(RingKeys(sc), key)
  BY PushOk DEF SOk
<1>2. RingKeys(sc) \in Seq(Keys)
  BY DEF SOk, ScreenOk
<1> HIDE DEF t
<1>3. OwnToken(Q, s, sc, R, p) => OwnToken(Q, s, t, R, p)
  BY <1>1 DEF OwnToken, OneOf
<1>4. ASSUME OwnKeys(Q, s, sc, R, p, data, acc, got)
      PROVE  OwnKeys(Q, s, t, R, p, data, Append(acc, key), got)
  <2>1. ClistKeys(p.clist) \in Seq(Keys) /\ got \in Seq(Keys) /\ Way(s, R, p, data) \in Seq(Keys)
    BY <1>4, ClistIs DEF OwnKeys, Way
  <2>2. ASSUME ~Has(Q, "open", s)
        PROVE  Append(acc, key) = Word(got, ClistKeys(p.clist), Way(s, R, p, data), RingKeys(t))
    <3>1. acc = Word(got, ClistKeys(p.clist), Way(s, R, p, data), RingKeys(sc))
      BY <1>4, <2>2 DEF OwnKeys
    <3>2. Put(Word(got, ClistKeys(p.clist), Way(s, R, p, data), RingKeys(sc)), key)
             = Word(got, ClistKeys(p.clist), Way(s, R, p, data), Put(RingKeys(sc), key))
      BY <1>2, <2>1, PushWord
    <3>3. Append(acc, key) = Put(acc, key) /\ Put(RingKeys(sc), key) = RingKeys(t)
      BY <1>1 DEF Put
    <3>4. QED
      BY <3>1, <3>2, <3>3
  <2>3. QED
    BY <1>1, <1>4, <2>2 DEF OwnKeys
<1>5. SOk(Q, s, t, R, p, data, Append(acc, key), got)
  BY <1>1, <1>3, <1>4 DEF SOk
<1>6. QED
  BY <1>5 DEF t

(* devsts_kbdata_update: for a request that arrives, and for one that was  *)
(* noted when the key arrives; the answer replaces the request.            *)
LEMMA AnswerOk ==
  ASSUME NEW s, NEW sc, ScreenOk(sc), NEW R, NEW p, VtOk(p), NEW data, NEW acc, NEW got,
         NEW Q, ~Has(Q, "out", s), ~Has(Q, "open", s), OwnQueue(Q, s), ~sc.req,
         s \notin R, ~p.evt, p.pc = "wait", ClistOk(p.clist), got \in Seq(Keys),
         acc = Word(got, ClistKeys(p.clist), <<>>, RingKeys(sc)),
         NEW R2, s \in R2 <=> Fetched(sc) # 0
  PROVE  /\ OwnToken(Q, s, Updated(sc), R2, p)
         /\ OwnKeys(Q, s, Updated(sc), R2, p, Fetched(sc), acc, got)
<1> DEFINE t == Updated(sc)
           k == Fetched(sc)
<1>1. /\ ScreenOk(t) /\ k \in Nat
      /\ k = 0 => t.req = TRUE /\ RingKeys(sc) = <<>> /\ RingKeys(t) = <<>>
      /\ k # 0 => t.req = FALSE /\ k \in Keys /\ RingKeys(sc) = <<k>> \o RingKeys(t)
  BY UpdateOk
<1>2. RingKeys(t) \in Seq(Keys) /\ ClistKeys(p.clist) \in Seq(Keys)
  BY <1>1, ClistIs DEF ScreenOk
<1>3. s \in R2 <=> k # 0
  OBVIOUS
<1> HIDE DEF t, k
<1>4. OwnToken(Q, s, t, R2, p)
  BY <1>1, <1>3 DEF OwnToken, OneOf
<1>5. acc = Word(got, ClistKeys(p.clist), Way(s, R2, p, k), RingKeys(t))
  <2>1. CASE k = 0
    <3>1. Way(s, R2, p, k) = <<>>
      BY <1>3, <2>1 DEF Way
    <3>2. QED
      BY <1>1, <2>1, <3>1
  <2>2. CASE k # 0
    <3>1. Way(s, R2, p, k) = <<k>>
      BY <1>3, <2>2 DEF Way
    <3>2. Word(got, ClistKeys(p.clist), <<>>, <<k>> \o RingKeys(t)) = Word(got, ClistKeys(p.clist), <<k>>, RingKeys(t))
      BY <1>1, <1>2, <2>2, FetchWord
    <3>3. RingKeys(sc) = <<k>> \o RingKeys(t)
      BY <1>1, <2>2
    <3>4. QED
      BY <3>1, <3>2, <3>3
  <2>3. QED
    BY <2>1, <2>2
<1>6. OwnKeys(Q, s, t, R2, p, k, acc, got)
  BY <1>1, <1>3, <1>5 DEF OwnKeys
<1>7. QED
  BY <1>4, <1>6 DEF t, k

LEMMA PressAnswerOk ==
  ASSUME NEW Q, NEW s, NEW sc, NEW R, NEW p, NEW data, NEW acc, NEW got,
         SOk(Q, s, sc, R, p, data, acc, got), NEW key \in Keys, ~KbdbufFull(sc), sc.req,
         NEW R2, s \in R2
  PROVE  LET t == Pushed(sc, key) IN
         /\ SOk(Q, s, Updated(t), R2, p, Fetched(t), Append(acc, key), got)
         /\ Fetched(t) # 0 /\ Fetched(t) \in Nat
<1> DEFINE t == Pushed(sc, key)
           u == Updated(t)
<1>1. ScreenOk(t) /\ t.req = FALSE /\ RingKeys(t) = Append(RingKeys(sc), key)
  BY PushOk DEF SOk
<1>2. RingKeys(sc) = <<>>
  BY RingEmpty DEF SOk, ScreenOk
<1>3. RingKeys(t) = <<key>>
  <2>1. Append(<<>>, key) = <<key>>
    OBVIOUS
  <2>2. QED
    BY <1>1, <1>2, <2>1
<1>4. Fetched(t) # 0 /\ Fetched(t) \in Nat /\ ScreenOk(u) /\ u.req = FALSE
  <2>1. <<key>> # <<>>
    OBVIOUS
  <2> HIDE DEF t
  <2>2. QED
    BY <1>1, <1>3, <2>1, UpdateOk DEF u
<1> HIDE DEF t, u
<1>5. ASSUME p.pc # "closed", p.own
      PROVE  OwnToken(Q, s, u, R2, p) /\ OwnKeys(Q, s, u, R2, p, Fetched(t), Append(acc, key), got)
  <2>1. OwnQueue(Q, s) /\ OwnToken(Q, s, sc, R, p) /\ OwnKeys(Q, s, sc, R, p, data, acc, got) /\ VtOk(p)
    BY <1>5 DEF SOk
  <2>2. p.pc = "wait" /\ ~Has(Q, "out", s) /\ s \notin R /\ ~p.evt
    BY <1>5, <2>1 DEF OwnToken, OneOf, VtOk
  <2>3. ~Has(Q, "open", s) /\ ClistOk(p.clist) /\ got \in Seq(Keys) /\ ClistKeys(p.clist) \in Seq(Keys)
    BY <2>1, ClistIs DEF OwnKeys
  <2>4. Append(acc, key) = Word(got, ClistKeys(p.clist), <<>>, RingKeys(t))
    <3>1. acc = Word(got, ClistKeys(p.clist), <<>>, <<>>)
      BY <1>2, <2>1, <2>2, <2>3 DEF OwnKeys, Way
    <3>2. <<>> \in Seq(Keys) /\ Append(<<>>, key) = <<key>>
      OBVIOUS
    <3>3. Put(Word(got, ClistKeys(p.clist), <<>>, <<>>), key) = Word(got, ClistKeys(p.clist), <<>>, Put(<<>>, key))
      <4> DEFINE e == <<>>
      <4>1. e \in Seq(Keys)
        OBVIOUS
      <4> HIDE DEF e
      <4>2. Put(Word(got, ClistKeys(p.clist), e, e), key) = Word(got, ClistKeys(p.clist), e, Put(e, key))
        BY <2>3, <4>1, PushWord
      <4>3. QED
        BY <4>2 DEF e
    <3>4. Append(acc, key) = Put(acc, key) /\ Put(<<>>, key) = RingKeys(t)
      BY <1>3, <3>2 DEF Put
    <3>5. QED
      BY <3>1, <3>3, <3>4
  <2>5. s \in R2 <=> Fetched(t) # 0
    BY <1>4
  <2>6. QED
    BY <1>1, <2>1, <2>2, <2>3, <2>4, <2>5, AnswerOk DEF u
<1>6. SOk(Q, s, u, R2, p, Fetched(t), Append(acc, key), got)
  <2>1. p.pc = "closed" /\ ~Has(Q, "close", s) => None(Q, s) /\ ~u.req
    BY <1>4 DEF SOk
  <2>2. QED
    BY <1>4, <1>5, <2>1 DEF SOk
<1>7. QED
  BY <1>4, <1>6 DEF t, u

(* __console_io_ast, for the screen of the request.                        *)
LEMMA NewScreenOk ==
  ASSUME NEW sc \in ScreenRec, NEW a \in BOOLEAN
  PROVE  ScreenOk(NewScreen(sc, a)) /\ NewScreen(sc, a).req = FALSE /\ RingKeys(NewScreen(sc, a)) = <<>>
<1> DEFINE t == NewScreen(sc, a)
<1>1. t = [active |-> a, req |-> FALSE, fpos |-> 0, wpos |-> 0, buf |-> sc.buf]
  <2> DEFINE z == 0
             v == FALSE
  <2>1. t = [sc EXCEPT !.active = a, !.req = v, !.fpos = z, !.wpos = z]
    BY DEF NewScreen
  <2>2. sc = [active |-> sc.active, req |-> sc.req, fpos |-> sc.fpos, wpos |-> sc.wpos, buf |-> sc.buf]
    BY DEF ScreenRec
  <2> HIDE DEF z, v, t
  <2>3. t = [active |-> a, req |-> v, fpos |-> z, wpos |-> z, buf |-> sc.buf]
    BY <2>1, <2>2
  <2>4. QED
    BY <2>3 DEF z, v
<1>2. 0 \in Places /\ sc.buf \in [Places -> Nat]
  BY RingFacts DEF Places, ScreenRec
<1>3. t \in ScreenRec /\ t.req = FALSE /\ t.fpos = t.wpos
  BY <1>1, <1>2 DEF ScreenRec
<1> HIDE DEF t
<1>4. RingKeys(t) = <<>>
  BY <1>3, RingEmpty
<1>5. ScreenOk(t)
  <2>1. <<>> \in Seq(Keys)
    OBVIOUS
  <2>2. QED
    BY <1>3, <1>4, <2>1 DEF ScreenOk
<1>6. QED
  BY <1>3, <1>4, <1>5 DEF t

LEMMA OutOk ==
  ASSUME NEW Q \in Seq(Reqs), Q # <<>>, NEW s \in Screens, NEW sc, NEW R, NEW p, NEW data, NEW acc, NEW got,
         SOk(Q, s, sc, R, p, data, acc, got), Head(Q) = <<"out", s>>,
         NEW R2, s \in R2 <=> s \in R \/ Fetched(sc) # 0
  PROVE  SOk(Tail(Q), s, Updated(sc), R2, p, Fetched(sc), acc, got)
<1> DEFINE A == Tail(Q)
           u == Updated(sc)
<1>1. To(Head(Q)) = s /\ Head(Q) # <<"open", s>> /\ Head(Q) # <<"close", s>>
  BY ToIs DEF Ops
<1>2. /\ Has(A, "open", s) = Has(Q, "open", s) /\ Has(A, "close", s) = Has(Q, "close", s)
      /\ CloseLast(Q, s) => CloseLast(A, s)
      /\ OwnQueue(Q, s) => OwnQueue(A, s) /\ ~Has(A, "open", s) /\ ~Has(A, "out", s)
      /\ ~None(Q, s) /\ Has(Q, "out", s)
  BY <1>1, TakeOther, TakeOwn DEF OwnQueue, Ops
<1>3. ScreenOk(u)
  BY UpdateOk DEF SOk
<1> HIDE DEF A, u
<1>4. ASSUME p.pc # "closed", p.own
      PROVE  OwnQueue(A, s) /\ OwnToken(A, s, u, R2, p) /\ OwnKeys(A, s, u, R2, p, Fetched(sc), acc, got)
  <2>1. OwnQueue(Q, s) /\ OwnToken(Q, s, sc, R, p) /\ OwnKeys(Q, s, sc, R, p, data, acc, got) /\ VtOk(p) /\ ScreenOk(sc)
    BY <1>4 DEF SOk
  <2>2. p.pc = "wait" /\ ~sc.req /\ s \notin R /\ ~p.evt
    BY <1>2, <1>4, <2>1 DEF OwnToken, OneOf, VtOk
  <2>3. OwnQueue(A, s) /\ ~Has(A, "open", s) /\ ~Has(A, "out", s) /\ ~Has(Q, "open", s)
    BY <1>2, <2>1
  <2>4. ClistOk(p.clist) /\ got \in Seq(Keys) /\ acc = Word(got, ClistKeys(p.clist), Way(s, R, p, data), RingKeys(sc))
    BY <2>1, <2>3 DEF OwnKeys
  <2>5. Way(s, R, p, data) = <<>>
    BY <2>2 DEF Way
  <2>6. s \in R2 <=> Fetched(sc) # 0
    BY <2>2
  <2>7. OwnToken(A, s, u, R2, p) /\ OwnKeys(A, s, u, R2, p, Fetched(sc), acc, got)
    BY <2>2, <2>3, <2>4, <2>5, <2>6, <2>1, AnswerOk DEF u
  <2>8. QED
    BY <2>3, <2>7
<1>5. SOk(A, s, u, R2, p, Fetched(sc), acc, got)
  BY <1>2, <1>3, <1>4 DEF SOk
<1>6. QED
  BY <1>5 DEF A, u

LEMMA OpenOk ==
  ASSUME NEW Q \in Seq(Reqs), Q # <<>>, NEW s \in Screens, NEW sc, NEW R, NEW p, NEW data, NEW acc, NEW got,
         SOk(Q, s, sc, R, p, data, acc, got), Head(Q) = <<"open", s>>
  PROVE  SOk(Tail(Q), s, NewScreen(sc, TRUE), R, p, data, <<>>, got)
<1> DEFINE A == Tail(Q)
           u == NewScreen(sc, TRUE)
<1>1. To(Head(Q)) = s /\ Head(Q) # <<"out", s>> /\ Head(Q) # <<"close", s>>
  BY ToIs DEF Ops
<1>2. /\ Has(A, "out", s) = Has(Q, "out", s) /\ Has(A, "close", s) = Has(Q, "close", s)
      /\ CloseLast(Q, s) => CloseLast(A, s)
      /\ OwnQueue(Q, s) => OwnQueue(A, s) /\ ~Has(A, "open", s)
      /\ ~None(Q, s) /\ Has(Q, "open", s)
  BY <1>1, TakeOther, TakeOwn DEF OwnQueue, Ops
<1>3. ScreenOk(u) /\ u.req = FALSE /\ RingKeys(u) = <<>>
  BY NewScreenOk DEF SOk, ScreenOk
<1> HIDE DEF A, u
<1>4. ASSUME p.pc # "closed", p.own
      PROVE  OwnQueue(A, s) /\ OwnToken(A, s, u, R, p) /\ OwnKeys(A, s, u, R, p, data, <<>>, got)
  <2>1. OwnQueue(Q, s) /\ OwnToken(Q, s, sc, R, p) /\ OwnKeys(Q, s, sc, R, p, data, acc, got)
    BY <1>4 DEF SOk
  <2>2. OwnQueue(A, s) /\ ~Has(A, "open", s)
    BY <1>2, <2>1
  <2>3. ~sc.req /\ s \notin R /\ ~p.evt /\ p.clist = <<>> /\ got = <<>>
    BY <1>2, <2>1 DEF OwnKeys
  <2>4. OwnToken(A, s, u, R, p)
    BY <1>2, <1>3, <2>1, <2>3 DEF OwnToken, OneOf
  <2>5. Way(s, R, p, data) = <<>> /\ ClistKeys(p.clist) = <<>>
    BY <2>3, NoClistKeys DEF Way
  <2>6. Word(<<>>, <<>>, <<>>, <<>>) = <<>>
    BY DEF Word
  <2>7. <<>> = Word(got, ClistKeys(p.clist), Way(s, R, p, data), RingKeys(u))
    BY <1>3, <2>3, <2>5, <2>6
  <2>8. OwnKeys(A, s, u, R, p, data, <<>>, got)
    BY <1>3, <2>1, <2>2, <2>7 DEF OwnKeys
  <2>9. QED
    BY <2>2, <2>4, <2>8
<1>5. SOk(A, s, u, R, p, data, <<>>, got)
  BY <1>2, <1>3, <1>4 DEF SOk
<1>6. QED
  BY <1>5 DEF A, u

LEMMA CloseOk ==
  ASSUME NEW Q \in Seq(Reqs), Q # <<>>, NEW s \in Screens, NEW sc, NEW R, NEW p, NEW data, NEW acc, NEW got,
         SOk(Q, s, sc, R, p, data, acc, got), Head(Q) = <<"close", s>>
  PROVE  SOk(Tail(Q), s, NewScreen(sc, FALSE), R, p, data, acc, got)
<1> DEFINE A == Tail(Q)
           u == NewScreen(sc, FALSE)
<1>1. To(Head(Q)) = s
  BY ToIs DEF Ops
<1>2. /\ CloseLast(Q, s) => CloseLast(A, s) /\ None(A, s)
      /\ Has(Q, "close", s)
  BY <1>1, TakeOther, TakeOwn DEF Ops
<1>3. ScreenOk(u) /\ u.req = FALSE
  BY NewScreenOk DEF SOk, ScreenOk
<1> HIDE DEF A, u
<1>4. p.pc = "closed" /\ CloseLast(A, s) /\ None(A, s) /\ VtOk(p)
  BY <1>2 DEF SOk
<1>5. SOk(A, s, u, R, p, data, acc, got)
  BY <1>3, <1>4 DEF SOk
<1>6. QED
  BY <1>5 DEF A, u

LEMMA CloneOk ==
  ASSUME NEW Q \in Seq(Reqs), Q # <<>>, NEW s \in Screens, NEW c \in Screens, NEW sc, NEW R, NEW p, NEW data,
         NEW acc, NEW got, SOk(Q, c, sc, R, p, data, acc, got), Head(Q) = <<"clone", s, c>>,
         NEW u, ScreenOk(u), NEW acc2
  PROVE  SOk(Tail(Q), c, u, R, p, data, acc2, got)
<1> DEFINE A == Tail(Q)
<1>1. To(Head(Q)) = c /\ Head(Q)[1] = "clone" /\ Head(Q) # <<"close", c>>
  <2>1. "close" \in Ops
    BY DEF Ops
  <2>2. QED
    BY <2>1, ToIs
<1>2. /\ Has(A, "close", c) = Has(Q, "close", c) /\ (CloseLast(Q, c) => CloseLast(A, c))
      /\ ~None(Q, c) /\ ~OwnQueue(Q, c)
  BY <1>1, TakeOther, TakeOwn DEF OwnQueue, Ops
<1> HIDE DEF A
<1>3. SOk(A, c, u, R, p, data, acc2, got)
  BY <1>2 DEF SOk
<1>4. QED
  BY <1>3 DEF A

(* The steps of a process, for its own screen.                             *)
LEMMA NewVtOk ==
  ASSUME NEW pc \in {"closed", "ask"}
  PROVE  /\ VtOk(NewVt(pc)) /\ NewVt(pc).pc = pc /\ NewVt(pc).evt = FALSE /\ NewVt(pc).clist = <<>>
         /\ NewVt(pc).own = TRUE
BY DEF VtOk, NewVt

LEMMA InitOk ==
  ASSUME NEW Q \in Seq(Reqs), NEW s \in Screens, NEW sc, NEW R, NEW p, NEW data, NEW acc, NEW got,
         SOk(Q, s, sc, R, p, data, acc, got), p.pc = "closed", ~Has(Q, "close", s), NEW R2, s \notin R2
  PROVE  SOk(Append(Q, <<"open", s>>), s, sc, R2, NewVt("ask"), data, acc, <<>>)
<1> DEFINE A == Append(Q, <<"open", s>>)
           q == NewVt("ask")
           r == <<"open", s>>
<1>1. To(r) = s /\ r \in Reqs /\ r[1] # "clone" /\ r # <<"out", s>> /\ r # <<"close", s>>
  BY ToIs DEF Ops
<1>2. None(Q, s) /\ ~sc.req /\ CloseLast(Q, s) /\ ScreenOk(sc)
  BY DEF SOk
<1>3. CloseLast(A, s) /\ OwnQueue(A, s) /\ ~Has(A, "out", s) /\ ~Has(A, "close", s) /\ Has(A, "open", s)
  <2> HIDE DEF r
  <2>1. NoClone(Q, s) /\ OpenFirst(Q, s) /\ OutOnce(Q, s) /\ \A op \in Ops : ~Has(Q, op, s)
    BY <1>1, <1>2, AddOwn
  <2>2. /\ \A op \in Ops : Has(Append(Q, r), op, s) <=> Has(Q, op, s) \/ r = <<op, s>>
        /\ CloseLast(Append(Q, r), s) /\ OpenFirst(Append(Q, r), s)
        /\ OutOnce(Append(Q, r), s) /\ NoClone(Append(Q, r), s)
    BY <1>1, <1>2, <2>1, AddOwn
  <2>3. QED
    BY <1>1, <2>1, <2>2 DEF OwnQueue, Ops, A, r
<1>4. VtOk(q) /\ q.pc = "ask" /\ q.evt = FALSE /\ q.clist = <<>> /\ q.own = TRUE
  BY NewVtOk
<1> HIDE DEF A, q
<1>5. OwnToken(A, s, sc, R2, q)
  BY <1>2, <1>3, <1>4 DEF OwnToken
<1>6. OwnKeys(A, s, sc, R2, q, data, acc, <<>>)
  <2>1. <<>> \in Seq(Keys)
    OBVIOUS
  <2>2. QED
    BY <1>2, <1>3, <1>4, <2>1 DEF OwnKeys, ClistOk
<1>7. SOk(A, s, sc, R2, q, data, acc, <<>>)
  BY <1>2, <1>3, <1>4, <1>5, <1>6 DEF SOk
<1>8. QED
  BY <1>7 DEF A, q

LEMMA ExitOk ==
  ASSUME NEW Q \in Seq(Reqs), NEW s \in Screens, NEW sc, NEW R, NEW p, NEW data, NEW acc, NEW got,
         SOk(Q, s, sc, R, p, data, acc, got), p.pc # "closed", NEW R2
  PROVE  SOk(Append(Q, <<"close", s>>), s, sc, R2, NewVt("closed"), data, acc, got)
<1> DEFINE A == Append(Q, <<"close", s>>)
           q == NewVt("closed")
           r == <<"close", s>>
<1>1. To(r) = s /\ r \in Reqs /\ r[1] # "clone" /\ "close" \in Ops
  BY ToIs DEF Ops
<1>2. ~Has(Q, "close", s) /\ CloseLast(Q, s) /\ ScreenOk(sc)
  BY DEF SOk
<1>3. CloseLast(A, s) /\ Has(A, "close", s)
  <2> HIDE DEF r
  <2>1. /\ \A op \in Ops : Has(Append(Q, r), op, s) <=> Has(Q, op, s) \/ r = <<op, s>>
        /\ CloseLast(Append(Q, r), s)
    BY <1>1, <1>2, AddOwn
  <2>2. QED
    BY <1>1, <2>1 DEF A, r
<1>4. VtOk(q) /\ q.pc = "closed"
  BY NewVtOk
<1> HIDE DEF A, q
<1>5. SOk(A, s, sc, R2, q, data, acc, got)
  BY <1>2, <1>3, <1>4 DEF SOk
<1>6. QED
  BY <1>5 DEF A, q

LEMMA ForkOk ==
  ASSUME NEW Q \in Seq(Reqs), NEW s \in Screens, NEW c \in Screens, NEW sc, NEW R, NEW p, NEW data, NEW acc, NEW got,
         SOk(Q, c, sc, R, p, data, acc, got), p.pc = "closed", ~Has(Q, "close", c),
         NEW R2, NEW q, VtOk(q), q.pc = "wait", q.own = FALSE, NEW data2, NEW got2
  PROVE  SOk(Append(Q, <<"clone", s, c>>), c, sc, R2, q, data2, acc, got2)
<1> DEFINE r == <<"clone", s, c>>
<1>1. To(r) = c /\ r \in Reqs /\ r # <<"close", c>> /\ "close" \in Ops
  BY ToIs DEF Ops
<1>2. CloseLast(Q, c) /\ ScreenOk(sc)
  BY DEF SOk
<1> HIDE DEF r
<1>3. /\ \A op \in Ops : Has(Append(Q, r), op, c) <=> Has(Q, op, c) \/ r = <<op, c>>
      /\ CloseLast(Append(Q, r), c)
  BY <1>1, <1>2, AddOwn
<1>4. SOk(Append(Q, r), c, sc, R2, q, data2, acc, got2)
  BY <1>1, <1>2, <1>3 DEF SOk
<1>5. QED
  BY <1>4 DEF r

LEMMA IrqOk ==
  ASSUME NEW Q, NEW s, NEW sc, NEW R, NEW p, NEW data, NEW acc, NEW got,
         SOk(Q, s, sc, R, p, data, acc, got), s \in R, NEW R2, s \notin R2,
         NEW q, VtOk(q), q.pc = p.pc, q.evt = TRUE, q.own = p.own, q.clist = p.clist
  PROVE  SOk(Q, s, sc, R2, q, data, acc, got)
<1>1. ASSUME p.pc # "closed", p.own
      PROVE  OwnQueue(Q, s) /\ OwnToken(Q, s, sc, R2, q) /\ OwnKeys(Q, s, sc, R2, q, data, acc, got)
  <2>1. OwnQueue(Q, s) /\ OwnToken(Q, s, sc, R, p) /\ OwnKeys(Q, s, sc, R, p, data, acc, got) /\ VtOk(p)
    BY <1>1 DEF SOk
  <2>2. p.pc = "wait"
    BY <1>1, <2>1 DEF OwnToken, VtOk
  <2>3. OwnToken(Q, s, sc, R2, q)
    BY <2>1, <2>2 DEF OwnToken, OneOf
  <2>4. Way(s, R, p, data) = Way(s, R2, q, data)
    BY <2>2 DEF Way
  <2>5. OwnKeys(Q, s, sc, R2, q, data, acc, got)
    BY <2>1, <2>2, <2>4 DEF OwnKeys
  <2>6. QED
    BY <2>1, <2>3, <2>5
<1>2. QED
  BY <1>1 DEF SOk

LEMMA AskOk ==
  ASSUME NEW Q \in Seq(Reqs), NEW s \in Screens, NEW sc, NEW R, NEW p, NEW data, NEW acc, NEW got,
         SOk(Q, s, sc, R, p, data, acc, got), p.pc = "ask",
         NEW q, VtOk(q), q.pc = "wait", q.evt = p.evt, q.own = p.own, q.clist = p.clist
  PROVE  SOk(Append(Q, <<"out", s>>), s, sc, R, q, data, acc, got)
<1> DEFINE r == <<"out", s>>
           A == Append(Q, r)
<1>1. To(r) = s /\ r \in Reqs /\ r[1] # "clone" /\ r # <<"open", s>> /\ r # <<"close", s>> /\ r = <<"out", s>>
  BY ToIs DEF Ops
<1>2. ~Has(Q, "close", s) /\ CloseLast(Q, s) /\ ScreenOk(sc)
  BY DEF SOk
<1> HIDE DEF r
<1>3. /\ \A op \in Ops : Has(A, op, s) <=> Has(Q, op, s) \/ r = <<op, s>>
      /\ CloseLast(A, s)
      /\ OwnQueue(Q, s) /\ ~Has(Q, "out", s) => OwnQueue(A, s)
  BY <1>1, <1>2, AddOwn DEF OwnQueue
<1>4. ~Has(A, "close", s) /\ Has(A, "out", s) /\ (Has(A, "open", s) <=> Has(Q, "open", s))
  BY <1>1, <1>2, <1>3 DEF Ops
<1> HIDE DEF A
<1>5. ASSUME p.own
      PROVE  OwnQueue(A, s) /\ OwnToken(A, s, sc, R, q) /\ OwnKeys(A, s, sc, R, q, data, acc, got)
  <2>1. OwnQueue(Q, s) /\ OwnToken(Q, s, sc, R, p) /\ OwnKeys(Q, s, sc, R, p, data, acc, got)
    BY <1>5 DEF SOk
  <2>2. ~Has(Q, "out", s) /\ ~sc.req /\ s \notin R /\ ~p.evt
    BY <2>1 DEF OwnToken
  <2>3. OwnQueue(A, s) /\ OwnToken(A, s, sc, R, q)
    BY <1>3, <1>4, <2>1, <2>2 DEF OwnToken, OneOf
  <2>4. Way(s, R, p, data) = Way(s, R, q, data)
    BY <2>2 DEF Way
  <2>5. OwnKeys(A, s, sc, R, q, data, acc, got)
    BY <1>4, <2>1, <2>2, <2>4 DEF OwnKeys
  <2>6. QED
    BY <2>3, <2>5
<1>6. SOk(A, s, sc, R, q, data, acc, got)
  BY <1>2, <1>3, <1>4, <1>5 DEF SOk
<1>7. QED
  BY <1>6 DEF A, r

LEMMA TakeOk ==
  ASSUME NEW Q, NEW s, NEW sc, NEW R, NEW p, NEW data, NEW acc, NEW got,
         SOk(Q, s, sc, R, p, data, acc, got), p.pc = "wait", p.evt,
         NEW q, VtOk(q), q.pc = "clear", q.evt = p.evt, q.own = p.own, q.clist = ClistAdd(p.clist, data),
         \A i \in DOMAIN q.clist : q.clist[i].written <= ClistSize
  PROVE  SOk(Q, s, sc, R, q, data, acc, got)
<1>1. ASSUME p.own
      PROVE  OwnQueue(Q, s) /\ OwnToken(Q, s, sc, R, q) /\ OwnKeys(Q, s, sc, R, q, data, acc, got)
  <2>1. OwnQueue(Q, s) /\ OwnToken(Q, s, sc, R, p) /\ OwnKeys(Q, s, sc, R, p, data, acc, got) /\ ScreenOk(sc)
    BY <1>1 DEF SOk
  <2>2. ~Has(Q, "out", s) /\ ~sc.req /\ s \notin R
    BY <2>1 DEF OwnToken, OneOf
  <2>3. OwnToken(Q, s, sc, R, q)
    BY <2>2 DEF OwnToken
  <2>4. data \in Keys /\ ClistOk(p.clist) /\ got \in Seq(Keys) /\ ~Has(Q, "open", s) /\ RingKeys(sc) \in Seq(Keys)
        /\ acc = Word(got, ClistKeys(p.clist), Way(s, R, p, data), RingKeys(sc))
    BY <2>1 DEF OwnKeys, ScreenOk
  <2>5. ClistOk(q.clist) /\ ClistKeys(q.clist) = ClistKeys(p.clist) \o <<data>>
    BY <2>4, AddOk
  <2>6. Way(s, R, p, data) = <<data>> /\ Way(s, R, q, data) = <<>>
    BY <2>2 DEF Way
  <2>7. ClistKeys(p.clist) \in Seq(Keys)
    BY <2>4, ClistIs
  <2>8. Word(got, ClistKeys(p.clist), <<data>>, RingKeys(sc)) = Word(got, ClistKeys(p.clist) \o <<data>>, <<>>, RingKeys(sc))
    BY <2>4, <2>7, TakeWord
  <2>9. acc = Word(got, ClistKeys(q.clist), Way(s, R, q, data), RingKeys(sc))
    BY <2>4, <2>5, <2>6, <2>8
  <2>10. OwnKeys(Q, s, sc, R, q, data, acc, got)
    BY <2>2, <2>4, <2>5, <2>9 DEF OwnKeys
  <2>11. QED
    BY <2>1, <2>3, <2>10
<1>2. QED
  BY <1>1 DEF SOk

LEMMA ClearOk ==
  ASSUME NEW Q, NEW s, NEW sc, NEW R, NEW p, NEW data, NEW acc, NEW got,
         SOk(Q, s, sc, R, p, data, acc, got), p.pc = "clear",
         NEW q, VtOk(q), q.pc = "ask", q.evt = FALSE, q.own = p.own, q.clist = p.clist
  PROVE  SOk(Q, s, sc, R, q, data, acc, got)
<1>1. OwnToken(Q, s, sc, R, p) => OwnToken(Q, s, sc, R, q)
  BY DEF OwnToken
<1>2. Way(s, R, p, data) = Way(s, R, q, data)
  BY DEF Way
<1>3. OwnKeys(Q, s, sc, R, p, data, acc, got) => OwnKeys(Q, s, sc, R, q, data, acc, got)
  BY <1>2 DEF OwnKeys
<1>4. QED
  BY <1>1, <1>3 DEF SOk

LEMMA ReadOk ==
  ASSUME NEW Q, NEW s, NEW sc, NEW R, NEW p, NEW data, NEW acc, NEW got,
         SOk(Q, s, sc, R, p, data, acc, got), p.pc # "closed", p.clist # <<>>,
         NEW q, VtOk(q), q.pc = p.pc, q.evt = p.evt, q.own = p.own, NEW f, f = p.clist[1],
         q.clist = IF f.read + 1 = f.written THEN Tail(p.clist) ELSE [p.clist EXCEPT ![1].read = @ + 1]
  PROVE  SOk(Q, s, sc, R, q, data, acc, Append(got, f.buf[f.read + 1]))
<1> DEFINE k == f.buf[f.read + 1]
<1>1. ASSUME p.own
      PROVE  OwnQueue(Q, s) /\ OwnToken(Q, s, sc, R, q) /\ OwnKeys(Q, s, sc, R, q, data, acc, Append(got, k))
  <2>1. OwnQueue(Q, s) /\ OwnToken(Q, s, sc, R, p) /\ OwnKeys(Q, s, sc, R, p, data, acc, got) /\ ScreenOk(sc)
    BY <1>1 DEF SOk
  <2>2. OwnToken(Q, s, sc, R, q)
    BY <2>1 DEF OwnToken
  <2>3. ClistOk(p.clist) /\ got \in Seq(Keys) /\ ~Has(Q, "open", s)
        /\ acc = Word(got, ClistKeys(p.clist), Way(s, R, p, data), RingKeys(sc))
    BY <2>1 DEF OwnKeys
  <2>4. ClistOk(q.clist) /\ k \in Keys /\ ClistKeys(p.clist) = <<k>> \o ClistKeys(q.clist)
    BY <2>3, ClistFetchOk
  <2> HIDE DEF k
  <2>5. ClistKeys(q.clist) \in Seq(Keys)
    BY <2>4, ClistIs
  <2>6. Way(s, R, p, data) = Way(s, R, q, data)
    BY DEF Way
  <2>7. Word(got, <<k>> \o ClistKeys(q.clist), Way(s, R, p, data), RingKeys(sc))
          = Word(Append(got, k), ClistKeys(q.clist), Way(s, R, p, data), RingKeys(sc))
    BY <2>3, <2>4, <2>5, ReadWord
  <2>8. acc = Word(Append(got, k), ClistKeys(q.clist), Way(s, R, q, data), RingKeys(sc))
    BY <2>3, <2>4, <2>6, <2>7
  <2>9. Append(got, k) \in Seq(Keys)
    BY <2>3, <2>4
  <2>10. OwnKeys(Q, s, sc, R, q, data, acc, Append(got, k))
    BY <2>1, <2>3, <2>4, <2>8, <2>9 DEF OwnKeys
  <2>11. QED
    BY <2>1, <2>2, <2>10
<1> HIDE DEF k
<1>2. SOk(Q, s, sc, R, q, data, acc, Append(got, k))
  BY <1>1 DEF SOk
<1>3. QED
  BY <1>2 DEF k

-----------------------------------------------------------------------------
Fun(f) == f = [s \in Screens |-> f[s]]
ConsTypes ==
  /\ kcount \in Nat /\ curscr \in Screens /\ ioreqs \in Seq(Reqs)
  /\ Fun(screens) /\ Fun(vt) /\ Fun(kacc) /\ Fun(kgot)
  /\ iospace \in [Screens -> [KBDATA : Nat, DEVSTS : BOOLEAN]]
ScreenInv(s) == SOk(ioreqs, s, screens[s], kraised, vt[s], iospace[s].KBDATA, kacc[s], kgot[s])
ConsInv == ConsTypes /\ \A s \in Screens : ScreenInv(s)

LEMMA KeptR ==
  ASSUME NEW Q, NEW s, NEW sc, NEW R, NEW p, NEW data, NEW acc, NEW got,
         SOk(Q, s, sc, R, p, data, acc, got), NEW R2, s \in R2 <=> s \in R
  PROVE  SOk(Q, s, sc, R2, p, data, acc, got)
<1>1. VtOk(p)
  BY DEF SOk
<1>2. QED
  BY <1>1, Kept

LEMMA UpdateIs ==
  ASSUME ConsTypes, NEW s \in Screens, NEW sc, KbdataUpdate(s, sc), Fetched(sc) \in Nat
  PROVE  /\ Fun(screens') /\ screens'[s] = Updated(sc)
         /\ iospace' \in [Screens -> [KBDATA : Nat, DEVSTS : BOOLEAN]] /\ iospace'[s].KBDATA = Fetched(sc)
         /\ s \in kraised' <=> s \in kraised \/ Fetched(sc) # 0
         /\ \A x \in Screens : x # s => /\ screens'[x] = screens[x] /\ iospace'[x] = iospace[x]
                                        /\ x \in kraised' <=> x \in kraised
<1> DEFINE val == Fetched(sc)
<1>1. /\ screens' = [screens EXCEPT ![s] = Updated(sc)]
      /\ iospace' = [iospace EXCEPT ![s].KBDATA = val, ![s].DEVSTS = @ \/ val # 0]
      /\ kraised' = IF val # 0 THEN kraised \cup {s} ELSE kraised
  BY DEF KbdataUpdate, Updated
<1>2. Fun(screens') /\ screens'[s] = Updated(sc) /\ \A x \in Screens : x # s => screens'[x] = screens[x]
  <2> DEFINE u == Updated(sc)
  <2>1. screens' = [screens EXCEPT ![s] = u] /\ Fun(screens)
    BY <1>1 DEF ConsTypes
  <2> HIDE DEF u
  <2>2. Fun(screens') /\ screens'[s] = u /\ \A x \in Screens : x # s => screens'[x] = screens[x]
    BY <2>1 DEF Fun
  <2>3. QED
    BY <2>2 DEF u
<1>3. /\ iospace' \in [Screens -> [KBDATA : Nat, DEVSTS : BOOLEAN]] /\ iospace'[s].KBDATA = val
      /\ \A x \in Screens : x # s => iospace'[x] = iospace[x]
  <2>1. val \in Nat /\ iospace \in [Screens -> [KBDATA : Nat, DEVSTS : BOOLEAN]]
    BY DEF ConsTypes
  <2> HIDE DEF val
  <2> DEFINE d == [iospace[s] EXCEPT !.KBDATA = val, !.DEVSTS = @ \/ val # 0]
  <2>2. iospace' = [iospace EXCEPT ![s] = d]
    BY <1>1, <2>1
  <2>3. d \in [KBDATA : Nat, DEVSTS : BOOLEAN] /\ d.KBDATA = val
    <3> DEFINE b == iospace[s].DEVSTS \/ val # 0
    <3>1. b \in BOOLEAN /\ iospace[s] \in [KBDATA : Nat, DEVSTS : BOOLEAN]
      BY <2>1
    <3>2. d = [iospace[s] EXCEPT !.KBDATA = val, !.DEVSTS = b]
      BY <3>1
    <3> HIDE DEF b, d
    <3>3. QED
      BY <2>1, <3>1, <3>2
  <2> HIDE DEF d
  <2>4. QED
    BY <2>1, <2>2, <2>3
<1>4. QED
  BY <1>1, <1>2, <1>3

(* __kbd_ast.                                                              *)
LEMMA KbdAstKeeps ==
  ASSUME ConsInv, NEW c \in ScanCodes, NEW to \in Screens, KbdAst(c, to)
  PROVE  ConsInv'
<1>1. /\ kcount' = kcount + 1 /\ ioreqs' = ioreqs /\ vt' = vt /\ kgot' = kgot
      /\ curscr' \in Screens
      /\ UNCHANGED <<screens, iospace, kraised, kacc>> \/ (curscr' = curscr /\ KbdbufAdd(kcount + 1))
  BY DEF KbdAst, process, ConsInv, ConsTypes
<1>2. kcount' \in Nat /\ kcount + 1 \in Keys
  BY <1>1 DEF ConsInv, ConsTypes, Keys
<1>3. CASE UNCHANGED <<screens, iospace, kraised, kacc>>
  <2>1. ConsTypes'
    BY <1>1, <1>2, <1>3 DEF ConsInv, ConsTypes, Fun
  <2>2. ASSUME NEW x \in Screens PROVE ScreenInv(x)'
    BY <1>1, <1>3 DEF ConsInv, ScreenInv
  <2>3. QED
    BY <2>1, <2>2 DEF ConsInv
<1>4. CASE KbdbufAdd(kcount + 1) /\ ~UNCHANGED <<screens, iospace, kraised, kacc>>
  <2> PICK s \in Screens : s = curscr
    BY DEF ConsInv, ConsTypes
  <2> DEFINE sc == screens[s]
             key == kcount + 1
             t == Pushed(sc, key)
  <2>0. s \in Screens /\ ConsTypes /\ SOk(ioreqs, s, sc, kraised, vt[s], iospace[s].KBDATA, kacc[s], kgot[s])
    BY DEF ConsInv, ConsTypes, ScreenInv
  <2>1. /\ ~KbdbufFull(sc) /\ kacc' = [kacc EXCEPT ![s] = Append(@, key)]
        /\ sc.req => KbdataUpdate(s, t)
        /\ ~sc.req => screens' = [screens EXCEPT ![s] = t] /\ UNCHANGED <<iospace, kraised>>
    BY <1>4 DEF KbdbufAdd, Pushed
  <2>2. key \in Keys
    BY <1>2
  <2> HIDE DEF sc, key, t
  <2>3. Fun(kacc') /\ kacc'[s] = Append(kacc[s], key) /\ \A x \in Screens : x # s => kacc'[x] = kacc[x]
    <3> DEFINE v == Append(kacc[s], key)
    <3>1. kacc' = [kacc EXCEPT ![s] = v]
      BY <2>1
    <3> HIDE DEF v
    <3>2. Fun(kacc') /\ kacc'[s] = v /\ \A x \in Screens : x # s => kacc'[x] = kacc[x]
      BY <2>0, <3>1 DEF ConsTypes, Fun
    <3>3. QED
      BY <3>2 DEF v
  <2>4. CASE sc.req
    <3>1. /\ SOk(ioreqs, s, Updated(t), kraised \cup {s}, vt[s], Fetched(t), Append(kacc[s], key), kgot[s])
          /\ Fetched(t) # 0 /\ Fetched(t) \in Nat
      BY <2>0, <2>1, <2>2, <2>4, PressAnswerOk DEF t
    <3>2. /\ Fun(screens') /\ screens'[s] = Updated(t)
          /\ iospace' \in [Screens -> [KBDATA : Nat, DEVSTS : BOOLEAN]] /\ iospace'[s].KBDATA = Fetched(t)
          /\ s \in kraised' <=> s \in kraised \/ Fetched(t) # 0
          /\ \A x \in Screens : x # s => /\ screens'[x] = screens[x] /\ iospace'[x] = iospace[x]
                                         /\ x \in kraised' <=> x \in kraised
      BY <2>0, <2>1, <2>4, <3>1, UpdateIs
    <3>3. ConsTypes'
      BY <1>1, <1>2, <2>0, <2>3, <3>2 DEF ConsTypes, Fun
    <3>4. ScreenInv(s)'
      <4>1. SOk(ioreqs, s, Updated(t), kraised', vt[s], Fetched(t), Append(kacc[s], key), kgot[s])
        BY <3>1, <3>2, KeptR
      <4>2. SOk(ioreqs', s, screens'[s], kraised', vt'[s], iospace'[s].KBDATA, kacc'[s], kgot'[s])
        BY <1>1, <2>3, <3>2, <4>1
      <4>3. QED
        BY <4>2 DEF ScreenInv
    <3>5. ASSUME NEW x \in Screens, x # s PROVE ScreenInv(x)'
      <4>1. SOk(ioreqs, x, screens[x], kraised, vt[x], iospace[x].KBDATA, kacc[x], kgot[x])
        BY DEF ConsInv, ScreenInv
      <4>2. SOk(ioreqs, x, screens[x], kraised', vt[x], iospace[x].KBDATA, kacc[x], kgot[x])
        BY <3>2, <3>5, <4>1, KeptR
      <4>3. QED
        BY <1>1, <2>3, <3>2, <3>5, <4>2 DEF ScreenInv
    <3>6. QED
      BY <3>3, <3>4, <3>5 DEF ConsInv
  <2>5. CASE ~sc.req
    <3>1. SOk(ioreqs, s, t, kraised, vt[s], iospace[s].KBDATA, Append(kacc[s], key), kgot[s])
      BY <2>0, <2>1, <2>2, <2>5, PressOk DEF t
    <3>2. Fun(screens') /\ screens'[s] = t /\ \A x \in Screens : x # s => screens'[x] = screens[x]
      BY <2>0, <2>1, <2>5 DEF ConsTypes, Fun
    <3>3. ConsTypes'
      BY <1>1, <1>2, <2>0, <2>1, <2>3, <2>5, <3>2 DEF ConsTypes, Fun
    <3>4. ASSUME NEW x \in Screens PROVE ScreenInv(x)'
      <4>1. SOk(ioreqs, x, screens[x], kraised, vt[x], iospace[x].KBDATA, kacc[x], kgot[x])
        BY DEF ConsInv, ScreenInv
      <4>2. CASE x = s
        BY <1>1, <2>1, <2>3, <2>5, <3>1, <3>2, <4>2 DEF ScreenInv
      <4>3. CASE x # s
        BY <1>1, <2>1, <2>3, <2>5, <3>2, <4>1, <4>3 DEF ScreenInv
      <4>4. QED
        BY <4>2, <4>3
    <3>5. QED
      BY <3>3, <3>4 DEF ConsInv
  <2>6. QED
    BY <2>4, <2>5
<1>5. QED
  BY <1>1, <1>3, <1>4

(* __console_io_ast.                                                       *)
LEMMA ConsoleIoAstKeeps ==
  ASSUME ConsInv, ConsoleIoAst
  PROVE  ConsInv'
<1>0. /\ ConsTypes /\ ioreqs \in Seq(Reqs) /\ ioreqs # <<>>
      /\ \A x \in Screens : SOk(ioreqs, x, screens[x], kraised, vt[x], iospace[x].KBDATA, kacc[x], kgot[x])
  BY DEF ConsInv, ConsTypes, ConsoleIoAst, ScreenInv
<1>1. /\ ioreqs' = Tail(ioreqs) /\ ioreqs' \in Seq(Reqs) /\ Head(ioreqs) \in Reqs
      /\ kcount' = kcount /\ curscr' = curscr /\ vt' = vt /\ kgot' = kgot
  BY <1>0, TakeReq DEF ConsoleIoAst, process
<1>2. PICK r \in Reqs : r = Head(ioreqs)
  BY <1>1
<1> DEFINE Same(c) == \A x \in Screens : x # c =>
                        /\ screens'[x] = screens[x] /\ (x \in kraised' <=> x \in kraised)
                        /\ iospace'[x] = iospace[x] /\ kacc'[x] = kacc[x]
<1>3. ASSUME NEW c \in Screens, To(r) = c, Same(c), Fun(screens'), Fun(kacc'),
             iospace' \in [Screens -> [KBDATA : Nat, DEVSTS : BOOLEAN]],
             SOk(Tail(ioreqs), c, screens'[c], kraised', vt[c], iospace'[c].KBDATA, kacc'[c], kgot[c])
      PROVE  ConsInv'
  <2>1. ConsTypes'
    BY <1>0, <1>1, <1>3 DEF ConsTypes, Fun
  <2>2. ASSUME NEW x \in Screens PROVE ScreenInv(x)'
    <3>1. CASE x = c
      BY <1>1, <1>3, <3>1 DEF ScreenInv
    <3>2. CASE x # c
      <4>1. SOk(Tail(ioreqs), x, screens[x], kraised, vt[x], iospace[x].KBDATA, kacc[x], kgot[x])
        BY <1>0, <1>2, <1>3, <3>2, KeptTake
      <4>2. SOk(Tail(ioreqs), x, screens[x], kraised', vt[x], iospace[x].KBDATA, kacc[x], kgot[x])
        BY <1>3, <3>2, <4>1, KeptR
      <4>3. QED
        BY <1>1, <1>3, <3>2, <4>2 DEF ScreenInv
    <3>3. QED
      BY <3>1, <3>2
  <2>3. QED
    BY <2>1, <2>2 DEF ConsInv
<1>4. ASSUME NEW s \in Screens, r = <<"out", s>> PROVE ConsInv'
  <2>1. KbdataUpdate(s, screens[s]) /\ kacc' = kacc
    <3>1. Head(ioreqs)[1] = "out" /\ Head(ioreqs)[2] = s
      BY <1>2, <1>4
    <3>2. QED
      BY <3>1 DEF ConsoleIoAst
  <2>2. Fetched(screens[s]) \in Nat
    BY <1>0, UpdateOk DEF SOk
  <2>3. /\ Fun(screens') /\ screens'[s] = Updated(screens[s])
        /\ iospace' \in [Screens -> [KBDATA : Nat, DEVSTS : BOOLEAN]] /\ iospace'[s].KBDATA = Fetched(screens[s])
        /\ s \in kraised' <=> s \in kraised \/ Fetched(screens[s]) # 0
        /\ \A x \in Screens : x # s => /\ screens'[x] = screens[x] /\ iospace'[x] = iospace[x]
                                       /\ x \in kraised' <=> x \in kraised
    BY <1>0, <2>1, <2>2, UpdateIs
  <2>4. SOk(Tail(ioreqs), s, Updated(screens[s]), kraised', vt[s], Fetched(screens[s]), kacc[s], kgot[s])
    BY <1>0, <1>2, <1>4, <2>3, OutOk
  <2>5. SOk(Tail(ioreqs), s, screens'[s], kraised', vt[s], iospace'[s].KBDATA, kacc'[s], kgot[s])
    BY <2>1, <2>3, <2>4
  <2>6. To(r) = s /\ Same(s) /\ Fun(kacc')
    BY <1>0, <1>4, <2>1, <2>3, ToIs DEF Ops, ConsTypes
  <2>7. QED
    BY <1>3, <2>3, <2>5, <2>6
<1>5. ASSUME NEW s \in Screens, r = <<"open", s>> PROVE ConsInv'
  <2> DEFINE u == NewScreen(screens[s], TRUE)
             e == <<>>
  <2>1. screens' = [screens EXCEPT ![s] = u] /\ kacc' = [kacc EXCEPT ![s] = e] /\ iospace' = iospace /\ kraised' = kraised
    <3>1. Head(ioreqs)[1] = "open" /\ Head(ioreqs)[2] = s
      BY <1>2, <1>5
    <3>2. QED
      BY <3>1 DEF ConsoleIoAst
  <2>2. SOk(Tail(ioreqs), s, u, kraised, vt[s], iospace[s].KBDATA, e, kgot[s])
    BY <1>0, <1>2, <1>5, OpenOk
  <2> HIDE DEF u, e
  <2>3. Fun(screens') /\ screens'[s] = u /\ \A x \in Screens : x # s => screens'[x] = screens[x]
    BY <1>0, <2>1 DEF ConsTypes, Fun
  <2>4. Fun(kacc') /\ kacc'[s] = e /\ \A x \in Screens : x # s => kacc'[x] = kacc[x]
    BY <1>0, <2>1 DEF ConsTypes, Fun
  <2>5. SOk(Tail(ioreqs), s, screens'[s], kraised', vt[s], iospace'[s].KBDATA, kacc'[s], kgot[s])
    BY <2>1, <2>2, <2>3, <2>4
  <2>6. To(r) = s /\ Same(s)
    BY <1>5, <2>1, <2>3, <2>4, ToIs DEF Ops
  <2>7. iospace' \in [Screens -> [KBDATA : Nat, DEVSTS : BOOLEAN]]
    BY <1>0, <2>1 DEF ConsTypes
  <2>8. QED
    BY <1>3, <2>3, <2>4, <2>5, <2>6, <2>7
<1>6. ASSUME NEW s \in Screens, r = <<"close", s>> PROVE ConsInv'
  <2> DEFINE u == NewScreen(screens[s], FALSE)
  <2>1. screens' = [screens EXCEPT ![s] = u] /\ kacc' = kacc /\ iospace' = iospace /\ kraised' = kraised
    <3>1. Head(ioreqs)[1] = "close" /\ Head(ioreqs)[2] = s
      BY <1>2, <1>6
    <3>2. QED
      BY <3>1 DEF ConsoleIoAst
  <2>2. SOk(Tail(ioreqs), s, u, kraised, vt[s], iospace[s].KBDATA, kacc[s], kgot[s])
    BY <1>0, <1>2, <1>6, CloseOk
  <2> HIDE DEF u
  <2>3. Fun(screens') /\ screens'[s] = u /\ \A x \in Screens : x # s => screens'[x] = screens[x]
    BY <1>0, <2>1 DEF ConsTypes, Fun
  <2>4. Fun(kacc') /\ iospace' \in [Screens -> [KBDATA : Nat, DEVSTS : BOOLEAN]]
    BY <1>0, <2>1 DEF ConsTypes
  <2>5. SOk(Tail(ioreqs), s, screens'[s], kraised', vt[s], iospace'[s].KBDATA, kacc'[s], kgot[s])
    BY <2>1, <2>2, <2>3
  <2>6. To(r) = s /\ Same(s)
    BY <1>6, <2>1, <2>3, ToIs DEF Ops
  <2>7. QED
    BY <1>3, <2>3, <2>4, <2>5, <2>6
<1>7. ASSUME NEW s \in Screens, NEW c \in Screens, r = <<"clone", s, c>> PROVE ConsInv'
  <2> DEFINE f == screens[s].fpos
             q == screens[s].req
             u == [screens[c] EXCEPT !.active = TRUE, !.req = q, !.fpos = f, !.wpos = f]
             e == <<>>
  <2>1. screens' = [screens EXCEPT ![c] = u] /\ kacc' = [kacc EXCEPT ![c] = e] /\ iospace' = iospace /\ kraised' = kraised
    <3>1. Head(ioreqs)[1] = "clone" /\ Head(ioreqs)[2] = s /\ Head(ioreqs)[3] = c
      BY <1>2, <1>7
    <3>2. QED
      BY <3>1 DEF ConsoleIoAst
  <2>2. ScreenOk(u)
    <3>1. f \in Places /\ q \in BOOLEAN /\ screens[c] \in ScreenRec
      BY <1>0 DEF SOk, ScreenOk, ScreenRec
    <3> HIDE DEF f, q
    <3>2. u = [active |-> TRUE, req |-> q, fpos |-> f, wpos |-> f, buf |-> screens[c].buf]
      <4> DEFINE v == TRUE
                 z == screens[c]
      <4>1. z = [active |-> z.active, req |-> z.req, fpos |-> z.fpos, wpos |-> z.wpos, buf |-> z.buf]
        BY <3>1 DEF ScreenRec
      <4>2. u = [z EXCEPT !.active = v, !.req = q, !.fpos = f, !.wpos = f]
        OBVIOUS
      <4> HIDE DEF v, z, u
      <4>3. u = [active |-> v, req |-> q, fpos |-> f, wpos |-> f, buf |-> z.buf]
        BY <4>1, <4>2
      <4>4. QED
        BY <4>3 DEF v, z
    <3>3. u \in ScreenRec /\ u.fpos = u.wpos
      BY <3>1, <3>2 DEF ScreenRec
    <3> HIDE DEF u
    <3>4. RingKeys(u) = <<>> /\ <<>> \in Seq(Keys)
      BY <3>3, RingEmpty
    <3>5. QED
      BY <3>3, <3>4 DEF ScreenOk
  <2> HIDE DEF u, e
  <2>3. SOk(Tail(ioreqs), c, u, kraised, vt[c], iospace[c].KBDATA, e, kgot[c])
    BY <1>0, <1>2, <1>7, <2>2, CloneOk
  <2>4. Fun(screens') /\ screens'[c] = u /\ \A x \in Screens : x # c => screens'[x] = screens[x]
    BY <1>0, <2>1 DEF ConsTypes, Fun
  <2>5. Fun(kacc') /\ kacc'[c] = e /\ \A x \in Screens : x # c => kacc'[x] = kacc[x]
    BY <1>0, <2>1 DEF ConsTypes, Fun
  <2>6. SOk(Tail(ioreqs), c, screens'[c], kraised', vt[c], iospace'[c].KBDATA, kacc'[c], kgot[c])
    BY <2>1, <2>3, <2>4, <2>5
  <2>7. To(r) = c /\ Same(c)
    BY <1>7, <2>1, <2>4, <2>5, ToIs
  <2>8. iospace' \in [Screens -> [KBDATA : Nat, DEVSTS : BOOLEAN]]
    BY <1>0, <2>1 DEF ConsTypes
  <2>9. QED
    BY <1>3, <2>4, <2>5, <2>6, <2>7, <2>8
<1>8. QED
  BY <1>4, <1>5, <1>6, <1>7 DEF Reqs

(* The processes: a step of one is seen by no other screen.                *)
VtSame(s) == \A x \in Screens : x # s => /\ vt'[x] = vt[x] /\ kgot'[x] = kgot[x] /\ iospace'[x] = iospace[x]
                                         /\ x \in kraised' <=> x \in kraised
LEMMA ProcessKeeps ==
  ASSUME ConsInv, NEW s \in Screens, UNCHANGED <<kcount, screens, curscr, kacc>>,
         Fun(vt'), Fun(kgot'), iospace' \in [Screens -> [KBDATA : Nat, DEVSTS : BOOLEAN]], VtSame(s),
         ioreqs' = ioreqs \/ \E r \in Reqs : To(r) = s /\ ioreqs' = Append(ioreqs, r),
         SOk(ioreqs', s, screens[s], kraised', vt'[s], iospace'[s].KBDATA, kacc[s], kgot'[s])
  PROVE  ConsInv'
<1>0. /\ ConsTypes /\ ioreqs \in Seq(Reqs)
      /\ \A x \in Screens : SOk(ioreqs, x, screens[x], kraised, vt[x], iospace[x].KBDATA, kacc[x], kgot[x])
  BY DEF ConsInv, ConsTypes, ScreenInv
<1>1. ioreqs' \in Seq(Reqs)
  BY <1>0, AddReq
<1>2. ConsTypes'
  BY <1>0, <1>1 DEF ConsTypes, Fun
<1>3. ASSUME NEW x \in Screens PROVE ScreenInv(x)'
  <2>1. CASE x = s
    BY <2>1 DEF ScreenInv
  <2>2. CASE x # s
    <3>1. SOk(ioreqs', x, screens[x], kraised, vt[x], iospace[x].KBDATA, kacc[x], kgot[x])
      <4>1. CASE ioreqs' = ioreqs
        BY <1>0, <4>1
      <4>2. ASSUME NEW r \in Reqs, To(r) = s, ioreqs' = Append(ioreqs, r)
            PROVE  SOk(ioreqs', x, screens[x], kraised, vt[x], iospace[x].KBDATA, kacc[x], kgot[x])
        BY <1>0, <2>2, <4>2, KeptAdd
      <4>3. QED
        BY <4>1, <4>2
    <3>2. SOk(ioreqs', x, screens[x], kraised', vt[x], iospace[x].KBDATA, kacc[x], kgot[x])
      BY <2>2, <3>1, KeptR DEF VtSame
    <3>3. QED
      BY <2>2, <3>2 DEF ScreenInv, VtSame
  <2>3. QED
    BY <2>1, <2>2
<1>4. QED
  BY <1>2, <1>3 DEF ConsInv

LEMMA QueueHas ==
  ASSUME NEW Q \in Seq(Reqs), NEW op \in Ops, NEW s \in Screens
  PROVE  Has(Q, op, s) <=> <<op, s>> \in ToSet(Q)
<1>1. DOMAIN Q = 1 .. Len(Q)
  OBVIOUS
<1>2. QED
  BY <1>1 DEF Has, ToSet

LEMMA ConsFacts ==
  ASSUME ConsInv
  PROVE  /\ ioreqs \in Seq(Reqs) /\ Fun(vt) /\ Fun(kgot)
         /\ iospace \in [Screens -> [KBDATA : Nat, DEVSTS : BOOLEAN]]
         /\ \A x \in Screens : /\ SOk(ioreqs, x, screens[x], kraised, vt[x], iospace[x].KBDATA, kacc[x], kgot[x])
                               /\ VtOk(vt[x])
BY DEF ConsInv, ConsTypes, ScreenInv, SOk

LEMMA VtdrvInitKeeps ==
  ASSUME ConsInv, NEW s \in Screens, VtdrvInit(s)
  PROVE  ConsInv'
<1> DEFINE q == NewVt("ask")
           e == <<>>
           r == <<"open", s>>
<1>1. /\ vt[s].pc = "closed" /\ <<"close", s>> \notin ToSet(ioreqs)
      /\ vt' = [vt EXCEPT ![s] = q] /\ kgot' = [kgot EXCEPT ![s] = e]
      /\ ioreqs' = Append(ioreqs, r) /\ kraised' = kraised \ {s} /\ iospace' = iospace
      /\ UNCHANGED <<kcount, screens, curscr, kacc>>
  BY DEF VtdrvInit, Unchanged
<1>2. SOk(ioreqs', s, screens[s], kraised', q, iospace[s].KBDATA, kacc[s], e)
  <2>1. ~Has(ioreqs, "close", s) /\ s \notin kraised'
    BY <1>1, ConsFacts, QueueHas DEF Ops
  <2>2. QED
    BY <1>1, <2>1, ConsFacts, InitOk
<1>3. r \in Reqs /\ To(r) = s
  BY ToIs DEF Ops
<1> HIDE DEF q, e, r
<1>4. Fun(vt') /\ vt'[s] = q /\ Fun(kgot') /\ kgot'[s] = e
  BY <1>1, ConsFacts DEF Fun
<1>5. VtSame(s)
  BY <1>1, ConsFacts DEF VtSame, Fun
<1>6. iospace' \in [Screens -> [KBDATA : Nat, DEVSTS : BOOLEAN]]
  BY <1>1, ConsFacts
<1>7. SOk(ioreqs', s, screens[s], kraised', vt'[s], iospace'[s].KBDATA, kacc[s], kgot'[s])
  BY <1>1, <1>2, <1>4
<1>8. QED
  BY <1>1, <1>3, <1>4, <1>5, <1>6, <1>7, ProcessKeeps

LEMMA VtdrvExitKeeps ==
  ASSUME ConsInv, NEW s \in Screens, VtdrvExit(s)
  PROVE  ConsInv'
<1> DEFINE q == NewVt("closed")
           r == <<"close", s>>
<1>1. /\ vt[s].pc # "closed" /\ vt' = [vt EXCEPT ![s] = q] /\ kgot' = kgot
      /\ ioreqs' = Append(ioreqs, r) /\ kraised' = kraised \ {s} /\ iospace' = iospace
      /\ UNCHANGED <<kcount, screens, curscr, kacc>>
  BY DEF VtdrvExit, Unchanged
<1>2. SOk(ioreqs', s, screens[s], kraised', q, iospace[s].KBDATA, kacc[s], kgot[s])
  BY <1>1, ConsFacts, ExitOk
<1>3. r \in Reqs /\ To(r) = s
  BY ToIs DEF Ops
<1> HIDE DEF q, r
<1>4. Fun(vt') /\ vt'[s] = q /\ Fun(kgot')
  BY <1>1, ConsFacts DEF Fun
<1>5. VtSame(s)
  BY <1>1, ConsFacts DEF VtSame, Fun
<1>6. iospace' \in [Screens -> [KBDATA : Nat, DEVSTS : BOOLEAN]]
  BY <1>1, ConsFacts
<1>7. SOk(ioreqs', s, screens[s], kraised', vt'[s], iospace'[s].KBDATA, kacc[s], kgot'[s])
  BY <1>1, <1>2, <1>4
<1>8. QED
  BY <1>1, <1>3, <1>4, <1>5, <1>6, <1>7, ProcessKeeps

VtRec(pc, evt, cevt, clist, rd, own) ==
  [pc |-> pc, evt |-> evt, cevt |-> cevt, clist |-> clist, rd |-> rd, own |-> own]
LEMMA VtIs ==
  ASSUME NEW a \in {"closed", "ask", "wait", "clear"}, NEW b \in BOOLEAN, NEW c, NEW l, NEW r, NEW o \in BOOLEAN
  PROVE  LET q == VtRec(a, b, c, l, r, o) IN
         VtOk(q) /\ q.pc = a /\ q.evt = b /\ q.clist = l /\ q.own = o
BY DEF VtOk, VtRec

LEMMA ForkKeeps ==
  ASSUME ConsInv, NEW s \in Screens, NEW c \in Screens, Fork(s, c)
  PROVE  ConsInv'
<1> DEFINE q == [vt[s] EXCEPT !.own = FALSE]
           e == <<>>
           d == iospace[s]
           r == <<"clone", s, c>>
<1>1. /\ vt[s].pc = "wait" /\ vt[c].pc = "closed" /\ <<"close", c>> \notin ToSet(ioreqs)
      /\ vt' = [vt EXCEPT ![c] = q] /\ kgot' = [kgot EXCEPT ![c] = e]
      /\ iospace' = [iospace EXCEPT ![c] = d]
      /\ ioreqs' = Append(ioreqs, r) /\ kraised' = kraised \ {c}
      /\ UNCHANGED <<kcount, screens, curscr, kacc>>
  BY DEF Fork
<1>2. VtOk(q) /\ q.pc = "wait" /\ q.own = FALSE
  <2>1. VtOk(vt[s])
    BY ConsFacts
  <2> DEFINE p == vt[s]
             v == FALSE
  <2>2. q = [p EXCEPT !.own = v]
    OBVIOUS
  <2>3. /\ p = [pc |-> p.pc, evt |-> p.evt, cevt |-> p.cevt, clist |-> p.clist, rd |-> p.rd, own |-> p.own]
        /\ p.pc = "wait" /\ p.pc \in {"closed", "ask", "wait", "clear"} /\ p.evt \in BOOLEAN /\ v \in BOOLEAN
    BY <1>1, <2>1 DEF VtOk
  <2> HIDE DEF p, q, v
  <2>4. q = VtRec(p.pc, p.evt, p.cevt, p.clist, p.rd, v)
    BY <2>2, <2>3 DEF VtRec
  <2>5. VtOk(q) /\ q.pc = p.pc /\ q.own = v
    BY <2>3, <2>4, VtIs
  <2>6. QED
    BY <2>3, <2>5 DEF v
<1>3. d \in [KBDATA : Nat, DEVSTS : BOOLEAN]
  BY ConsFacts
<1> HIDE DEF q, e, d
<1>4. SOk(ioreqs', c, screens[c], kraised', q, d.KBDATA, kacc[c], e)
  <2>1. ~Has(ioreqs, "close", c)
    BY <1>1, ConsFacts, QueueHas DEF Ops
  <2>2. QED
    BY <1>1, <1>2, <2>1, ConsFacts, ForkOk
<1>5. r \in Reqs /\ To(r) = c
  BY ToIs
<1> HIDE DEF r
<1>6. Fun(vt') /\ vt'[c] = q /\ Fun(kgot') /\ kgot'[c] = e
  BY <1>1, ConsFacts DEF Fun
<1>7. iospace' \in [Screens -> [KBDATA : Nat, DEVSTS : BOOLEAN]] /\ iospace'[c] = d
      /\ \A x \in Screens : x # c => iospace'[x] = iospace[x]
  BY <1>1, <1>3, ConsFacts
<1>8. VtSame(c)
  BY <1>1, <1>7, ConsFacts DEF VtSame, Fun
<1>9. SOk(ioreqs', c, screens[c], kraised', vt'[c], iospace'[c].KBDATA, kacc[c], kgot'[c])
  BY <1>4, <1>6, <1>7
<1>10. QED
  BY <1>1, <1>5, <1>6, <1>7, <1>8, <1>9, ProcessKeeps

(* The steps that change only some fields of a process.                    *)
Pcs == {"closed", "ask", "wait", "clear"}
VtBecomes(s, q) == vt' = [vt EXCEPT ![s] = q]
VtIsNow(s, pc, evt, clist) ==
  /\ Fun(vt') /\ VtOk(vt'[s]) /\ vt'[s].pc = pc /\ vt'[s].evt = evt /\ vt'[s].clist = clist /\ vt'[s].own = vt[s].own
  /\ \A x \in Screens : x # s => vt'[x] = vt[x]
LEMMA VtStep ==
  ASSUME ConsInv, NEW s \in Screens, NEW a \in Pcs, NEW b \in BOOLEAN, NEW c, NEW l, NEW r,
         VtBecomes(s, VtRec(a, b, c, l, r, vt[s].own))
  PROVE  VtIsNow(s, a, b, l)
<1> DEFINE q == VtRec(a, b, c, l, r, vt[s].own)
<1>1. VtOk(q) /\ q.pc = a /\ q.evt = b /\ q.clist = l /\ q.own = vt[s].own
  <2>1. vt[s].own \in BOOLEAN
    BY ConsFacts DEF VtOk
  <2>2. QED
    BY <2>1, VtIs DEF Pcs
<1>2. Fun(vt) /\ vt' = [vt EXCEPT ![s] = q]
  BY ConsFacts DEF VtBecomes
<1> HIDE DEF q
<1>3. Fun(vt') /\ vt'[s] = q /\ \A x \in Screens : x # s => vt'[x] = vt[x]
  BY <1>2 DEF Fun
<1>4. QED
  BY <1>1, <1>3 DEF VtIsNow

LEMMA VtParts ==
  ASSUME ConsInv, NEW s \in Screens
  PROVE  /\ vt[s] = VtRec(vt[s].pc, vt[s].evt, vt[s].cevt, vt[s].clist, vt[s].rd, vt[s].own)
         /\ vt[s].pc \in {"closed", "ask", "wait", "clear"} /\ vt[s].evt \in BOOLEAN /\ vt[s].own \in BOOLEAN
         /\ Fun(vt)
BY ConsFacts DEF VtOk, VtRec

LEMMA KbdIrqKeeps ==
  ASSUME ConsInv, NEW s \in Screens, KbdIrq(s)
  PROVE  ConsInv'
<1> DEFINE p == vt[s]
<1>1. /\ s \in kraised /\ kraised' = kraised \ {s} /\ vt' = [vt EXCEPT ![s].evt = TRUE]
      /\ ioreqs' = ioreqs /\ kgot' = kgot /\ iospace' = iospace /\ UNCHANGED <<kcount, screens, curscr, kacc>>
  BY DEF KbdIrq, Unchanged
<1>2. VtBecomes(s, VtRec(p.pc, TRUE, p.cevt, p.clist, p.rd, p.own))
  <2> DEFINE u == TRUE
             q == [p EXCEPT !.evt = u]
  <2>1. vt' = [vt EXCEPT ![s] = q]
    BY <1>1
  <2>2. p = VtRec(p.pc, p.evt, p.cevt, p.clist, p.rd, p.own) /\ q = [p EXCEPT !.evt = u]
    BY VtParts
  <2> HIDE DEF u, p, q
  <2>3. q = VtRec(p.pc, u, p.cevt, p.clist, p.rd, p.own)
    BY <2>2 DEF VtRec
  <2>4. QED
    BY <2>1, <2>3 DEF VtBecomes, u
<1>3. /\ Fun(vt') /\ VtOk(vt'[s]) /\ vt'[s].pc = p.pc /\ vt'[s].evt = TRUE /\ vt'[s].clist = p.clist /\ vt'[s].own = p.own
      /\ \A x \in Screens : x # s => vt'[x] = vt[x]
  <2>1. p.pc \in Pcs /\ TRUE \in BOOLEAN
    BY VtParts DEF Pcs
  <2>2. VtIsNow(s, p.pc, TRUE, p.clist)
    BY <1>2, <2>1, VtStep
  <2>3. QED
    BY <2>2 DEF VtIsNow
<1>4. SOk(ioreqs, s, screens[s], kraised', vt'[s], iospace[s].KBDATA, kacc[s], kgot[s])
  BY <1>1, <1>3, ConsFacts, IrqOk
<1>5. VtSame(s) /\ Fun(kgot') /\ iospace' \in [Screens -> [KBDATA : Nat, DEVSTS : BOOLEAN]]
  BY <1>1, <1>3, ConsFacts DEF VtSame
<1>6. SOk(ioreqs', s, screens[s], kraised', vt'[s], iospace'[s].KBDATA, kacc[s], kgot'[s])
  BY <1>1, <1>4
<1>7. QED
  BY <1>1, <1>3, <1>5, <1>6, ProcessKeeps

LEMMA VtAskKeeps ==
  ASSUME ConsInv, NEW s \in Screens, VtAsk(s)
  PROVE  ConsInv'
<1> DEFINE p == vt[s]
           r == <<"out", s>>
<1>1. /\ p.pc = "ask" /\ vt' = [vt EXCEPT ![s].pc = "wait"] /\ kraised' = kraised
      /\ ioreqs' = Append(ioreqs, r) /\ kgot' = kgot /\ iospace' = iospace /\ UNCHANGED <<kcount, screens, curscr, kacc>>
  BY DEF VtAsk, Unchanged, VtAt
<1>2. VtBecomes(s, VtRec("wait", p.evt, p.cevt, p.clist, p.rd, p.own))
  <2> DEFINE u == "wait"
             q == [p EXCEPT !.pc = u]
  <2>1. vt' = [vt EXCEPT ![s] = q]
    BY <1>1
  <2>2. p = VtRec(p.pc, p.evt, p.cevt, p.clist, p.rd, p.own) /\ q = [p EXCEPT !.pc = u]
    BY VtParts
  <2> HIDE DEF u, p, q
  <2>3. q = VtRec(u, p.evt, p.cevt, p.clist, p.rd, p.own)
    BY <2>2 DEF VtRec
  <2>4. QED
    BY <2>1, <2>3 DEF VtBecomes, u
<1>3. /\ Fun(vt') /\ VtOk(vt'[s]) /\ vt'[s].pc = "wait" /\ vt'[s].evt = p.evt /\ vt'[s].clist = p.clist /\ vt'[s].own = p.own
      /\ \A x \in Screens : x # s => vt'[x] = vt[x]
  <2>1. "wait" \in Pcs /\ p.evt \in BOOLEAN
    BY VtParts DEF Pcs
  <2>2. VtIsNow(s, "wait", p.evt, p.clist)
    BY <1>2, <2>1, VtStep
  <2>3. QED
    BY <2>2 DEF VtIsNow
<1>4. SOk(Append(ioreqs, r), s, screens[s], kraised, vt'[s], iospace[s].KBDATA, kacc[s], kgot[s])
  BY <1>1, <1>3, ConsFacts, AskOk
<1>5. VtSame(s) /\ Fun(kgot') /\ iospace' \in [Screens -> [KBDATA : Nat, DEVSTS : BOOLEAN]]
  BY <1>1, <1>3, ConsFacts DEF VtSame
<1>6. r \in Reqs /\ To(r) = s
  BY ToIs DEF Ops
<1> HIDE DEF r
<1>7. SOk(ioreqs', s, screens[s], kraised', vt'[s], iospace'[s].KBDATA, kacc[s], kgot'[s])
  BY <1>1, <1>4
<1>8. QED
  BY <1>1, <1>3, <1>5, <1>6, <1>7, ProcessKeeps

LEMMA VtTakeKeeps ==
  ASSUME ConsInv, NEW s \in Screens, VtTake(s), \A i \in DOMAIN vt'[s].clist : vt'[s].clist[i].written <= ClistSize
  PROVE  ConsInv'
<1> DEFINE p == vt[s]
           l == ClistAdd(p.clist, iospace[s].KBDATA)
<1>1. /\ p.pc = "wait" /\ p.evt /\ kraised' = kraised
      /\ vt' = [vt EXCEPT ![s].pc = "clear", ![s].cevt = TRUE, ![s].clist = l]
      /\ ioreqs' = ioreqs /\ kgot' = kgot /\ iospace' = iospace /\ UNCHANGED <<kcount, screens, curscr, kacc>>
  <2>1. vt' = [vt EXCEPT ![s].pc = "clear", ![s].cevt = TRUE, ![s].clist = ClistAdd(@, iospace[s].KBDATA)]
    BY DEF VtTake
  <2>2. [vt EXCEPT ![s].pc = "clear", ![s].cevt = TRUE, ![s].clist = ClistAdd(@, iospace[s].KBDATA)]
          = [vt EXCEPT ![s].pc = "clear", ![s].cevt = TRUE, ![s].clist = l]
    BY VtParts DEF VtRec, Fun
  <2>3. QED
    BY <2>1, <2>2 DEF VtTake, Unchanged, VtAt
<1> HIDE DEF l
<1>2. VtBecomes(s, VtRec("clear", p.evt, TRUE, l, p.rd, p.own))
  <2> DEFINE u == "clear"
             v == TRUE
             q == [p EXCEPT !.pc = u, !.cevt = v, !.clist = l]
  <2>1. vt' = [vt EXCEPT ![s] = q]
    BY <1>1, VtParts DEF Fun
  <2>2. p = VtRec(p.pc, p.evt, p.cevt, p.clist, p.rd, p.own) /\ q = [p EXCEPT !.pc = u, !.cevt = v, !.clist = l]
    BY VtParts
  <2> HIDE DEF u, v, p, q
  <2>3. q = VtRec(u, p.evt, v, l, p.rd, p.own)
    BY <2>2 DEF VtRec
  <2>4. QED
    BY <2>1, <2>3 DEF VtBecomes, u, v
<1>3. /\ Fun(vt') /\ VtOk(vt'[s]) /\ vt'[s].pc = "clear" /\ vt'[s].evt = p.evt /\ vt'[s].clist = l /\ vt'[s].own = p.own
      /\ \A x \in Screens : x # s => vt'[x] = vt[x]
  <2>1. "clear" \in Pcs /\ p.evt \in BOOLEAN
    BY VtParts DEF Pcs
  <2>2. VtIsNow(s, "clear", p.evt, l)
    BY <1>2, <2>1, VtStep
  <2>3. QED
    BY <2>2 DEF VtIsNow
<1>4. SOk(ioreqs, s, screens[s], kraised, vt'[s], iospace[s].KBDATA, kacc[s], kgot[s])
  BY <1>1, <1>3, ConsFacts, TakeOk DEF l
<1>5. VtSame(s) /\ Fun(kgot') /\ iospace' \in [Screens -> [KBDATA : Nat, DEVSTS : BOOLEAN]]
  BY <1>1, <1>3, ConsFacts DEF VtSame
<1>6. SOk(ioreqs', s, screens[s], kraised', vt'[s], iospace'[s].KBDATA, kacc[s], kgot'[s])
  BY <1>1, <1>4
<1>7. QED
  BY <1>1, <1>3, <1>5, <1>6, ProcessKeeps

LEMMA VtClearKeeps ==
  ASSUME ConsInv, NEW s \in Screens, VtClear(s)
  PROVE  ConsInv'
<1> DEFINE p == vt[s]
<1>1. /\ p.pc = "clear" /\ vt' = [vt EXCEPT ![s].pc = "ask", ![s].evt = FALSE] /\ kraised' = kraised
      /\ ioreqs' = ioreqs /\ kgot' = kgot /\ iospace' = iospace /\ UNCHANGED <<kcount, screens, curscr, kacc>>
  BY DEF VtClear, Unchanged, VtAt
<1>2. VtBecomes(s, VtRec("ask", FALSE, p.cevt, p.clist, p.rd, p.own))
  <2> DEFINE u == "ask"
             v == FALSE
             q == [p EXCEPT !.pc = u, !.evt = v]
  <2>1. vt' = [vt EXCEPT ![s] = q]
    BY <1>1, VtParts DEF Fun
  <2>2. p = VtRec(p.pc, p.evt, p.cevt, p.clist, p.rd, p.own) /\ q = [p EXCEPT !.pc = u, !.evt = v]
    BY VtParts
  <2> HIDE DEF u, v, p, q
  <2>3. q = VtRec(u, v, p.cevt, p.clist, p.rd, p.own)
    BY <2>2 DEF VtRec
  <2>4. QED
    BY <2>1, <2>3 DEF VtBecomes, u, v
<1>3. /\ Fun(vt') /\ VtOk(vt'[s]) /\ vt'[s].pc = "ask" /\ vt'[s].evt = FALSE /\ vt'[s].clist = p.clist /\ vt'[s].own = p.own
      /\ \A x \in Screens : x # s => vt'[x] = vt[x]
  <2>1. "ask" \in Pcs /\ FALSE \in BOOLEAN
    BY VtParts DEF Pcs
  <2>2. VtIsNow(s, "ask", FALSE, p.clist)
    BY <1>2, <2>1, VtStep
  <2>3. QED
    BY <2>2 DEF VtIsNow
<1>4. SOk(ioreqs, s, screens[s], kraised, vt'[s], iospace[s].KBDATA, kacc[s], kgot[s])
  BY <1>1, <1>3, ConsFacts, ClearOk
<1>5. VtSame(s) /\ Fun(kgot') /\ iospace' \in [Screens -> [KBDATA : Nat, DEVSTS : BOOLEAN]]
  BY <1>1, <1>3, ConsFacts DEF VtSame
<1>6. SOk(ioreqs', s, screens[s], kraised', vt'[s], iospace'[s].KBDATA, kacc[s], kgot'[s])
  BY <1>1, <1>4
<1>7. QED
  BY <1>1, <1>3, <1>5, <1>6, ProcessKeeps

LEMMA VtReadKeeps ==
  ASSUME ConsInv, NEW s \in Screens, VtRead(s)
  PROVE  ConsInv'
<1> DEFINE p == vt[s]
           c == IF p.rd = "wait" THEN FALSE ELSE p.cevt
           f == p.clist[1]
           rest == IF f.read + 1 = f.written THEN Tail(p.clist) ELSE [p.clist EXCEPT ![1].read = @ + 1]
           k == f.buf[f.read + 1]
<1>1. /\ p.pc # "closed" /\ kraised' = kraised /\ ioreqs' = ioreqs /\ iospace' = iospace
      /\ UNCHANGED <<kcount, screens, curscr, kacc>>
      /\ \/ p.clist = <<>> /\ vt' = [vt EXCEPT ![s].rd = "wait"] /\ kgot' = kgot
         \/ vt' = vt /\ kgot' = kgot
         \/ /\ p.clist # <<>> /\ vt' = [vt EXCEPT ![s].clist = rest, ![s].cevt = c, ![s].rd = "get"]
            /\ kgot' = [kgot EXCEPT ![s] = Append(@, k)]
  BY DEF VtRead, Unchanged
<1>2. CASE vt' = [vt EXCEPT ![s].rd = "wait"] /\ kgot' = kgot
  <2>1. VtBecomes(s, VtRec(p.pc, p.evt, p.cevt, p.clist, "wait", p.own))
    <3> DEFINE u == "wait"
               q == [p EXCEPT !.rd = u]
    <3>1. vt' = [vt EXCEPT ![s] = q]
      BY <1>2
    <3>2. p = VtRec(p.pc, p.evt, p.cevt, p.clist, p.rd, p.own) /\ q = [p EXCEPT !.rd = u]
      BY VtParts
    <3> HIDE DEF u, p, q
    <3>3. q = VtRec(p.pc, p.evt, p.cevt, p.clist, u, p.own)
      BY <3>2 DEF VtRec
    <3>4. QED
      BY <3>1, <3>3 DEF VtBecomes, u
  <2>2. /\ Fun(vt') /\ VtOk(vt'[s]) /\ vt'[s].pc = p.pc /\ vt'[s].evt = p.evt /\ vt'[s].clist = p.clist /\ vt'[s].own = p.own
        /\ \A x \in Screens : x # s => vt'[x] = vt[x]
    <3> HIDE DEF rest, c, f, k
    <3>1. p.pc \in Pcs /\ p.evt \in BOOLEAN
      BY VtParts DEF Pcs
    <3>2. VtIsNow(s, p.pc, p.evt, p.clist)
      BY <2>1, <3>1, VtStep
    <3>3. QED
      BY <3>2 DEF VtIsNow
  <2>3. SOk(ioreqs, s, screens[s], kraised, vt'[s], iospace[s].KBDATA, kacc[s], kgot[s])
    BY <2>2, ConsFacts, Kept
  <2>4. VtSame(s) /\ Fun(kgot') /\ iospace' \in [Screens -> [KBDATA : Nat, DEVSTS : BOOLEAN]]
    BY <1>1, <1>2, <2>2, ConsFacts DEF VtSame
  <2>5. SOk(ioreqs', s, screens[s], kraised', vt'[s], iospace'[s].KBDATA, kacc[s], kgot'[s])
    BY <1>1, <1>2, <2>3
  <2>6. QED
    BY <1>1, <2>2, <2>4, <2>5, ProcessKeeps
<1>3. CASE vt' = vt /\ kgot' = kgot
  <2>1. VtSame(s) /\ Fun(vt') /\ Fun(kgot') /\ iospace' \in [Screens -> [KBDATA : Nat, DEVSTS : BOOLEAN]]
    BY <1>1, <1>3, ConsFacts DEF VtSame
  <2>2. SOk(ioreqs', s, screens[s], kraised', vt'[s], iospace'[s].KBDATA, kacc[s], kgot'[s])
    BY <1>1, <1>3, ConsFacts
  <2>3. QED
    BY <1>1, <2>1, <2>2, ProcessKeeps
<1>4. CASE /\ p.clist # <<>> /\ vt' = [vt EXCEPT ![s].clist = rest, ![s].cevt = c, ![s].rd = "get"]
           /\ kgot' = [kgot EXCEPT ![s] = Append(@, k)]
  <2>1. VtBecomes(s, VtRec(p.pc, p.evt, c, rest, "get", p.own))
    <3> HIDE DEF rest, c
    <3> DEFINE u == "get"
               q == [p EXCEPT !.clist = rest, !.cevt = c, !.rd = u]
    <3>1. vt' = [vt EXCEPT ![s] = q]
      BY <1>4, VtParts DEF Fun
    <3>2. p = VtRec(p.pc, p.evt, p.cevt, p.clist, p.rd, p.own) /\ q = [p EXCEPT !.clist = rest, !.cevt = c, !.rd = u]
      BY VtParts
    <3> HIDE DEF u, p, q
    <3>3. q = VtRec(p.pc, p.evt, c, rest, u, p.own)
      BY <3>2 DEF VtRec
    <3>4. QED
      BY <3>1, <3>3 DEF VtBecomes, u
  <2>2. /\ Fun(vt') /\ VtOk(vt'[s]) /\ vt'[s].pc = p.pc /\ vt'[s].evt = p.evt /\ vt'[s].clist = rest /\ vt'[s].own = p.own
        /\ \A x \in Screens : x # s => vt'[x] = vt[x]
    <3> HIDE DEF rest, c, f, k
    <3>1. p.pc \in Pcs /\ p.evt \in BOOLEAN
      BY VtParts DEF Pcs
    <3>2. VtIsNow(s, p.pc, p.evt, rest)
      BY <2>1, <3>1, VtStep
    <3>3. QED
      BY <3>2 DEF VtIsNow
  <2>3. SOk(ioreqs, s, screens[s], kraised, vt'[s], iospace[s].KBDATA, kacc[s], Append(kgot[s], k))
    <3>1. PICK q : q = vt'[s]
      OBVIOUS
    <3>2. VtOk(q) /\ q.pc = p.pc /\ q.evt = p.evt /\ q.own = p.own
      BY <2>2, <3>1
    <3>3. q.clist = rest
      BY <2>2, <3>1
    <3>4. SOk(ioreqs, s, screens[s], kraised, p, iospace[s].KBDATA, kacc[s], kgot[s])
      BY ConsFacts
    <3>5. SOk(ioreqs, s, screens[s], kraised, q, iospace[s].KBDATA, kacc[s], Append(kgot[s], k))
      BY <1>1, <1>4, <3>2, <3>3, <3>4, ReadOk
    <3>6. QED
      BY <3>1, <3>5
  <2> HIDE DEF rest, c, k
  <2>4. Fun(kgot') /\ kgot'[s] = Append(kgot[s], k) /\ \A x \in Screens : x # s => kgot'[x] = kgot[x]
    <3> DEFINE v == Append(kgot[s], k)
    <3>1. kgot' = [kgot EXCEPT ![s] = v] /\ Fun(kgot)
      BY <1>4, ConsFacts
    <3> HIDE DEF v
    <3>2. Fun(kgot') /\ kgot'[s] = v /\ \A x \in Screens : x # s => kgot'[x] = kgot[x]
      BY <3>1 DEF Fun
    <3>3. QED
      BY <3>2 DEF v
  <2>5. VtSame(s) /\ iospace' \in [Screens -> [KBDATA : Nat, DEVSTS : BOOLEAN]]
    BY <1>1, <2>2, <2>4, ConsFacts DEF VtSame
  <2>6. SOk(ioreqs', s, screens[s], kraised', vt'[s], iospace'[s].KBDATA, kacc[s], kgot'[s])
    BY <1>1, <2>3, <2>4
  <2>7. QED
    BY <1>1, <2>2, <2>4, <2>5, <2>6, ProcessKeeps
<1>5. QED
  BY <1>1, <1>2, <1>3, <1>4

LEMMA VtReadNothingKeeps ==
  ASSUME ConsInv, NEW s \in Screens, VtReadNothing(s)
  PROVE  ConsInv'
<1> DEFINE p == vt[s]
<1>1. /\ vt' = [vt EXCEPT ![s].rd = "get", ![s].cevt = FALSE] /\ kraised' = kraised
      /\ ioreqs' = ioreqs /\ kgot' = kgot /\ iospace' = iospace /\ UNCHANGED <<kcount, screens, curscr, kacc>>
  BY DEF VtReadNothing, Unchanged
<1>2. VtBecomes(s, VtRec(p.pc, p.evt, FALSE, p.clist, "get", p.own))
  <2> DEFINE u == "get"
             v == FALSE
             q == [p EXCEPT !.rd = u, !.cevt = v]
  <2>1. vt' = [vt EXCEPT ![s] = q]
    BY <1>1, VtParts DEF Fun
  <2>2. p = VtRec(p.pc, p.evt, p.cevt, p.clist, p.rd, p.own) /\ q = [p EXCEPT !.rd = u, !.cevt = v]
    BY VtParts
  <2> HIDE DEF u, v, p, q
  <2>3. q = VtRec(p.pc, p.evt, v, p.clist, u, p.own)
    BY <2>2 DEF VtRec
  <2>4. QED
    BY <2>1, <2>3 DEF VtBecomes, u, v
<1>3. /\ Fun(vt') /\ VtOk(vt'[s]) /\ vt'[s].pc = p.pc /\ vt'[s].evt = p.evt /\ vt'[s].clist = p.clist /\ vt'[s].own = p.own
      /\ \A x \in Screens : x # s => vt'[x] = vt[x]
  <2>1. p.pc \in Pcs /\ p.evt \in BOOLEAN
    BY VtParts DEF Pcs
  <2>2. VtIsNow(s, p.pc, p.evt, p.clist)
    BY <1>2, <2>1, VtStep
  <2>3. QED
    BY <2>2 DEF VtIsNow
<1>4. SOk(ioreqs, s, screens[s], kraised, vt'[s], iospace[s].KBDATA, kacc[s], kgot[s])
  BY <1>3, ConsFacts, Kept
<1>5. VtSame(s) /\ Fun(kgot') /\ iospace' \in [Screens -> [KBDATA : Nat, DEVSTS : BOOLEAN]]
  BY <1>1, <1>3, ConsFacts DEF VtSame
<1>6. SOk(ioreqs', s, screens[s], kraised', vt'[s], iospace'[s].KBDATA, kacc[s], kgot'[s])
  BY <1>1, <1>4
<1>7. QED
  BY <1>1, <1>3, <1>5, <1>6, ProcessKeeps

-----------------------------------------------------------------------------
LEMMA ConsoleInitOk == ConsoleInit => ConsInv
<1> SUFFICES ASSUME ConsoleInit PROVE ConsInv
  OBVIOUS
<1> DEFINE sc == [active |-> FALSE, req |-> FALSE, fpos |-> 0, wpos |-> 0, buf |-> [i \in 0..(KbdBufSize - 1) |-> 0]]
           q == NewVt("closed")
           d == [KBDATA |-> 0, DEVSTS |-> FALSE]
           e == <<>>
<1>1. /\ kcount = 0 /\ curscr = 0 /\ ioreqs = <<>> /\ kraised = {}
      /\ screens = [s \in Screens |-> sc] /\ iospace = [s \in Screens |-> d] /\ vt = [s \in Screens |-> q]
      /\ kacc = [s \in Screens |-> e] /\ kgot = [s \in Screens |-> e]
  BY DEF ConsoleInit
<1>2. ScreenOk(sc) /\ sc.req = FALSE
  <2>1. 0 \in Places /\ [i \in 0..(KbdBufSize - 1) |-> 0] \in [Places -> Nat]
    BY RingFacts DEF Places
  <2>2. sc \in ScreenRec /\ sc.fpos = sc.wpos /\ sc.req = FALSE
    BY <2>1 DEF ScreenRec
  <2> HIDE DEF sc
  <2>3. RingKeys(sc) = <<>> /\ <<>> \in Seq(Keys)
    BY <2>2, RingEmpty
  <2>4. QED
    BY <2>2, <2>3 DEF ScreenOk
<1>3. VtOk(q) /\ q.pc = "closed"
  BY NewVtOk
<1>4. d \in [KBDATA : Nat, DEVSTS : BOOLEAN]
  OBVIOUS
<1> HIDE DEF sc, q, d, e
<1>5. ConsTypes
  <2>1. 0 \in Screens
    BY ConsoleAssumption
  <2>2. ioreqs \in Seq(Reqs)
    BY <1>1
  <2>3. QED
    BY <1>1, <1>4, <2>1, <2>2 DEF ConsTypes, Fun
<1>6. ASSUME NEW s \in Screens PROVE ScreenInv(s)
  <2>1. screens[s] = sc /\ vt[s] = q /\ Len(ioreqs) = 0
    BY <1>1
  <2>2. None(ioreqs, s) /\ CloseLast(ioreqs, s)
    BY <2>1 DEF None, CloseLast
  <2>3. QED
    BY <1>2, <1>3, <2>1, <2>2 DEF ScreenInv, SOk
<1>7. QED
  BY <1>5, <1>6 DEF ConsInv

(* No chunk of a clist is overfull: _clist_add, when the last chunk is     *)
(* full, counts the key in that chunk and writes it past the end of the    *)
(* new one (keyb.c:32), and clist_fetch asserts that this did not happen.  *)
ClistsHold ==
  \A s \in Screens : \A i \in DOMAIN vt[s].clist : vt[s].clist[i].written <= ClistSize

LEMMA ConsoleNextOk == ConsInv /\ ClistsHold' /\ [ConsoleNext]_consVars => ConsInv'
<1> SUFFICES ASSUME ConsInv, ClistsHold', [ConsoleNext]_consVars PROVE ConsInv'
  OBVIOUS
<1>1. CASE UNCHANGED consVars
  <2>1. UNCHANGED <<kcount, curscr, ioreqs, screens, vt, kacc, kgot, iospace, kraised>>
    BY <1>1 DEF consVars
  <2>2. QED
    BY <2>1 DEF ConsInv, ConsTypes, ScreenInv, Fun
<1>2. CASE ConsoleIoAst
  BY <1>2, ConsoleIoAstKeeps
<1>3. ASSUME NEW s \in Screens, KbdIrq(s) \/ VtAsk(s) \/ VtTake(s) \/ VtClear(s) \/ VtRead(s) \/ VtReadNothing(s)
      PROVE  ConsInv'
  <2>1. \A i \in DOMAIN vt'[s].clist : vt'[s].clist[i].written <= ClistSize
    BY DEF ClistsHold
  <2>2. QED
    BY <1>3, <2>1, KbdIrqKeeps, VtAskKeeps, VtTakeKeeps, VtClearKeeps, VtReadKeeps, VtReadNothingKeeps
<1>4. ASSUME NEW c \in ScanCodes, NEW to \in Screens, KbdAst(c, to) PROVE ConsInv'
  BY <1>4, KbdAstKeeps
<1>5. ASSUME NEW s \in Screens, VtdrvInit(s) \/ VtdrvExit(s) \/ \E c \in Screens : Fork(s, c) PROVE ConsInv'
  BY <1>5, VtdrvInitKeeps, VtdrvExitKeeps, ForkKeeps
<1>6. QED
  BY <1>1, <1>2, <1>3, <1>4, <1>5 DEF ConsoleNext, ConsoleStep

LEMMA ConsoleIsSound == ConsInv => ConsoleSound
<1> SUFFICES ASSUME ConsInv, NEW s \in Screens
             PROVE  /\ vt[s].pc # "closed" /\ vt[s].own /\ <<"open", s>> \notin ToSet(ioreqs) =>
                         kacc[s] = kgot[s] \o ClistKeys(vt[s].clist)
                                   \o (IF OnTheWay(s) THEN <<iospace[s].KBDATA>> ELSE <<>>) \o RingKeys(screens[s])
                    /\ vt[s].pc = "wait" /\ vt[s].own => OnTheWay(s) \/ screens[s].req \/ <<"out", s>> \in ToSet(ioreqs)
                    /\ screens[s].req => screens[s].fpos = screens[s].wpos
  BY DEF ConsoleSound, KeysOnce, AskedAnswered
<1>1. /\ SOk(ioreqs, s, screens[s], kraised, vt[s], iospace[s].KBDATA, kacc[s], kgot[s])
      /\ ioreqs \in Seq(Reqs)
  BY ConsFacts
<1>2. /\ Has(ioreqs, "open", s) <=> <<"open", s>> \in ToSet(ioreqs)
      /\ Has(ioreqs, "out", s) <=> <<"out", s>> \in ToSet(ioreqs)
  BY <1>1, QueueHas DEF Ops
<1>3. Way(s, kraised, vt[s], iospace[s].KBDATA) = IF OnTheWay(s) THEN <<iospace[s].KBDATA>> ELSE <<>>
  BY DEF Way, OnTheWay
<1>4. ASSUME vt[s].pc # "closed", vt[s].own, <<"open", s>> \notin ToSet(ioreqs)
      PROVE  kacc[s] = kgot[s] \o ClistKeys(vt[s].clist)
                       \o (IF OnTheWay(s) THEN <<iospace[s].KBDATA>> ELSE <<>>) \o RingKeys(screens[s])
  <2>1. kacc[s] = Word(kgot[s], ClistKeys(vt[s].clist), Way(s, kraised, vt[s], iospace[s].KBDATA), RingKeys(screens[s]))
    BY <1>1, <1>2, <1>4 DEF SOk, OwnKeys
  <2>2. QED
    BY <1>3, <2>1 DEF Word
<1>5. ASSUME vt[s].pc = "wait", vt[s].own
      PROVE  OnTheWay(s) \/ screens[s].req \/ <<"out", s>> \in ToSet(ioreqs)
  <2>1. OneOf(Has(ioreqs, "out", s), screens[s].req, s \in kraised, vt[s].evt)
    BY <1>1, <1>5 DEF SOk, OwnToken
  <2>2. QED
    BY <1>2, <1>5, <2>1 DEF OneOf, OnTheWay
<1>6. screens[s].req => screens[s].fpos = screens[s].wpos
  BY <1>1 DEF SOk, ScreenOk
<1>7. QED
  BY <1>4, <1>5, <1>6

(* As long as no application lets its clist overflow, every key that the   *)
(* keyboard's AST put into a screen's buffer reaches the application of    *)
(* that screen once and in order, and no application waits for a key that  *)
(* nobody will announce (kbdbuf_add, kbdfetch, devsts_kbdata_update,       *)
(* __lwt_vttykbd, clist_fetch).                                            *)
THEOREM ConsoleSoundCorrect == ConsoleSpec /\ []ClistsHold => []ConsoleSound
<1>1. ConsoleInit => ConsInv
  BY ConsoleInitOk
<1>2. ConsInv /\ ClistsHold' /\ [ConsoleNext]_consVars => ConsInv'
  BY ConsoleNextOk
<1>3. ConsInv => ConsoleSound
  BY ConsoleIsSound
<1>4. QED
  BY <1>1, <1>2, <1>3, PTL DEF ConsoleSpec
=============================================================================
