-------------------------------- MODULE Ahci --------------------------------
(***************************************************************************)
(* The AHCI driver, lib/libahci/ahci.c: requests of a process become       *)
(* commands in the slots of a port, and the interrupt AST reports the      *)
(* commands that the HBA has completed.  The HBA, external, runs beside    *)
(* the driver and is modelled by the registers that the driver uses: PxCI, *)
(* PxIS and IS, whose bits are latched while the port's PxIS is set.       *)
(*                                                                         *)
(* The driver's code runs in LWTs, which do not preempt each other, so its *)
(* steps are divided only where a register of the HBA is read or written.  *)
(***************************************************************************)
EXTENDS Integers, SequencesExt, FiniteSetsExt

CONSTANTS APorts,    \* the ports of the HBA
          ASlots,    \* the command slots of a port: 0..31
          AReqs,     \* requests, in the order of their numbers
          APortOf,   \* [request -> port]
          APages,    \* [request -> the sequence of pages of its buffer]
          AIdent     \* the IDENTIFY command of ahci_port_get_blkinfo

Buffers == UNION {ToSet(APages[r]) : r \in AReqs}

ASSUME AhciAssumption ==
  /\ ASlots \subseteq Nat /\ ASlots # {} /\ AIdent \notin AReqs /\ IsFiniteSet(AReqs)
  /\ \A r \in AReqs : APortOf[r] \in APorts /\ APages[r] \in Seq(Nat) /\ APages[r] # <<>>

VARIABLES apc,       \* the driver: [at, ...]
          apst,      \* [port -> "off", "ident", "up" or "down"]
          alast,     \* [port -> lastci]
          acmd,      \* [port -> [slot -> the request of cmd_evt, cmd_retp]]
          aioq,      \* ioq
          aexp,      \* [page -> how often it is exported to the device]
          areq,      \* [request -> "new", "busy", "queued", "failed" or "done"]
          awake,     \* the event of the interrupt is set
          hci,       \* [port -> PxCI]
          hcmd,      \* [port -> [slot -> the command that the HBA has fetched]]
          hpxis,     \* ports with PxIS set
          his,       \* IS
          herr,      \* ports that have stopped at an error
          hran,      \* requests that the HBA has carried out
          hmask      \* the interrupt line is masked by the kernel

ahciVars == <<apc, apst, alast, acmd, aioq, aexp, areq, awake, hci, hcmd, hpxis, his, herr, hran, hmask>>
hba == <<hci, hpxis, his, herr, hran, hmask>>

AhciInit ==
  /\ apc = [at |-> "probe"]
  /\ apst = [i \in APorts |-> "off"] /\ alast = [i \in APorts |-> {}]
  /\ acmd = [i \in APorts |-> [j \in ASlots |-> AIdent]]
  /\ hcmd = acmd /\ hci = [i \in APorts |-> {}]
  /\ aioq = <<>> /\ aexp = [p \in Buffers |-> 0]
  /\ areq = [r \in AReqs |-> "new"]
  /\ awake = FALSE /\ hpxis = {} /\ his = {} /\ herr = {} /\ hran = {} /\ hmask = FALSE

-----------------------------------------------------------------------------
(* ahci_port_get_slot: the lowest slot without a command of ours.          *)
FreeSlots(i) == ASlots \ alast[i]

(* dexport of the pages of ps, one by one, and dunexport of a page, n      *)
(* times: it fails, without effect, when the page is not exported.         *)
Export(e, ps) == [p \in Buffers |-> e[p] + Cardinality({k \in DOMAIN ps : ps[k] = p})]
Unexport(x, n) == IF x > n THEN x - n ELSE 0

(* ahci_port_set_prdt, which exports the pages of the buffer and may fail  *)
(* at page k: it then takes back k - 1 pages from the one that failed on.  *)
SetPrdt(e, ps) == Export(e, ps)
TakenBack(ps, k) == {ps[k] + l - 1 : l \in 1..(k - 1)}
SetPrdtFails(e, ps, k) ==
  LET x == Export(e, SubSeq(ps, 1, k - 1))
  IN  [p \in Buffers |-> IF p \in TakenBack(ps, k) THEN Unexport(x[p], 1) ELSE x[p]]

(* ahci_port_unset_prdt of the requests rs: a dunexport for each page of   *)
(* each buffer, but always of the first page, since addr does not move on. *)
StartingAt(rs, p) == {r \in rs : APages[r][1] = p}
Dunexports(rs, p) == UNION {{r} \X DOMAIN APages[r] : r \in StartingAt(rs, p)}
UnsetPrdt(e, rs) == [p \in Buffers |-> Unexport(e[p], Cardinality(Dunexports(rs, p)))]

-----------------------------------------------------------------------------
(* ahci_port_init: the port is started and asked for its IDENTIFY data, in *)
(* a slot that lastci does not show.                                       *)
PortInit(i) ==
  /\ apc.at = "probe" /\ apst[i] = "off"
  /\ apc' = [at |-> "ident", i |-> i] /\ apst' = [apst EXCEPT ![i] = "ident"]
  /\ hcmd' = [hcmd EXCEPT ![i][Min(FreeSlots(i))] = AIdent]
  /\ hci' = [hci EXCEPT ![i] = @ \cup {Min(FreeSlots(i))}]
  /\ UNCHANGED <<alast, acmd, aioq, aexp, areq, awake, hpxis, his, herr, hran, hmask>>

(* A port without a disk, or whose buffer for the answer is not exported.  *)
PortInitFails(i) ==
  /\ apc.at = "probe" /\ apst[i] = "off"
  /\ apst' = [apst EXCEPT ![i] = "down"]
  /\ UNCHANGED <<apc, alast, acmd, aioq, aexp, areq, awake, hcmd, hba>>

(* ahci_port_get_blkinfo after its evtwait: the disk is added, or the port *)
(* is stopped again, at an error or when there is no memory for its data.  *)
GotBlkinfo ==
  /\ apc.at = "ident" /\ awake
  /\ \E st \in IF apc.i \in herr THEN {"down"} ELSE {"up", "down"} :
       apst' = [apst EXCEPT ![apc.i] = st]
  /\ awake' = FALSE /\ hpxis' = hpxis \ {apc.i} /\ hmask' = FALSE
  /\ apc' = [at |-> "probe"]
  /\ UNCHANGED <<alast, acmd, aioq, aexp, areq, hci, hcmd, his, herr, hran>>

(* blkdrv_ahci_probe has seen every port, and registers __ahci_intr.       *)
ProbeEnd ==
  /\ apc.at = "probe" /\ \A i \in APorts : apst[i] # "off"
  /\ apc' = [at |-> "idle"]
  /\ UNCHANGED <<apst, alast, acmd, aioq, aexp, areq, awake, hcmd, hba>>

-----------------------------------------------------------------------------
(* ahci_port_queue_op for a request r: it is issued in slot j, ...         *)
Queueable(r) ==
  /\ apc.at = "idle" /\ areq[r] = "new" /\ apst[APortOf[r]] = "up"
Issuable(r) == aioq = <<>> /\ FreeSlots(APortOf[r]) # {}
IssueLate(r) ==                  \* mutant: lastci does not show the command
  /\ Queueable(r) /\ Issuable(r)
  /\ LET i == APortOf[r]  j == Min(FreeSlots(i))
     IN  /\ aexp' = SetPrdt(aexp, APages[r])
         /\ acmd' = [acmd EXCEPT ![i][j] = r]
         /\ apc' = [at |-> "issue", i |-> i, j |-> j, ci |-> hci[i]]
  /\ areq' = [areq EXCEPT ![r] = "busy"]
  /\ UNCHANGED <<apst, alast, aioq, awake, hcmd, hba>>
Issue(r) ==
  /\ Queueable(r) /\ Issuable(r)
  /\ LET i == APortOf[r]  j == Min(FreeSlots(i))
     IN  /\ aexp' = SetPrdt(aexp, APages[r])
         /\ alast' = [alast EXCEPT ![i] = @ \cup {j}] /\ acmd' = [acmd EXCEPT ![i][j] = r]
         /\ apc' = [at |-> "issue", i |-> i, j |-> j, ci |-> hci[i]]
  /\ areq' = [areq EXCEPT ![r] = "busy"]
  /\ UNCHANGED <<apst, aioq, awake, hcmd, hba>>

(* ... and PxCI, which was read, is written: a command that the HBA has    *)
(* completed in between is given to it once more.                          *)
IssueWrite ==
  /\ apc.at = "issue"
  /\ hci' = [hci EXCEPT ![apc.i] = @ \cup apc.ci \cup {apc.j}]
  /\ hcmd' = [hcmd EXCEPT ![apc.i] = [j \in ASlots |->
                IF j \in hci'[apc.i] \ hci[apc.i] THEN acmd[apc.i][j] ELSE @[j]]]
  /\ apc' = [at |-> "idle"]
  /\ UNCHANGED <<apst, alast, acmd, aioq, aexp, areq, awake, hpxis, his, herr, hran, hmask>>

(* ... or an export fails, ...                                             *)
IssueFails(r, k) ==
  /\ Queueable(r) /\ Issuable(r) 
  /\ aexp' = SetPrdtFails(aexp, APages[r], k)
  /\ areq' = [areq EXCEPT ![r] = "failed"]
  /\ UNCHANGED <<apc, apst, alast, acmd, aioq, awake, hcmd, hba>>

(* ... or it goes to ioq, from which nothing takes it, if there is memory. *)
Enqueue(r) ==
  /\ Queueable(r) /\ ~Issuable(r)
  /\ aioq' = Append(aioq, r) /\ areq' = [areq EXCEPT ![r] = "queued"]
  /\ UNCHANGED <<apc, apst, alast, acmd, aexp, awake, hcmd, hba>>
EnqueueFails(r) ==
  /\ Queueable(r) /\ ~Issuable(r)
  /\ areq' = [areq EXCEPT ![r] = "failed"]
  /\ UNCHANGED <<apc, apst, alast, acmd, aioq, aexp, awake, hcmd, hba>>

-----------------------------------------------------------------------------
(* __ahci_intr.  For a port with IS set, ahci_port_intr first clears PxIS, *)
AstStart ==
  /\ apc.at = "idle" /\ awake
  /\ apc' = [at |-> "intr"] /\ awake' = FALSE
  /\ UNCHANGED <<apst, alast, acmd, aioq, aexp, areq, hcmd, hba>>
PortIntr(i) ==
  /\ apc.at = "intr" /\ i \in his
  /\ apc' = [at |-> "ci", i |-> i] /\ hpxis' = hpxis \ {i}
  /\ UNCHANGED <<apst, alast, acmd, aioq, aexp, areq, awake, hcmd, hci, his, herr, hran, hmask>>

(* then reports the commands of lastci that PxCI no longer shows, until    *)
(* there are none,                                                         *)
PortDone ==
  /\ apc.at = "ci"
  /\ LET i == apc.i  done == alast[i] \ hci[i]
         rs == {acmd[i][j] : j \in done}
     IN  /\ areq' = [r \in AReqs |-> IF r \in rs THEN "done" ELSE areq[r]]
         /\ aexp' = UnsetPrdt(aexp, rs)
         /\ alast' = IF done = {} THEN alast ELSE [alast EXCEPT ![i] = hci[i]]
         /\ apc' = IF done = {} THEN [at |-> "is", i |-> i] ELSE apc
  /\ UNCHANGED <<apst, acmd, aioq, awake, hcmd, hba>>

(* then clears its bit in IS.                                              *)
ClearIs ==
  /\ apc.at = "is"
  /\ his' = (his \ {apc.i}) \cup hpxis /\ apc' = [at |-> "intr"]
  /\ UNCHANGED <<apst, alast, acmd, aioq, aexp, areq, awake, hci, hcmd, hpxis, herr, hran, hmask>>

(* The loop ends when IS is clear, with the deoi that unmasks the line.    *)
AstEndMasked ==                  \* mutant: no deoi
  /\ apc.at = "intr" /\ his = {}
  /\ apc' = [at |-> "idle"]
  /\ UNCHANGED <<apst, alast, acmd, aioq, aexp, areq, awake, hcmd, hba>>
AstEnd ==
  /\ apc.at = "intr" /\ his = {}
  /\ apc' = [at |-> "idle"] /\ hmask' = FALSE
  /\ UNCHANGED <<apst, alast, acmd, aioq, aexp, areq, awake, hci, hcmd, hpxis, his, herr, hran>>

-----------------------------------------------------------------------------
(* The HBA completes a command, or stops the port at an error, for which   *)
(* ahci_port_intr has no provision.                                        *)
HbaRuns(i, j) ==
  /\ j \in hci[i] /\ i \notin herr
  /\ hci' = [hci EXCEPT ![i] = @ \ {j}] /\ hran' = hran \cup {hcmd[i][j]}
  /\ hpxis' = hpxis \cup {i} /\ his' = his \cup {i}
  /\ UNCHANGED <<apc, apst, alast, acmd, aioq, aexp, areq, awake, hcmd, herr, hmask>>
HbaFails(i) ==
  /\ hci[i] # {} /\ i \notin herr
  /\ herr' = herr \cup {i} /\ hpxis' = hpxis \cup {i} /\ his' = his \cup {i}
  /\ UNCHANGED <<apc, apst, alast, acmd, aioq, aexp, areq, awake, hci, hcmd, hran, hmask>>

(* The kernel masks the line and sets the event of the process.            *)
HbaIrq ==
  /\ his # {} /\ ~hmask
  /\ hmask' = TRUE /\ awake' = TRUE
  /\ UNCHANGED <<apc, apst, alast, acmd, aioq, aexp, areq, hci, hcmd, hpxis, his, herr, hran>>

AhciDriver ==
  \/ \E i \in APorts : PortInit(i) \/ PortIntr(i)
  \/ GotBlkinfo \/ ProbeEnd \/ IssueWrite \/ AstStart \/ PortDone \/ ClearIs \/ AstEnd
AhciHba == HbaIrq \/ \E i \in APorts : \E j \in ASlots : HbaRuns(i, j)
AhciNext ==
  \/ AhciDriver \/ AhciHba
  \/ \E i \in APorts : HbaFails(i) \/ PortInitFails(i)
  \/ \E r \in AReqs : \/ Issue(r) \/ Enqueue(r) \/ EnqueueFails(r)
                       \/ \E k \in DOMAIN APages[r] : IssueFails(r, k)

(* The process and the HBA go on; nobody need make requests, or fail.      *)
AhciFairness == WF_ahciVars(AhciDriver) /\ WF_ahciVars(AhciHba)
AhciSpec == AhciInit /\ [][AhciNext]_ahciVars /\ AhciFairness

-----------------------------------------------------------------------------
(* Type invariant.                                                         *)
AhciTypeOK ==
  /\ apst \in [APorts -> {"off", "ident", "up", "down"}]
  /\ alast \in [APorts -> SUBSET ASlots] /\ hci \in [APorts -> SUBSET ASlots]
  /\ acmd \in [APorts -> [ASlots -> AReqs \cup {AIdent}]]
  /\ hcmd \in [APorts -> [ASlots -> AReqs \cup {AIdent}]]
  /\ aexp \in [Buffers -> Nat] /\ aioq \in Seq(AReqs)
  /\ areq \in [AReqs -> {"new", "busy", "queued", "failed", "done"}]
  /\ hpxis \subseteq APorts /\ his \subseteq APorts

(* A request is reported as done only when the HBA has carried it out, and *)
(* a request that is not has a slot of its own, whatever completes while   *)
(* the driver reads and writes PxCI and lastci.                            *)
ReportedWasDone ==
  /\ \A r \in AReqs : areq[r] = "done" => r \in hran
  /\ \A i \in APorts : \A r \in AReqs : areq[r] = "busy" /\ APortOf[r] = i =>
       \E j \in alast[i] : acmd[i][j] = r

(* The HBA never works on a buffer that is not exported to it, also when   *)
(* PxCI hands it a command a second time.                                  *)
DmaExported ==
  \A i \in APorts : \A j \in hci[i] :
    hcmd[i][j] \in AReqs => \A p \in ToSet(APages[hcmd[i][j]]) : aexp[p] > 0

(* The driver and the HBA agree on what is done and on whose memory.       *)
RequestsSound == ReportedWasDone /\ DmaExported

(* Every request that was issued is reported in the end, unless the port   *)
(* has stopped: no completion is lost between PxIS, PxCI, IS and the mask  *)
(* of the line.                                                            *)
IssuedReported ==
  \A r \in AReqs : (areq[r] = "busy") ~> (areq[r] = "done" \/ APortOf[r] \in herr)
=============================================================================
