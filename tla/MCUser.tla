------------------------------ MODULE MCUser --------------------------------
(* Parts of the user-level system for TLC: LWTs, events, the kernel log    *)
(* and its reader, the disk driver, block devices, the locks of the rump   *)
(* kernel, the console, the windows and the terminal emulator.  They share *)
(* no state: a behaviour is one of one part, chosen at the start; the      *)
(* others stay in their initial states.                                    *)
EXTENDS Lwt, Klog, Ahci, Blk, Rump, Console, Vt100, TLC

VARIABLE part

userVars == <<part, lwtVars, evtVars, klogVars, ahciVars, blkVars, rumpVars,
            consVars, windowVars, vtVars>>

UserInit ==
  /\ part \in {"lwt", "evt", "klog", "ahci", "blk", "rump", "console", "window", "vt"}
  /\ LwtInit /\ EvtInit /\ KlogInit /\ AhciInit /\ BlkInit
  /\ RumpInit /\ ConsoleInit /\ WindowInit /\ VtInit
  /\ part # "rump" => ruse = "mutex"
  /\ part # "window" => win.y1 = 0

(* The variables of the parts that do not run stay as they are.            *)
Still ==
  /\ UNCHANGED part
  /\ IF part \in {"lwt"} THEN TRUE ELSE UNCHANGED lwtVars
  /\ IF part \in {"evt"} THEN TRUE ELSE UNCHANGED evtVars
  /\ IF part \in {"klog"} THEN TRUE ELSE UNCHANGED klogVars
  /\ IF part \in {"ahci"} THEN TRUE ELSE UNCHANGED ahciVars
  /\ IF part \in {"blk"} THEN TRUE ELSE UNCHANGED blkVars
  /\ IF part \in {"rump"} THEN TRUE ELSE UNCHANGED rumpVars
  /\ IF part \in {"console"} THEN TRUE ELSE UNCHANGED consVars
  /\ IF part \in {"window"} THEN TRUE ELSE UNCHANGED windowVars
  /\ IF part \in {"vt"} THEN TRUE ELSE UNCHANGED vtVars

UserNext ==
  \/ part = "lwt" /\ LwtNext /\ Still
  \/ part = "evt" /\ EvtNext /\ Still
  \/ part = "klog" /\ KlogNext /\ Still
  \/ part = "ahci" /\ AhciNext /\ Still
  \/ part = "blk" /\ BlkNext /\ Still
  \/ part = "rump" /\ RumpNext /\ Still
  \/ part = "console" /\ ConsoleNext /\ Still
  \/ part = "window" /\ WindowNext /\ Still
  \/ part = "vt" /\ VtNext /\ Still

UserSpec == UserInit /\ [][UserNext]_userVars

-----------------------------------------------------------------------------
(* A request for three pages, and two for parts of one page, to one port.  *)
OnePort == [r \in AReqs |-> 0]
RequestPages == [r \in AReqs |-> IF r = 1 THEN <<1, 2, 3>> ELSE <<5>>]

(* Type invariant of the part that runs.                                   *)
UserTypeOK ==
  CASE part = "lwt" -> LwtTypeOK
    [] part = "evt" -> EvtTypeOK
    [] part = "klog" -> KlogTypeOK
    [] part = "ahci" -> AhciTypeOK
    [] part = "blk" -> BlkTypeOK
    [] part = "rump" -> RumpTypeOK
    [] part = "console" -> ConsoleTypeOK
    [] part = "window" -> WindowTypeOK
    [] part = "vt" -> VtTypeOK
=============================================================================
