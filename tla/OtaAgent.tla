------------------------------ MODULE OtaAgent ------------------------------
(***************************************************************************)
(* The upgrade agent of the bootloader, components/fota/ota_agent/         *)
(* ota_agent.c, run by main() of project/bootcode/bootload after every     *)
(* reset: it starts the application, after installing a downloaded image   *)
(* if the upgrade state asks for it.  The agent returns only on an error,  *)
(* and main() then loops forever.                                          *)
(***************************************************************************)
EXTENDS OtaFlash

VARIABLES
  pc,      \* where the processor is
  done     \* units of the current erase or copy that are done

agentVars == <<pc, done>>

AgentPc == {"boot", "erase", "header", "copy", "verify", "set"}
Pc == AgentPc \cup {"app", "ble", "halt"}

\* The headers that verify_total_img_partition has read.
AppHeader == flash[AppOff]
OtaHeader == flash[OtaOff]

Goto(l) == pc' = l /\ done' = 0

\* Version, size and checksum: is the image of the OTA partition the one
\* that the application was restored from?
SameImage ==
  /\ Ver[AppHeader.rel] = Ver[OtaHeader.rel]
  /\ OrigSize[AppHeader.rel] = OrigSize[OtaHeader.rel]
  /\ AppHeader.rel = OtaHeader.rel

\* ota_boot_upgrade_agent up to the first change of the flash.
AgentStart ==
  /\ pc = "boot"
  /\ CASE upg # "download_ok"            -> Goto("app")
       [] upg = "download_ok" /\ ~OtaOk -> Goto(IF AppOk THEN "app" ELSE "halt")
       [] upg = "download_ok" /\ OtaOk  -> Goto(IF AppOk /\ SameImage THEN "set" ELSE "erase")
  /\ UNCHANGED <<flash, upg>>

\* Mutant: the last sector of the partition is left out.
EraseShort ==
  /\ pc = "erase"
  /\ flash' = Erased(flash, AppOff + done)
  /\ IF done + Sector < (AppSectors - 1) * Sector
     THEN done' = done + Sector /\ UNCHANGED pc
     ELSE Goto(IF OtaHeader.form \in {"orig", "xz"} THEN "header" ELSE "halt")
  /\ UNCHANGED upg

\* Mutant: the upgrade is recorded as done when the erase starts.
EraseRecordedFirst ==
  /\ pc = "erase"
  /\ flash' = Erased(flash, AppOff + done)
  /\ IF done + Sector < AppSectors * Sector
     THEN done' = done + Sector /\ UNCHANGED pc
     ELSE Goto(IF OtaHeader.form \in {"orig", "xz"} THEN "header" ELSE "halt")
  /\ upg' = "restore_ok"

\* Erase the APP partition, in ascending order; restore_image then refuses
\* the types it cannot restore.
AgentErase ==
  /\ pc = "erase"
  /\ flash' = Erased(flash, AppOff + done)
  /\ IF done + Sector < AppSectors * Sector
     THEN done' = done + Sector /\ UNCHANGED pc
     ELSE Goto(IF OtaHeader.form \in {"orig", "xz"} THEN "header" ELSE "halt")
  /\ UNCHANGED upg

\* restore_image writes the header first, that of a compressed image with
\* the type of the decompressed one.
AgentHeader ==
  /\ pc = "header"
  /\ flash' = Programmed(flash, AppOff, [i \in {0} |-> Unit(OtaHeader.rel, "orig", 0)])
  /\ pc' = "copy"
  /\ done' = 1
  /\ UNCHANGED upg

\* Mutant: the body is read without skipping the header of the OTA image.
RestoredShifted(i) ==
  IF OtaHeader.form = "orig" THEN flash[OtaOff + i - 1] ELSE Unit(OtaHeader.rel, "orig", i)

\* Unit i of the restored image: a copy (orig_image_do_restore), or what the
\* decompression yields (xz_image_do_restore) of the stream just verified.
Restored(i) ==
  IF OtaHeader.form = "orig" THEN flash[OtaOff + i] ELSE Unit(OtaHeader.rel, "orig", i)

AgentCopy ==
  /\ pc = "copy"
  /\ IF done <= OrigSize[OtaHeader.rel]
     THEN /\ flash' = Programmed(flash, AppOff + done, [i \in {0} |-> Restored(done)])
          /\ done' = done + 1
          /\ UNCHANGED pc
     ELSE Goto("verify") /\ UNCHANGED flash
  /\ UNCHANGED upg

\* The restored application is verified before the state is changed.
AgentVerify ==
  /\ pc = "verify"
  /\ Goto(IF AppOk THEN "set" ELSE "halt")
  /\ UNCHANGED <<flash, upg>>

\* upg_state_set (atomic: see NvStore) and the jump to the application.
AgentSet ==
  /\ pc = "set"
  /\ upg' = "restore_ok"
  /\ Goto("app")
  /\ UNCHANGED flash

\* What a power loss can leave of the flash while the agent is at work.
AgentTorn ==
  {flash} \cup
  CASE pc = "erase" -> {[b \in Addr |-> IF b \in SectorOf(AppOff + done) THEN Junk ELSE flash[b]]}
    [] pc = "header" -> {[flash EXCEPT ![AppOff] = Junk]}
    [] pc = "copy" /\ done <= OrigSize[OtaHeader.rel] -> {[flash EXCEPT ![AppOff + done] = Junk]}
    [] OTHER -> {}

AgentNext ==
  \/ AgentStart
  \/ AgentErase
  \/ AgentHeader
  \/ AgentCopy
  \/ AgentVerify
  \/ AgentSet

=============================================================================
