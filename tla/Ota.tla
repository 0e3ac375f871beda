-------------------------------- MODULE Ota --------------------------------
(***************************************************************************)
(* The upgrade as a whole: the boot agent and the downloader share the     *)
(* flash and the upgrade state, take turns across resets, and power may be *)
(* lost at any moment.                                                     *)
(***************************************************************************)
EXTENDS OtaAgent, OtaDownload

CONSTANTS
  Factory,      \* the release the device is delivered with
  MaxLosses     \* bound: power losses

ASSUME OtaAssumption ==
  /\ Factory \in Releases
  /\ OrigSize[Factory] + 1 <= AppSectors * Sector
  /\ MaxLosses \in Nat

VARIABLE losses \* power losses so far

otaVars == <<flash, upg, agentVars, dlVars, losses>>

Init ==
  /\ flash = [a \in Addr |->
                IF a <= OrigSize[Factory] THEN Unit(Factory, "orig", a)
                ELSE IF a < OtaEnd THEN Blank ELSE Foreign]
  /\ upg = "unset"
  /\ pc = "boot"
  /\ done = 0
  /\ DlInit
  /\ losses = 0

\* The bootloader runs.
Agent == AgentNext /\ UNCHANGED <<dlVars, losses>>

\* The application runs.
Download ==
  /\ pc = "app"
  /\ DlNext
  /\ UNCHANGED <<agentVars, losses>>

\* The end of http_ota_entry for an accepted image: update_ota_state (atomic:
\* see NvStore) and ln_chip_reboot.
Reboot ==
  /\ pc = "app"
  /\ dl = "leave"
  /\ Accepted
  /\ upg' = "download_ok"
  /\ Goto("boot")
  /\ DlReset
  /\ UNCHANGED <<flash, losses>>

\* ln_at_exec_ble_fw_start sets the idle register and resets; main() of the
\* bootloader finds the register set and jumps to the image of the OTA
\* partition, unchecked.  The register outlives a reset and not a power loss.
BleStart ==
  /\ pc = "app"
  /\ dl # "overrun"
  /\ Goto("ble")
  /\ DlReset
  /\ UNCHANGED <<flash, upg, losses>>

\* Power is lost, and comes back; a reset loses nothing more.
PowerLoss ==
  /\ losses < MaxLosses
  /\ dl # "overrun"
  /\ losses' = losses + 1
  /\ flash' \in IF pc = "app" THEN DlTorn ELSE AgentTorn
  /\ Goto("boot")
  /\ DlReset
  /\ UNCHANGED upg

Next ==
  \/ Agent
  \/ Download
  \/ Reboot
  \/ BleStart
  \/ PowerLoss

\* The bootloader runs to its end unless power is lost.
Spec == Init /\ [][Next]_otaVars /\ WF_otaVars(Agent)

----------------------------------------------------------------------------
(* Properties *)

TypeOK ==
  /\ flash \in [Addr -> Cell]
  /\ upg \in {"unset", "download_ok", "restore_ok"}
  /\ pc \in Pc
  /\ done \in 0 .. AppSectors * Sector
  /\ dl \in DlPc
  /\ {started, precheck, ready} \subseteq BOOLEAN
  /\ buf \in [0 .. Sector - 1 -> Cell]
  /\ boff \in 0 .. Sector
  /\ foff \in 0 .. FlashSize
  /\ file \in Files \cup {NoFile}
  /\ pos \in Nat
  /\ recv \in -1 .. 1
  /\ losses \in 0 .. MaxLosses

\* The agent erases the application before it writes the new one
\* (ota_agent.c:281, 325, 331), so at every moment either the application is
\* whole or the upgrade state leads the next boot to a whole image of a type
\* that restore_image can install.
Bootable ==
  \/ AppOk
  \/ upg = "download_ok" /\ OtaOk /\ OtaHeader.form \in {"orig", "xz"}

\* jump_to_app is reached without a check of the application unless an
\* upgrade is pending (ota_agent.c:249, 269): it is whole all the same.
RunsWholeApp == pc = "app" => AppOk

\* However the stream is cut into chunks, whatever an earlier attempt left in
\* temp4K_buf, and whether the final callback comes or the peer closes: every
\* unit counted as received is in its place in the OTA partition or waits in
\* the buffer, and only the final callback empties the buffer.
StreamInOrder ==
  dl = "recv" \/ (dl = "ret" /\ recv > 0) =>
    \A i \in 0 .. pos - 1 :
      \/ flash[OtaOff + i] = Chunk(i)
      \/ i - foff \in 0 .. boff - 1 /\ buf[i - foff] = Chunk(i)

\* A download leaves its partition only where ota_download_precheck does not
\* look (ln_at_cmd_ota.c:83): with an uncompressed image, which is measured
\* against the APP partition, or with a file of exactly the size of the
\* partition, behind which ota_persistent_finish saves one more sector (:187).
OverrunsOnlyUnchecked ==
  dl = "overrun" => file.form = "orig" \/ FileLen(file) = OtaSectors * Sector

\* The release that is staged, and the one that the next boot runs.
Staged == IF upg = "download_ok" /\ OtaOk THEN OtaHeader.rel ELSE None
Running == IF AppOk THEN AppHeader.rel ELSE Staged

F == INSTANCE Firmware WITH fw <- Running, staged <- Staged

\* Upgrade and power losses together look like an atomic change of release:
\* only a whole downloaded release ever replaces the one that runs, and a
\* staged release is installed.
UpgradeIsAtomic == F!Spec

\* After every reset the application is reached.
BootsToApp == pc = "boot" ~> pc = "app"

=============================================================================
