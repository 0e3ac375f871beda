------------------------------ MODULE Firmware ------------------------------
(***************************************************************************)
(* What a firmware upgrade promises: the device always has a whole release *)
(* to run.  A release is staged, and then replaces the one it ran before;  *)
(* no power loss is visible.                                               *)
(***************************************************************************)
CONSTANTS
  Releases,    \* the firmware releases
  None         \* no release

VARIABLES
  fw,          \* the release that the device runs, or will run after a boot
  staged       \* the release waiting to be installed

fwVars == <<fw, staged>>

Init ==
  /\ fw \in Releases
  /\ staged = None

\* A download is complete and verified.
Stage(r) ==
  /\ staged = None
  /\ staged' = r
  /\ UNCHANGED fw

Install ==
  /\ staged # None
  /\ fw' = staged
  /\ UNCHANGED staged

\* The upgrade is recorded as done.
Finish ==
  /\ staged = fw
  /\ staged' = None
  /\ UNCHANGED fw

Next ==
  \/ \E r \in Releases : Stage(r)
  \/ Install
  \/ Finish

\* A staged release is installed, and the upgrade ends.
Spec == Init /\ [][Next]_fwVars /\ WF_fwVars(Install) /\ WF_fwVars(Finish)

=============================================================================
