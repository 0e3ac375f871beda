------------------------------ MODULE NvStore ------------------------------
(***************************************************************************)
(* What the non-volatile data store of components/fs/nvds promises: a      *)
(* fixed set of fields, each written atomically.  A power loss during a    *)
(* write leaves the old or the new content, and no other field changes.    *)
(***************************************************************************)
CONSTANTS
  Fields,    \* the fields of the store
  Values,    \* the values of a field
  None       \* an erased field

VARIABLES
  mem,       \* the content of every field
  pend,      \* the write in progress
  up         \* has ln_nvds_init returned since the last power-up?

nvVars == <<mem, pend, up>>

NoWrite == [field |-> None, val |-> None]

Writes == [field : Fields, val : Values]

Init ==
  /\ mem = [f \in Fields |-> None]
  /\ pend = NoWrite
  /\ up = FALSE

\* ln_nvds_init returns, the first time after writing the version field.
Boot ==
  /\ ~up
  /\ up' = TRUE
  /\ pend' = NoWrite
  /\ UNCHANGED mem

Begin(w) ==
  /\ pend = NoWrite
  /\ pend' = w
  /\ UNCHANGED <<mem, up>>

Commit ==
  /\ pend # NoWrite
  /\ mem' = [mem EXCEPT ![pend.field] = pend.val]
  /\ pend' \in {pend, NoWrite}
  /\ up' \in {up, TRUE}

End ==
  /\ pend # NoWrite
  /\ mem[pend.field] = pend.val
  /\ pend' = NoWrite
  /\ up' = TRUE
  /\ UNCHANGED mem

PowerLoss ==
  /\ pend' = NoWrite
  /\ up' = FALSE
  /\ UNCHANGED mem

Next ==
  \/ Boot
  \/ \E w \in Writes : Begin(w)
  \/ Commit
  \/ End
  \/ PowerLoss

Spec == Init /\ [][Next]_nvVars

=============================================================================
