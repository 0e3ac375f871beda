------------------------------- MODULE LnNvds ------------------------------
(***************************************************************************)
(* The non-volatile data store of components/fs/nvds/ln_nvds.c: two copies *)
(* of the data in two flash sectors, and a third sector whose flag says    *)
(* which copy is valid.  A write fills the other sector, erases the flag   *)
(* and programs the new one.                                               *)
(*                                                                         *)
(* Every action makes one write to flash; a power loss may hit between any *)
(* two of them and may tear the one in progress.  There is no lock in the  *)
(* code: calls are taken to be serialised by the callers.                  *)
(***************************************************************************)
EXTENDS Naturals

CONSTANTS
  NField,     \* the fields, in the order of their offsets; field 1 is the
              \* version string
  Values,     \* the values of a field
  Version,    \* NV0_NVDS_VERSION_STR
  None,       \* an erased field (NVDS_NONE_TAG)
  Garbage     \* a field whose write was torn

ASSUME NvAssumption ==
  /\ NField \in Nat \ {0}
  /\ Version \in Values
  /\ None \notin Values
  /\ Garbage \notin Values \cup {None}

Fields == 1 .. NField
Sects == {1, 2}
Content == Values \cup {None, Garbage}

VARIABLES
  data,       \* flash: the fields of each sector
  magic,      \* flash: the sectors with NVDS_SECT_MAGIC_CODE
  flag,       \* flash: the valid sector, 0 if the flag is erased or torn
  pc,         \* where the code is
  job         \* the write in progress: field, value, target, cursor

vars == <<data, magic, flag, pc, job>>

Blank == [f \in Fields |-> None]
NoJob == [field |-> None, val |-> None, tgt |-> 1, at |-> 1]

\* The sector ln_nvds_read takes the data from: the flagged one, or sector 2
\* if there is no flag and sector 2 has its magic code; 0 if it fails.
ValidSect == IF flag \in Sects THEN flag ELSE IF 2 \in magic THEN 2 ELSE 0

Readable == ValidSect # 0

\* A virgin partition: no flag and no magic code, any bytes elsewhere.
Init ==
  /\ data \in [Sects -> {Blank, [f \in Fields |-> Garbage]}]
  /\ magic = {}
  /\ flag = 0
  /\ pc = "down"
  /\ job = NoJob

\* The head of ln_nvds_write: the sector that is not in use is the target.
StartWrite(f, v) ==
  /\ job' = [field |-> f, val |-> v, tgt |-> IF flag = 1 THEN 2 ELSE 1, at |-> 1]
  /\ pc' = "erase"

\* ln_nvds_init: a readable store is left alone.
InitReadable ==
  /\ pc = "down"
  /\ Readable
  /\ pc' = "idle"
  /\ UNCHANGED <<data, magic, flag, job>>

\* Otherwise the three sectors are erased one by one ...
InitWipe ==
  /\ \/ pc = "down" /\ ~Readable
     \/ pc = "wipe"
  /\ LET s == IF pc = "down" THEN 1 ELSE 2 IN
       /\ data' = [data EXCEPT ![s] = Blank]
       /\ magic' = magic \ {s}
       /\ pc' = IF s = 1 THEN "wipe" ELSE "wipeFlag"
  /\ UNCHANGED <<flag, job>>

\* ... and the version string is written.
InitFormat ==
  /\ pc = "wipeFlag"
  /\ flag' = 0
  /\ job' = [field |-> 1, val |-> Version, tgt |-> 1, at |-> 1]
  /\ pc' = "erase"
  /\ UNCHANGED <<data, magic>>

\* The set functions: nothing is written when the field has the value.
Set(f, v) ==
  /\ pc = "idle"
  /\ ~(Readable /\ data[ValidSect][f] = v)
  /\ StartWrite(f, v)
  /\ UNCHANGED <<data, magic, flag>>

Source == 3 - job.tgt

EraseTarget ==
  /\ pc = "erase"
  /\ data' = [data EXCEPT ![job.tgt] = Blank]
  /\ magic' = magic \ {job.tgt}
  /\ pc' = "mark"
  /\ UNCHANGED <<flag, job>>

\* Mutant of MarkTarget: the magic code is not written.
MarkTargetSkipped ==
  /\ pc = "mark"
  /\ pc' = "fill"
  /\ UNCHANGED <<data, magic, flag, job>>

MarkTarget ==
  /\ pc = "mark"
  /\ magic' = magic \cup {job.tgt}
  /\ pc' = "fill"
  /\ UNCHANGED <<data, flag, job>>

\* The fields in front of the written one are copied, then the new value is
\* programmed, then the rest is copied; erased bytes are left erased.
NewContent(f) == IF f = job.field THEN job.val ELSE data[Source][f]

Fill ==
  /\ pc = "fill"
  /\ job.at \in Fields
  /\ data' = [data EXCEPT ![job.tgt][job.at] = NewContent(job.at)]
  /\ job' = [job EXCEPT !.at = @ + 1]
  /\ UNCHANGED <<magic, flag, pc>>

\* Mutant of EraseFlag: the copy loop stops one field early.
EraseFlagEarly ==
  /\ pc = "fill"
  /\ job.at >= NField
  /\ flag' = 0
  /\ pc' = "flag"
  /\ UNCHANGED <<data, magic, job>>

EraseFlag ==
  /\ pc = "fill"
  /\ job.at > NField
  /\ flag' = 0
  /\ pc' = "flag"
  /\ UNCHANGED <<data, magic, job>>

SetFlag ==
  /\ pc = "flag"
  /\ flag' = job.tgt
  /\ pc' = "idle"
  /\ job' = NoJob
  /\ UNCHANGED <<data, magic>>

\* A torn field reads as garbage; a torn flag or magic code as none.
PowerLoss ==
  /\ pc # "down"
  /\ \/ UNCHANGED data
     \/ /\ pc = "fill" /\ job.at \in Fields
        /\ data' = [data EXCEPT ![job.tgt][job.at] = Garbage]
  /\ pc' = "down"
  /\ job' = NoJob
  /\ UNCHANGED <<magic, flag>>

Next ==
  \/ InitReadable \/ InitWipe \/ InitFormat
  \/ \E f \in Fields, v \in Values : Set(f, v)
  \/ EraseTarget \/ MarkTarget \/ Fill \/ EraseFlag \/ SetFlag
  \/ PowerLoss

Spec == Init /\ [][Next]_vars

----------------------------------------------------------------------------
(* Properties *)

Pcs == {"down", "wipe", "wipeFlag", "idle", "erase", "mark", "fill", "flag"}

\* Every variable keeps its type: the copy loop stays inside the sector.
TypeOK ==
  /\ data \in [Sects -> [Fields -> Content]]
  /\ magic \subseteq Sects
  /\ flag \in {0} \cup Sects
  /\ pc \in Pcs
  /\ job \in [field : Fields, val : Values, tgt : Sects, at : 1 .. NField + 1]
            \cup {NoJob}

\* The content ln_nvds_read would return.
Memory == IF Readable THEN data[ValidSect] ELSE Blank

\* Is ln_nvds_init over?  Its own write is the first one, with no data yet.
Up == pc = "idle" \/ (pc \in {"erase", "mark", "fill", "flag"} /\ Readable)

abstract == INSTANCE NvStore
              WITH mem <- Memory, up <- Up,
                   pend <- [field |-> job.field, val |-> job.val]

\* A write of the store is atomic whatever power losses interrupt it: the
\* content changes at once, in one field, and only by a pending write.
AtomicWrites == abstract!Spec

\* A torn field can never be read: what is read is intact in every state, the
\* middle of a write and of a reboot included.
NeverGarbage == \A f \in Fields : Memory[f] # Garbage

\* Once data can be read it can be read for ever: no power loss makes
\* ln_nvds_init wipe the store.
StaysReadable == [][Readable => Readable']_vars

----------------------------------------------------------------------------
(* The inductive invariant behind the three properties *)

\* Before the flag is touched the target is the sector that is not valid and
\* the content comes from the valid one, or there is no content yet.
Writing ==
  pc \in {"erase", "mark", "fill"} =>
    /\ job.tgt = IF flag = 1 THEN 2 ELSE 1
    /\ Readable \/ data[2] = Blank
    /\ pc # "fill" => job.at = 1

\* How far the target is filled.
Filled ==
  /\ pc = "fill" => /\ job.tgt \in magic
                    /\ \A f \in Fields : f < job.at => data[job.tgt][f] = NewContent(f)
  /\ pc = "flag" => /\ job.tgt \in magic
                    /\ \A f \in Fields : data[job.tgt][f] = NewContent(f)
                    /\ flag = 0
                    /\ Readable \/ data[2] = Blank

\* What ln_nvds_write and ln_nvds_init keep true between any two writes to
\* flash: the flagged sector is complete, and a half-written one is never the
\* one that ln_nvds_read would take.
NvInv ==
  /\ TypeOK
  /\ NeverGarbage
  /\ flag = 2 => 2 \in magic
  /\ job = NoJob <=> pc \in {"down", "wipe", "wipeFlag", "idle"}
  /\ pc = "idle" => Readable
  /\ pc \in {"wipe", "wipeFlag"} => ~Readable
  /\ pc = "wipeFlag" => data[2] = Blank
  /\ Writing
  /\ Filled

=============================================================================
