---------------------------- MODULE OtaDownload ----------------------------
(***************************************************************************)
(* The HTTP downloader of the application,                                 *)
(* components/ln_at_cmd/ota/ln_at_cmd_ota.c: the AT command starts a task  *)
(* that fetches a file, saves it sector by sector in the OTA partition,    *)
(* verifies it, sets the upgrade state and reboots.  http_get_with_callback*)
(* (httpsclient.c) feeds it chunks of the file and returns the number of   *)
(* bytes received, or -1 after an error.                                   *)
(***************************************************************************)
EXTENDS OtaFlash

CONSTANTS
  Files,       \* what the server may answer: [rel, form] records
  PageSize,    \* units of an HTTP error page
  MaxChunk     \* units handed over at once (the 2 KB receive buffer)

ASSUME DownloadAssumption ==
  /\ Files \subseteq [rel : Releases, form : Forms]
  /\ PageSize \in Nat \ {0}
  /\ MaxChunk \in 1 .. Sector

VARIABLES
  dl,          \* where the task http_ota_entry is
  started,     \* httpc_ota_started
  buf,         \* temp4K_buf
  boff,        \* temp4k_offset
  foff,        \* flash_ota_offset
  precheck,    \* is_precheck_ok
  ready,       \* is_ready_to_verify
  file,        \* the file being received
  pos,         \* units of it received
  recv         \* the sign of recv_total

dlVars == <<dl, started, buf, boff, foff, precheck, ready, file, pos, recv>>

\* "overrun": a sector behind the OTA partition has been written.  The NVDS
\* is there, with the upgrade state in it; what the device does from then on
\* depends on image bytes read as settings, and the model ends.
DlPc == {"none", "connect", "recv", "ret", "leave", "overrun"}

\* Units of a file: an image is a header unit and its body.
FileLen(f) == IF f.form = "page" THEN PageSize ELSE 1 + BodySize(f.rel, f.form)

NoFile == [rel |-> None, form |-> "none"]
ZeroBuf == [i \in 0 .. Sector - 1 |-> Zero]

\* The statics after a reset.
DlReset ==
  /\ dl' = "none"
  /\ started' = FALSE
  /\ buf' = ZeroBuf
  /\ boff' = 0
  /\ foff' = 0
  /\ precheck' = FALSE
  /\ ready' = FALSE
  /\ file' = NoFile
  /\ pos' = 0
  /\ recv' = 0

DlInit ==
  /\ dl = "none"
  /\ started = FALSE
  /\ buf = ZeroBuf
  /\ boff = 0
  /\ foff = 0
  /\ precheck = FALSE
  /\ ready = FALSE
  /\ file = NoFile
  /\ pos = 0
  /\ recv = 0

\* Mutant: the size of the compressed image is not looked at.
PrecheckAnySize(h) ==
  /\ h.form \in {"orig", "xz"}
  /\ h.k = 0
  /\ Ver[h.rel] # Ver[flash[AppOff].rel]
  /\ OrigSize[h.rel] + 1 <= AppSectors * Sector

\* Mutant: every image type is let through.
PrecheckAnyType(h) ==
  /\ h.form \in ImageForms
  /\ h.k = 0
  /\ Ver[h.rel] # Ver[flash[AppOff].rel]
  /\ OrigSize[h.rel] + 1 <= AppSectors * Sector
  /\ XzSize[h.rel] + 1 <= OtaSectors * Sector

\* ota_download_precheck of the header in the first sector.  The size of the
\* compressed image is checked whatever the type of the image is, and the
\* size of an uncompressed one against the APP partition only.
Precheck(h) ==
  /\ h.form \in {"orig", "xz"}
  /\ h.k = 0
  /\ Ver[h.rel] # Ver[flash[AppOff].rel]
  /\ OrigSize[h.rel] + 1 <= AppSectors * Sector
  /\ XzSize[h.rel] + 1 <= OtaSectors * Sector

\* ln_at_set_http_ota: the command is refused while the flag is set; an error
\* in its parameters leaves the flag set and creates no task.
AtHttpOta ==
  /\ ~started
  /\ started' = TRUE
  /\ dl' \in {"connect", "none"}
  /\ UNCHANGED <<flash, upg, buf, boff, foff, precheck, ready, file, pos, recv>>

\* ota_persistent_start, and a connection to a server that answers with f.
\* The buffer keeps what an earlier attempt left in it.
Connect(f) ==
  /\ dl = "connect"
  /\ boff' = 0
  /\ foff' = 0
  /\ file' = f
  /\ pos' = 0
  /\ dl' = "recv"
  /\ UNCHANGED <<flash, upg, started, buf, precheck, ready, recv>>

\* http_get_with_callback returns before it has received anything: -1, or 0
\* for a URL that it cannot parse.  An allocation that fails is retried too.
ConnectFails(r) ==
  /\ dl = "connect"
  /\ boff' = 0
  /\ foff' = 0
  /\ recv' = r
  /\ dl' = "ret"
  /\ UNCHANGED <<flash, upg, started, buf, precheck, ready, file, pos>>

\* The chunk of c units at pos, and the buffer with its first n units copied in.
Chunk(i) == Unit(file.rel, file.form, i)
Filled(n) ==
  [i \in 0 .. Sector - 1 |-> IF i \in boff .. boff + n - 1 THEN Chunk(pos + i - boff) ELSE buf[i]]

\* ota_persistent_write of a chunk that does not fill the buffer.
Buffered(c) ==
  /\ boff + c < Sector
  /\ buf' = Filled(c)
  /\ boff' = boff + c
  /\ pos' = pos + c
  /\ UNCHANGED <<flash, foff, precheck, dl, recv>>

\* It fills the buffer, the first one is checked and refused: the callback
\* and then http_get_with_callback return -1.
Refused(c) ==
  /\ boff + c >= Sector
  /\ foff = 0
  /\ ~Precheck(Filled(Sector - boff)[0])
  /\ buf' = Filled(Sector - boff)
  /\ boff' = Sector
  /\ precheck' = FALSE
  /\ recv' = -1
  /\ dl' = "ret"
  /\ UNCHANGED <<flash, foff, pos>>

\* It fills the buffer, which is saved; the rest of the chunk starts the next.
Saves(c) ==
  /\ boff + c >= Sector
  /\ foff = 0 => Precheck(Filled(Sector - boff)[0])

\* hal_flash_erase and hal_flash_program of the buffer at flash_ota_offset;
\* whether the sector is one of the OTA partition is not asked.
Save(data) == flash' = Programmed(Erased(flash, OtaOff + foff), OtaOff + foff, data)
InPartition == OtaOff + foff < OtaEnd

\* Mutant: the part of the chunk behind the end of the sector is dropped.
SavedRestLost(c) ==
  /\ Saves(c)
  /\ precheck' = (foff = 0 \/ precheck)
  /\ Save(Filled(Sector - boff))
  /\ dl' = IF InPartition THEN dl ELSE "overrun"
  /\ foff' = foff + Sector
  /\ buf' = ZeroBuf
  /\ boff' = 0
  /\ pos' = pos + c
  /\ UNCHANGED recv

Saved(c) ==
  LET rest == boff + c - Sector IN
  /\ Saves(c)
  /\ precheck' = (foff = 0 \/ precheck)
  /\ Save(Filled(Sector - boff))
  /\ dl' = IF InPartition THEN dl ELSE "overrun"
  /\ foff' = foff + Sector
  /\ buf' = [i \in 0 .. Sector - 1 |-> IF i < rest THEN Chunk(pos + c - rest + i) ELSE Zero]
  /\ boff' = rest
  /\ pos' = pos + c
  /\ UNCHANGED recv

\* http_get_callback with a chunk of the body.
Receive(c) ==
  /\ dl = "recv"
  /\ pos + c <= FileLen(file)
  /\ Buffered(c) \/ Refused(c) \/ Saved(c)
  /\ UNCHANGED <<upg, started, ready, file>>

\* http_get_callback at the end of the body: ota_persistent_finish saves the
\* buffer, however much it holds, behind the last sector, and frees it.
ReceiveEnd ==
  /\ dl = "recv"
  /\ pos = FileLen(file)
  /\ Save(buf)
  /\ buf' = ZeroBuf
  /\ boff' = 0
  /\ foff' = 0
  /\ ready' = TRUE
  /\ recv' = 1
  /\ dl' = IF InPartition THEN "ret" ELSE "overrun"
  /\ UNCHANGED <<upg, started, precheck, file, pos>>

\* The server closes the connection: early, or at the end of a body that it
\* announced no length for.  No final callback comes, and the number of bytes
\* received so far is returned.
PeerClose ==
  /\ dl = "recv"
  /\ recv' = IF pos > 0 THEN 1 ELSE 0
  /\ dl' = "ret"
  /\ UNCHANGED <<flash, upg, started, buf, boff, foff, precheck, ready, file, pos>>

\* A read error, or an answer that cannot be parsed.
ReadError ==
  /\ dl = "recv"
  /\ recv' = -1
  /\ dl' = "ret"
  /\ UNCHANGED <<flash, upg, started, buf, boff, foff, precheck, ready, file, pos>>

\* The rest of the loop of http_ota_entry: done, given up or tried again.
\* The connection is gone, and the count of bytes decides nothing any more.
LoopEnd ==
  /\ dl = "ret"
  /\ dl' = IF recv > 0 \/ (recv < 0 /\ ~precheck) THEN "leave" ELSE "connect"
  /\ file' = NoFile
  /\ pos' = 0
  /\ recv' = 0
  /\ UNCHANGED <<flash, upg, started, buf, boff, foff, precheck, ready>>

\* Is the download installed?  Both flags outlive the attempt that set them.
Accepted == precheck /\ ready /\ OtaOk

\* The end of http_ota_entry, unless the image is accepted: then it sets the
\* upgrade state and reboots (see Ota).
TaskEnd ==
  /\ dl = "leave"
  /\ ~Accepted
  /\ dl' = "none"
  /\ started' = FALSE
  /\ UNCHANGED <<flash, upg, buf, boff, foff, precheck, ready, file, pos, recv>>

\* What a power loss can leave of the flash while a sector is saved.
DlTorn ==
  {flash} \cup
  (IF dl # "recv" \/ ~InPartition THEN {}
   ELSE (UNION {TornSector(flash, OtaOff + foff, Filled(Sector - boff)) :
                  c \in {c \in 1 .. MaxChunk : pos + c <= FileLen(file) /\ Saves(c)}})
        \cup (IF pos = FileLen(file) THEN TornSector(flash, OtaOff + foff, buf) ELSE {}))

DlNext ==
  \/ AtHttpOta
  \/ \E f \in Files : Connect(f)
  \/ \E r \in {-1, 0} : ConnectFails(r)
  \/ \E c \in 1 .. MaxChunk : Receive(c)
  \/ ReceiveEnd
  \/ PeerClose
  \/ ReadError
  \/ LoopEnd
  \/ TaskEnd

=============================================================================
