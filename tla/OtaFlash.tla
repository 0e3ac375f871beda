------------------------------ MODULE OtaFlash ------------------------------
(***************************************************************************)
(* Firmware images and the flash they live in, as                          *)
(* components/fota/ota_agent/ota_image.c and ota_port.c see them.          *)
(*                                                                         *)
(* The flash is an array of cells: the APP partition, the OTA partition    *)
(* and the partitions behind it (NVDS, KV, USER).  A cell holds one unit   *)
(* of a file, an image being one header unit followed by its body.  A      *)
(* checksum is abstracted to what it tells apart: it matches the content   *)
(* that it was computed over and nothing else.                             *)
(***************************************************************************)
EXTENDS Integers

CONSTANTS
  Releases,        \* firmware releases
  None,            \* no release
  Ver,             \* the version number of a release
  OrigSize,        \* img_size_orig: body units of the image
  XzSize,          \* img_size_orig_xz: body units of the compressed image
  DiffSize,        \* img_size_diff: body units of the difference image
  Sector,          \* units of an erase sector (4 KB)
  AppSectors,      \* sectors of the APP partition
  OtaSectors,      \* sectors of the OTA partition
  BehindSectors    \* sectors behind the OTA partition

ASSUME FlashAssumption ==
  /\ None \notin Releases
  /\ {Ver, OrigSize, XzSize, DiffSize} \subseteq [Releases -> Nat]
  /\ {Sector, AppSectors, OtaSectors, BehindSectors} \subseteq Nat \ {0}

VARIABLES
  flash,           \* the content of every cell
  upg              \* the upgrade state in the NVDS

\* The image types, and the files that are no image (an HTTP error page).
ImageForms == {"orig", "xz", "diff"}
Forms == ImageForms \cup {"page"}

\* Unit k of the file that publishes release rel as form.
Unit(rel, form, k) == [rel |-> rel, form |-> form, k |-> k]

Blank == Unit(None, "blank", 0)      \* erased
Zero == Unit(None, "zero", 0)        \* the padding of the last sector
Junk == Unit(None, "junk", 0)        \* torn, or programmed over old content
Foreign == Unit(None, "foreign", 0)  \* data of another partition

Cell == [rel : Releases, form : Forms, k : Nat] \cup {Blank, Zero, Junk, Foreign}

AppOff == 0
OtaOff == AppSectors * Sector
OtaEnd == OtaOff + OtaSectors * Sector
FlashSize == OtaEnd + BehindSectors * Sector
Addr == 0 .. FlashSize - 1

BodySize(rel, form) ==
  CASE form = "orig" -> OrigSize[rel]
    [] form = "xz"   -> XzSize[rel]
    [] form = "diff" -> DiffSize[rel]
    [] form = "page" -> 0

\* image_header_read and image_header_verify: does the header at a check out?
HeaderOk(a) ==
  /\ flash[a].form \in ImageForms
  /\ flash[a].k = 0

\* image_body_verify: are the body units that the header announces its own?
BodyOk(a) ==
  LET h == flash[a] IN
  \A i \in 1 .. BodySize(h.rel, h.form) :
    a + i \in Addr /\ flash[a + i] = Unit(h.rel, h.form, i)

\* verify_total_img_partition; the downloader repeats it as ota_verify_download.
ImageOk(a) == HeaderOk(a) /\ BodyOk(a)

AppOk == ImageOk(AppOff)
OtaOk == ImageOk(OtaOff)

SectorOf(a) == {b \in Addr : b \div Sector = a \div Sector}

\* hal_flash_erase of the sector at a.
Erased(f, a) == [b \in Addr |-> IF b \in SectorOf(a) THEN Blank ELSE f[b]]

\* hal_flash_program: programming clears bits, so only a blank cell takes
\* the data as it is.
Programmed(f, a, data) ==
  [b \in Addr |->
     IF b - a \in DOMAIN data
     THEN IF f[b] = Blank THEN data[b - a] ELSE Junk
     ELSE f[b]]

\* What a power loss can leave of the sector at a while it is erased and
\* then programmed with data.
TornSector(f, a, data) ==
  {[b \in Addr |-> IF b \in SectorOf(a) THEN Junk ELSE f[b]]}
    \cup {Programmed(Erased(f, a), a, [i \in 0 .. j - 1 |-> data[i]]) : j \in 0 .. Sector}

=============================================================================
