----------------------------- MODULE OtaProofs -----------------------------
(***************************************************************************)
(* Proofs about the upgrade, for every layout of the flash and every set   *)
(* of releases: the device is bootable at every moment, the download is    *)
(* kept in order and leaves its partition only where no size is checked,   *)
(* and the upgrade implements the atomic change of release of Firmware,    *)
(* fairness apart.                                                         *)
(***************************************************************************)
EXTENDS Ota, TLAPS

----------------------------------------------------------------------------
(* Sectors and addresses.                                                  *)

Aligned(a) == \E n \in Nat : a = n * Sector

\* The sizes of the flash are natural numbers, and the partitions follow each
\* other.
LEMMA Layout ==
  /\ Sector \in Nat /\ Sector > 0
  /\ OtaOff \in Nat /\ OtaOff >= Sector /\ OtaOff = AppSectors * Sector
  /\ OtaEnd \in Nat /\ OtaEnd >= OtaOff + Sector /\ OtaEnd = OtaOff + OtaSectors * Sector
  /\ FlashSize \in Nat /\ FlashSize >= OtaEnd + Sector
  /\ AppOff = 0 /\ AppOff \in Addr /\ OtaOff \in Addr /\ Addr \subseteq Nat
<1>0. /\ Sector \in Nat \ {0} /\ AppSectors \in Nat \ {0}
      /\ OtaSectors \in Nat \ {0} /\ BehindSectors \in Nat \ {0}
  BY FlashAssumption
<1>1. \A n \in Nat \ {0} : n * Sector \in Nat /\ n * Sector >= Sector
  BY <1>0
<1>2. OtaOff \in Nat /\ OtaOff >= Sector /\ OtaOff = AppSectors * Sector
  BY <1>0, <1>1 DEF OtaOff
<1>3. OtaEnd \in Nat /\ OtaEnd >= OtaOff + Sector /\ OtaEnd = OtaOff + OtaSectors * Sector
  BY <1>0, <1>1, <1>2 DEF OtaEnd
<1>4. FlashSize \in Nat /\ FlashSize >= OtaEnd + Sector
  BY <1>0, <1>1, <1>3 DEF FlashSize
<1>5. AppOff = 0 /\ AppOff \in Addr /\ OtaOff \in Addr /\ Addr \subseteq Nat
  BY <1>0, <1>2, <1>3, <1>4 DEF AppOff, Addr
<1> QED
  BY <1>0, <1>2, <1>3, <1>4, <1>5

\* Multiples of the sector size.
LEMMA AlignedFacts ==
  /\ Aligned(0) /\ Aligned(Sector) /\ Aligned(OtaOff) /\ Aligned(OtaEnd)
  /\ \A a, b : Aligned(a) /\ Aligned(b) => Aligned(a + b)
  /\ \A a, b : Aligned(a) /\ Aligned(b) /\ a < b => a + Sector <= b
  /\ \A a : Aligned(a) => a \in Nat
<1>0. /\ Sector \in Nat \ {0} /\ AppSectors \in Nat \ {0}
      /\ OtaSectors \in Nat \ {0} /\ BehindSectors \in Nat \ {0}
  BY FlashAssumption
<1>1. Aligned(0) /\ Aligned(Sector) /\ Aligned(OtaOff)
  <2>1. 0 = 0 * Sector /\ Sector = 1 * Sector /\ OtaOff = AppSectors * Sector
    BY <1>0 DEF OtaOff
  <2> QED
    BY <1>0, <2>1 DEF Aligned
<1>2. ASSUME NEW a, NEW b, Aligned(a), Aligned(b) PROVE Aligned(a + b)
  <2>1. PICK m, n \in Nat : a = m * Sector /\ b = n * Sector
    BY <1>2 DEF Aligned
  <2>2. a + b = (m + n) * Sector /\ m + n \in Nat
    BY <1>0, <2>1
  <2> QED
    BY <2>2 DEF Aligned
<1>3. Aligned(OtaEnd)
  <2>1. Aligned(OtaSectors * Sector)
    BY <1>0 DEF Aligned
  <2> QED
    BY <1>1, <1>2, <2>1 DEF OtaEnd
<1>4. ASSUME NEW a, NEW b, Aligned(a), Aligned(b), a < b PROVE a + Sector <= b
  <2>1. PICK m, n \in Nat : a = m * Sector /\ b = n * Sector
    BY <1>4 DEF Aligned
  <2>2. m < n
    BY <1>0, <1>4, <2>1
  <2>3. PICK d \in Nat : n = m + 1 + d
    <3>1. n - m - 1 \in Nat /\ n = m + 1 + (n - m - 1)
      BY <2>2
    <3> QED
      BY <3>1
  <2>4. n * Sector = m * Sector + Sector + d * Sector
    BY <1>0, <2>3
  <2>5. d * Sector \in Nat
    BY <1>0
  <2> QED
    BY <1>0, <2>1, <2>4, <2>5
<1>5. ASSUME NEW a, Aligned(a) PROVE a \in Nat
  BY <1>0, <1>5 DEF Aligned
<1> QED
  BY <1>1, <1>2, <1>3, <1>4, <1>5

\* The sector at an aligned address is the Sector cells from there on.
LEMMA SectorCells ==
  ASSUME NEW a, Aligned(a)
  PROVE  \A b \in Addr : b \in SectorOf(a) <=> a <= b /\ b < a + Sector
<1>0. Sector \in Nat \ {0} /\ a \in Nat /\ Addr \subseteq Nat
  BY FlashAssumption, AlignedFacts, Layout
<1>1. PICK n \in Nat : a = n * Sector
  BY DEF Aligned
<1>2. a \div Sector = n
  BY <1>0, <1>1
<1> SUFFICES ASSUME NEW b \in Addr
             PROVE  b \div Sector = n <=> a <= b /\ b < a + Sector
  BY <1>2 DEF SectorOf
<1> DEFINE q == b \div Sector
<1>3. q \in Nat /\ q * Sector <= b /\ b < q * Sector + Sector
  BY <1>0
<1>4. CASE q = n
  BY <1>1, <1>3, <1>4
<1>5. CASE q < n
  <2>1. Aligned(q * Sector) /\ q * Sector < a
    BY <1>0, <1>1, <1>3, <1>5 DEF Aligned
  <2>2. q * Sector + Sector <= a
    BY <2>1, AlignedFacts
  <2> QED
    BY <1>0, <1>3, <1>5, <2>2
<1>6. CASE q > n
  <2>1. Aligned(q * Sector) /\ a < q * Sector
    BY <1>0, <1>1, <1>3, <1>6 DEF Aligned
  <2>2. a + Sector <= q * Sector
    BY <2>1, AlignedFacts
  <2> QED
    BY <1>0, <1>3, <1>6, <2>2
<1> QED
  BY <1>3, <1>4, <1>5, <1>6

----------------------------------------------------------------------------
(* Files, cells and what a write of a sector leaves.                       *)

\* A unit of a file that the server may answer with is a cell, and its length
\* is positive.
LEMMA FileFacts ==
  ASSUME NEW f \in Files
  PROVE  /\ f.rel \in Releases /\ f.form \in Forms
         /\ FileLen(f) \in Nat /\ FileLen(f) > 0
         /\ \A k \in Nat : Unit(f.rel, f.form, k) \in Cell
<1>1. f.rel \in Releases /\ f.form \in Forms
  BY DownloadAssumption
<1>2. /\ OrigSize[f.rel] \in Nat /\ XzSize[f.rel] \in Nat /\ DiffSize[f.rel] \in Nat
      /\ PageSize \in Nat \ {0}
  BY <1>1, FlashAssumption, DownloadAssumption
<1>3. FileLen(f) \in Nat /\ FileLen(f) > 0
  BY <1>1, <1>2 DEF FileLen, BodySize, Forms, ImageForms
<1>4. \A k \in Nat : Unit(f.rel, f.form, k) \in Cell
  BY <1>1 DEF Unit, Cell
<1> QED
  BY <1>1, <1>3, <1>4

\* The cells that are no unit of a file, and which of them look like a header.
LEMMA CellFacts ==
  /\ {Blank, Zero, Junk} \subseteq Cell
  /\ Blank.form \notin ImageForms /\ Zero.form \notin ImageForms
  /\ Junk.form \notin ImageForms
  /\ \A c \in Cell : c.form \in ImageForms => c.rel \in Releases
BY DEF Cell, Blank, Zero, Junk, Foreign, Unit, ImageForms, Forms

\* An erased and programmed sector holds the data, and no other cell changes.
LEMMA SectorWritten ==
  ASSUME NEW f \in [Addr -> Cell], NEW a, Aligned(a),
         NEW data \in [0 .. Sector - 1 -> Cell],
         NEW g, g = Programmed(Erased(f, a), a, data)
  PROVE  /\ g \in [Addr -> Cell]
         /\ \A b \in Addr : a <= b /\ b < a + Sector => g[b] = data[b - a]
         /\ \A b \in Addr : ~(a <= b /\ b < a + Sector) => g[b] = f[b]
<1>0. Sector \in Nat /\ a \in Nat /\ Addr \subseteq Nat
  BY AlignedFacts, Layout
<1>1. \A b \in Addr : b - a \in DOMAIN data <=> a <= b /\ b < a + Sector
  BY <1>0
<1>2. \A b \in Addr : b \in SectorOf(a) <=> a <= b /\ b < a + Sector
  BY SectorCells
<1>3. \A b \in Addr : Erased(f, a)[b] = IF a <= b /\ b < a + Sector THEN Blank ELSE f[b]
  BY <1>2 DEF Erased
<1>4. \A b \in Addr : g[b] = IF a <= b /\ b < a + Sector THEN data[b - a] ELSE f[b]
  BY <1>1, <1>3 DEF Programmed
<1>5. \A b \in Addr : a <= b /\ b < a + Sector => data[b - a] \in Cell
  BY <1>1
<1>6. \A b \in Addr : g[b] \in Cell
  BY <1>4, <1>5
<1>7. g = [b \in Addr |-> g[b]]
  BY DEF Programmed
<1> QED
  BY <1>4, <1>6, <1>7

\* A power loss leaves the cells outside the sector alone, and at its start
\* nothing but the data, an erased cell or junk.
LEMMA SectorTorn ==
  ASSUME NEW f \in [Addr -> Cell], NEW a, Aligned(a),
         NEW data \in [0 .. Sector - 1 -> Cell],
         NEW g \in TornSector(f, a, data)
  PROVE  /\ g \in [Addr -> Cell]
         /\ \A b \in Addr : ~(a <= b /\ b < a + Sector) => g[b] = f[b]
         /\ a \in Addr => g[a] \in {Junk, Blank, data[0]}
<1>0. Sector \in Nat /\ Sector > 0 /\ a \in Nat /\ Addr \subseteq Nat
  BY AlignedFacts, Layout
<1>1. \A b \in Addr : b \in SectorOf(a) <=> a <= b /\ b < a + Sector
  BY SectorCells
<1>2. CASE g = [b \in Addr |-> IF b \in SectorOf(a) THEN Junk ELSE f[b]]
  BY <1>0, <1>1, <1>2, CellFacts
<1>3. ASSUME NEW j \in 0 .. Sector,
             g = Programmed(Erased(f, a), a, [i \in 0 .. j - 1 |-> data[i]])
      PROVE  /\ g \in [Addr -> Cell]
             /\ \A b \in Addr : ~(a <= b /\ b < a + Sector) => g[b] = f[b]
             /\ a \in Addr => g[a] \in {Junk, Blank, data[0]}
  <2> DEFINE part == [i \in 0 .. j - 1 |-> data[i]]
  <2>1. \A b \in Addr : Erased(f, a)[b] = IF a <= b /\ b < a + Sector THEN Blank ELSE f[b]
    BY <1>1 DEF Erased
  <2>2. \A b \in Addr : b - a \in DOMAIN part <=> a <= b /\ b < a + j
    BY <1>0
  <2>3. \A b \in Addr : a <= b /\ b < a + j => part[b - a] = data[b - a] /\ data[b - a] \in Cell
    BY <1>0, <1>3
  <2> HIDE DEF part
  <2>4. \A b \in Addr : g[b] = IF a <= b /\ b < a + j THEN part[b - a]
                               ELSE IF a <= b /\ b < a + Sector THEN Blank ELSE f[b]
    BY <1>0, <1>3, <2>1, <2>2 DEF Programmed, part
  <2>5. \A b \in Addr : g[b] \in Cell
    BY <2>3, <2>4, CellFacts
  <2>6. g = [b \in Addr |-> g[b]]
    BY <1>3 DEF Programmed
  <2>7. a \in Addr => g[a] \in {Blank, data[0]}
    <3>1. CASE j = 0
      BY <1>0, <2>4, <3>1
    <3>2. CASE j > 0
      BY <1>0, <2>3, <2>4, <3>2
    <3> QED
      BY <1>3, <3>1, <3>2
  <2> QED
    BY <1>0, <2>4, <2>5, <2>6, <2>7
<1> QED
  BY <1>2, <1>3 DEF TornSector

----------------------------------------------------------------------------
(* Frames: which cells an image depends on.                                *)

\* An image header in the OTA partition passed the check of the downloader.
OtaHeaderGood ==
  HeaderOk(OtaOff) =>
    /\ OtaHeader.form \in {"orig", "xz"}
    /\ OtaHeader.rel \in Releases
    /\ OrigSize[OtaHeader.rel] + 1 <= OtaOff

\* An image header in the APP partition belongs to an image that fits there.
AppHeaderGood ==
  HeaderOk(AppOff) =>
    /\ AppHeader.form = "orig"
    /\ AppHeader.rel \in Releases
    /\ OrigSize[AppHeader.rel] + 1 <= OtaOff

\* The image in the OTA partition depends on no cell of the APP partition.
LEMMA OtaKept ==
  ASSUME \A b \in Addr : b >= OtaOff => flash'[b] = flash[b]
  PROVE  /\ OtaHeader' = OtaHeader
         /\ OtaOk' <=> OtaOk
         /\ HeaderOk(OtaOff)' <=> HeaderOk(OtaOff)
         /\ OtaHeaderGood => OtaHeaderGood'
<1>1. OtaOff \in Addr /\ OtaOff \in Nat
  BY Layout
<1>2. OtaHeader' = OtaHeader /\ (HeaderOk(OtaOff)' <=> HeaderOk(OtaOff))
  BY <1>1 DEF OtaHeader, HeaderOk
<1>3. BodyOk(OtaOff)' <=> BodyOk(OtaOff)
  <2>1. \A i \in 1 .. BodySize(OtaHeader.rel, OtaHeader.form) :
          OtaOff + i \in Addr => flash'[OtaOff + i] = flash[OtaOff + i]
    BY <1>1
  <2> QED
    BY <1>2, <2>1 DEF BodyOk, OtaHeader
<1> QED
  BY <1>2, <1>3 DEF OtaOk, ImageOk, OtaHeaderGood

\* The image in the APP partition depends on no cell outside of it.
LEMMA AppKept ==
  ASSUME \A b \in Addr : b < OtaOff => flash'[b] = flash[b], AppHeaderGood
  PROVE  /\ AppHeader' = AppHeader
         /\ AppOk' <=> AppOk
         /\ AppHeaderGood'
<1>1. AppOff \in Addr /\ OtaOff \in Nat /\ AppOff = 0 /\ AppOff < OtaOff
  BY Layout
<1>2. AppHeader' = AppHeader /\ (HeaderOk(AppOff)' <=> HeaderOk(AppOff))
  BY <1>1 DEF AppHeader, HeaderOk
<1>3. HeaderOk(AppOff) => (BodyOk(AppOff)' <=> BodyOk(AppOff))
  <2> HAVE HeaderOk(AppOff)
  <2>1. BodySize(AppHeader.rel, AppHeader.form) = OrigSize[AppHeader.rel]
    BY DEF AppHeaderGood, BodySize
  <2>2. OrigSize[AppHeader.rel] \in Nat
    BY FlashAssumption DEF AppHeaderGood
  <2>3. \A i \in 1 .. BodySize(AppHeader.rel, AppHeader.form) :
          AppOff + i \in Addr => flash'[AppOff + i] = flash[AppOff + i]
    BY <1>1, <2>1, <2>2 DEF AppHeaderGood
  <2> QED
    BY <1>2, <2>3 DEF BodyOk, AppHeader
<1> QED
  BY <1>2, <1>3 DEF AppOk, ImageOk, AppHeaderGood

----------------------------------------------------------------------------
(* The downloader.                                                         *)

\* The files are such that an image fills a sector at least (an image has at
\* least 4 KB: the check of the first full buffer is never passed by).
ImagesFillSector ==
  \A f \in Files : f.form \in ImageForms => FileLen(f) >= Sector

\* While a file is received, what is not yet in the flash is in the buffer,
\* and only an image of a checked type gets beyond the first sector.
Receiving ==
  /\ file \in Files
  /\ boff < Sector
  /\ pos = foff + boff
  /\ pos <= FileLen(file)
  /\ \A i \in 0 .. boff - 1 : buf[i] = Chunk(foff + i)
  /\ foff > 0 => file.form \in {"orig", "xz"}

DlInv ==
  /\ flash \in [Addr -> Cell]
  /\ buf \in [0 .. Sector - 1 -> Cell]
  /\ boff \in 0 .. Sector
  /\ Aligned(foff)
  /\ pos \in Nat
  /\ file \in Files \cup {NoFile}
  /\ dl = "recv" => Receiving

\* The sizes the downloader computes with.
LEMMA DlNumbers ==
  ASSUME DlInv
  PROVE  /\ Sector \in Nat /\ Sector > 0 /\ MaxChunk \in Nat /\ MaxChunk <= Sector
         /\ boff \in Nat /\ foff \in Nat /\ pos \in Nat
         /\ dl = "recv" => FileLen(file) \in Nat /\ FileLen(file) > 0
BY Layout, AlignedFacts, DownloadAssumption, FileFacts DEF DlInv, Receiving

\* Copying n units of a chunk into the buffer continues the file.
LEMMA FilledInOrder ==
  ASSUME DlInv, dl = "recv", NEW n \in Nat, boff + n <= Sector
  PROVE  /\ Filled(n) \in [0 .. Sector - 1 -> Cell]
         /\ \A i \in 0 .. boff + n - 1 : Filled(n)[i] = Chunk(foff + i)
<1>0. /\ boff \in Nat /\ foff \in Nat /\ pos \in Nat /\ Sector \in Nat
      /\ file \in Files /\ pos = foff + boff /\ boff < Sector
      /\ \A i \in 0 .. boff - 1 : buf[i] = Chunk(foff + i)
  BY DlNumbers DEF DlInv, Receiving
<1>1. \A k \in Nat : Chunk(k) \in Cell
  BY <1>0, FileFacts DEF Chunk
<1>2. ASSUME NEW i \in 0 .. Sector - 1
      PROVE  /\ Filled(n)[i] \in Cell
             /\ i < boff + n => Filled(n)[i] = Chunk(foff + i)
  <2>1. CASE i < boff
    <3>1. i \notin boff .. boff + n - 1 /\ i \in 0 .. boff - 1
      BY <1>0, <2>1
    <3>2. Filled(n)[i] = buf[i]
      BY <3>1 DEF Filled
    <3> QED
      BY <1>0, <3>1, <3>2 DEF DlInv
  <2>2. CASE boff <= i /\ i < boff + n
    <3>1. i \in boff .. boff + n - 1 /\ pos + i - boff = foff + i /\ foff + i \in Nat
      BY <1>0, <2>2
    <3>2. Filled(n)[i] = Chunk(foff + i)
      BY <3>1 DEF Filled
    <3> QED
      BY <1>1, <3>1, <3>2
  <2>3. CASE boff + n <= i
    <3>1. i \notin boff .. boff + n - 1 /\ ~(i < boff + n)
      BY <1>0, <2>3
    <3>2. Filled(n)[i] = buf[i]
      BY <3>1 DEF Filled
    <3> QED
      BY <3>1, <3>2 DEF DlInv
  <2> QED
    BY <1>0, <2>1, <2>2, <2>3
<1>3. Filled(n) = [i \in 0 .. Sector - 1 |-> Filled(n)[i]]
  BY DEF Filled
<1>4. \A i \in 0 .. boff + n - 1 : i \in 0 .. Sector - 1 /\ i < boff + n
  BY <1>0
<1> QED
  BY <1>2, <1>3, <1>4

\* The header that ota_download_precheck lets through.
Checked(h) ==
  /\ h.form \in {"orig", "xz"}
  /\ h.rel \in Releases
  /\ OrigSize[h.rel] + 1 <= OtaOff

\* A full buffer holds the next sector of the file; the first one is checked.
LEMMA FullBuffer ==
  ASSUME DlInv, dl = "recv", NEW c \in 1 .. MaxChunk, Saves(c)
  PROVE  /\ Filled(Sector - boff) \in [0 .. Sector - 1 -> Cell]
         /\ \A i \in 0 .. Sector - 1 : Filled(Sector - boff)[i] = Chunk(foff + i)
         /\ foff = 0 => Checked(Filled(Sector - boff)[0])
         /\ file.form \in {"orig", "xz"}
<1>0. /\ boff \in Nat /\ foff \in Nat /\ pos \in Nat /\ Sector \in Nat /\ Sector > 0
      /\ file \in Files /\ boff < Sector
  BY DlNumbers DEF DlInv, Receiving
<1>1. Sector - boff \in Nat /\ boff + (Sector - boff) = Sector
  BY <1>0
<1>2. /\ Filled(Sector - boff) \in [0 .. Sector - 1 -> Cell]
      /\ \A i \in 0 .. Sector - 1 : Filled(Sector - boff)[i] = Chunk(foff + i)
  <2>1. PICK n \in Nat : n = Sector - boff /\ boff + n = Sector
    BY <1>1
  <2>2. boff + n <= Sector
    BY <1>0, <2>1
  <2>3. /\ Filled(n) \in [0 .. Sector - 1 -> Cell]
        /\ \A i \in 0 .. boff + n - 1 : Filled(n)[i] = Chunk(foff + i)
    BY <2>2, FilledInOrder
  <2>4. Filled(Sector - boff) = Filled(n)
    BY <2>1, Zenon
  <2>5. 0 .. boff + n - 1 = 0 .. Sector - 1
    BY <1>0, <2>1
  <2> QED
    BY <2>3, <2>4, <2>5, Zenon
<1>3. foff = 0 => /\ Checked(Filled(Sector - boff)[0])
                  /\ file.form \in {"orig", "xz"}
  <2> HAVE foff = 0
  <2>1. Precheck(Filled(Sector - boff)[0])
    BY DEF Saves
  <2>2. Filled(Sector - boff)[0] = Chunk(0)
    BY <1>0, <1>2
  <2>3. Chunk(0).rel = file.rel /\ Chunk(0).form = file.form
    BY DEF Chunk, Unit
  <2>4. file.rel \in Releases
    BY <1>0, FileFacts
  <2> QED
    BY <2>1, <2>2, <2>3, <2>4 DEF Precheck, Checked, OtaOff
<1> QED
  BY <1>0, <1>2, <1>3 DEF DlInv, Receiving

\* A file that ends within the first sector is no image.
LEMMA ShortFile ==
  ASSUME DlInv, dl = "recv", ImagesFillSector, pos = FileLen(file), foff = 0
  PROVE  buf[0].form \notin ImageForms
<1>0. /\ boff \in Nat /\ pos \in Nat /\ Sector \in Nat /\ Sector > 0
      /\ file \in Files /\ boff < Sector /\ pos = boff
      /\ FileLen(file) > 0
      /\ \A i \in 0 .. boff - 1 : buf[i] = Chunk(foff + i)
  BY DlNumbers DEF DlInv, Receiving
<1>1. file.form \notin ImageForms
  <2>1. file.form \in ImageForms => FileLen(file) >= Sector
    BY <1>0 DEF ImagesFillSector
  <2>2. FileLen(file) = boff
    BY <1>0
  <2> QED
    BY <1>0, <2>1, <2>2
<1>2. buf[0] = Chunk(0)
  BY <1>0
<1> QED
  BY <1>1, <1>2 DEF Chunk, Unit

\* The statics of the downloader are as DlInv says, after every step of it
\* and after a reset.
LEMMA DlResetInv ==
  ASSUME DlReset, flash' \in [Addr -> Cell]
  PROVE  DlInv'
BY Layout, AlignedFacts, CellFacts DEF DlReset, DlInv, ZeroBuf, NoFile

\* A step of the downloader keeps its invariant.
LEMMA DlStepInv ==
  ASSUME DlInv, DlNext
  PROVE  DlInv'
<1>0. /\ Sector \in Nat /\ Sector > 0 /\ MaxChunk \in Nat /\ MaxChunk <= Sector
      /\ boff \in Nat /\ foff \in Nat /\ pos \in Nat
      /\ dl = "recv" => FileLen(file) \in Nat /\ FileLen(file) > 0
  BY DlNumbers
<1>z. ZeroBuf \in [0 .. Sector - 1 -> Cell]
  BY CellFacts DEF ZeroBuf
<1>1. CASE AtHttpOta
  BY <1>1 DEF AtHttpOta, DlInv
<1>2. ASSUME NEW f \in Files, Connect(f) PROVE DlInv'
  <2>1. Receiving'
    BY <1>0, <1>2, FileFacts DEF Connect, Receiving
  <2> QED
    BY <1>0, <1>2, <2>1, AlignedFacts DEF Connect, DlInv
<1>3. ASSUME NEW r \in {-1, 0}, ConnectFails(r) PROVE DlInv'
  BY <1>0, <1>3, AlignedFacts DEF ConnectFails, DlInv
<1>4. ASSUME NEW c \in 1 .. MaxChunk, Receive(c) PROVE DlInv'
  <2>0. /\ dl = "recv" /\ pos + c <= FileLen(file) /\ file' = file
        /\ Receiving /\ file \in Files /\ boff < Sector /\ pos = foff + boff
    BY <1>4 DEF Receive, DlInv, Receiving
  <2>1. CASE Buffered(c)
    <3>1. /\ Filled(c) \in [0 .. Sector - 1 -> Cell]
          /\ \A i \in 0 .. boff + c - 1 : Filled(c)[i] = Chunk(foff + i)
      BY <1>0, <2>0, <2>1, FilledInOrder DEF Buffered
    <3>2. Receiving'
      BY <1>0, <2>0, <2>1, <3>1 DEF Buffered, Receiving, Chunk
    <3> QED
      BY <1>0, <2>0, <2>1, <3>1, <3>2 DEF Buffered, DlInv
  <2>2. CASE Refused(c)
    <3>1. Filled(Sector - boff) \in [0 .. Sector - 1 -> Cell]
      BY <1>0, <2>0, FilledInOrder
    <3> QED
      BY <1>0, <2>0, <2>2, <3>1 DEF Refused, DlInv
  <2>3. CASE Saved(c)
    <3> DEFINE rest == boff + c - Sector
    <3>1. /\ Filled(Sector - boff) \in [0 .. Sector - 1 -> Cell]
          /\ file.form \in {"orig", "xz"}
      BY <2>0, <2>3, FullBuffer DEF Saved
    <3>2. flash' \in [Addr -> Cell]
      <4>1. Aligned(OtaOff + foff)
        BY AlignedFacts DEF DlInv
      <4> QED
        BY <2>3, <3>1, <4>1, SectorWritten DEF Saved, Save, DlInv
    <3>3. rest \in Nat /\ rest < Sector /\ boff' = rest
      BY <1>0, <2>0, <2>3 DEF Saved, Saves
    <3>4. /\ foff' = foff + Sector /\ pos' = pos + c /\ pos' = foff' + boff'
          /\ pos + c - rest = foff + Sector
      BY <1>0, <2>0, <2>3, <3>3 DEF Saved
    <3>5. \A k \in Nat : Chunk(k) \in Cell
      BY <2>0, FileFacts DEF Chunk
    <3> HIDE DEF rest
    <3>6. /\ buf' \in [0 .. Sector - 1 -> Cell]
          /\ \A i \in 0 .. rest - 1 : buf'[i] = Chunk(foff' + i)
      <4>1. buf' = [i \in 0 .. Sector - 1 |->
                      IF i < rest THEN Chunk(pos + c - rest + i) ELSE Zero]
        BY <2>3 DEF Saved, rest
      <4>2. \A i \in 0 .. Sector - 1 : pos + c - rest + i = foff' + i /\ foff' + i \in Nat
        BY <1>0, <3>3, <3>4
      <4>3. \A i \in 0 .. Sector - 1 :
              buf'[i] = IF i < rest THEN Chunk(pos + c - rest + i) ELSE Zero
        BY <4>1
      <4>4. \A i \in 0 .. Sector - 1 : Chunk(pos + c - rest + i) \in Cell
        BY <3>5, <4>2
      <4>5. buf' \in [0 .. Sector - 1 -> Cell]
        BY <4>1, <4>4, CellFacts
      <4>6. \A i \in 0 .. rest - 1 : i \in 0 .. Sector - 1 /\ i < rest
        BY <1>0, <3>3
      <4>7. ASSUME NEW i \in 0 .. rest - 1 PROVE buf'[i] = Chunk(foff' + i)
        BY <4>2, <4>3, <4>6
      <4> QED
        BY <4>5, <4>7
    <3>7. Chunk(1)' = Chunk(1) /\ \A i : Chunk(i) = Unit(file'.rel, file'.form, i)
      BY <2>0 DEF Chunk
    <3>8. Receiving'
      <4>1. \A i \in 0 .. boff' - 1 : buf'[i] = Unit(file'.rel, file'.form, foff' + i)
        BY <3>3, <3>6, <3>7
      <4> QED
        BY <1>0, <2>0, <3>1, <3>3, <3>4, <4>1 DEF Receiving, Chunk
    <3>9. Aligned(foff')
      BY <3>4, AlignedFacts DEF DlInv
    <3> QED
      BY <1>0, <2>0, <3>2, <3>3, <3>4, <3>6, <3>8, <3>9 DEF DlInv
  <2> QED
    BY <1>4, <2>1, <2>2, <2>3 DEF Receive
<1>5. CASE ReceiveEnd
  <2>1. Aligned(OtaOff + foff)
    BY AlignedFacts DEF DlInv
  <2>2. flash' \in [Addr -> Cell]
    BY <1>5, <2>1, SectorWritten DEF ReceiveEnd, Save, DlInv
  <2> QED
    BY <1>0, <1>5, <1>z, <2>2, AlignedFacts DEF ReceiveEnd, DlInv
<1>6. CASE PeerClose
  BY <1>6 DEF PeerClose, DlInv
<1>7. CASE ReadError
  BY <1>7 DEF ReadError, DlInv
<1>8. CASE LoopEnd
  BY <1>8 DEF LoopEnd, DlInv
<1>9. CASE TaskEnd
  BY <1>9 DEF TaskEnd, DlInv
<1> QED
  BY <1>1, <1>2, <1>3, <1>4, <1>5, <1>6, <1>7, <1>8, <1>9 DEF DlNext

\* Saving a sector, whole or torn, changes no cell in front of the OTA
\* partition, and puts no unchecked image header at its start.
LEMMA SaveKeeps ==
  ASSUME DlInv, NEW data \in [0 .. Sector - 1 -> Cell],
         foff = 0 => data[0].form \notin ImageForms \/ Checked(data[0]),
         \/ flash' = Programmed(Erased(flash, OtaOff + foff), OtaOff + foff, data)
         \/ flash' \in TornSector(flash, OtaOff + foff, data)
  PROVE  /\ flash' \in [Addr -> Cell]
         /\ \A b \in Addr : b < OtaOff => flash'[b] = flash[b]
         /\ OtaHeaderGood => OtaHeaderGood'
<1> DEFINE a == OtaOff + foff
<1>0. /\ Aligned(a) /\ a \in Nat /\ foff \in Nat /\ OtaOff \in Nat /\ OtaOff \in Addr
      /\ Sector \in Nat /\ Sector > 0 /\ Addr \subseteq Nat /\ flash \in [Addr -> Cell]
  BY AlignedFacts, Layout DEF DlInv
<1>1. /\ flash' \in [Addr -> Cell]
      /\ \A b \in Addr : ~(a <= b /\ b < a + Sector) => flash'[b] = flash[b]
      /\ a \in Addr => flash'[a] \in {Junk, Blank, data[0]}
  <2>1. CASE flash' = Programmed(Erased(flash, a), a, data)
    <3>1. /\ flash' \in [Addr -> Cell]
          /\ \A b \in Addr : a <= b /\ b < a + Sector => flash'[b] = data[b - a]
          /\ \A b \in Addr : ~(a <= b /\ b < a + Sector) => flash'[b] = flash[b]
      BY <1>0, <2>1, SectorWritten
    <3>2. a - a = 0 /\ a <= a /\ a < a + Sector
      BY <1>0
    <3>3. a \in Addr => flash'[a] = data[0]
      BY <3>1, <3>2
    <3> QED
      BY <3>1, <3>3
  <2>2. CASE flash' \in TornSector(flash, a, data)
    BY <1>0, <2>2, SectorTorn
  <2> QED
    BY <2>1, <2>2
<1>2. \A b \in Addr : b < OtaOff => ~(a <= b /\ b < a + Sector)
  BY <1>0
<1>3. ASSUME OtaHeaderGood PROVE OtaHeaderGood'
  <2>1. CASE foff = 0
    <3>1. flash'[OtaOff] \in {Junk, Blank, data[0]}
      BY <1>0, <1>1, <2>1
    <3> QED
      BY <2>1, <3>1, CellFacts DEF OtaHeaderGood, HeaderOk, OtaHeader, Checked
  <2>2. CASE foff > 0
    <3>1. ~(a <= OtaOff)
      BY <1>0, <2>2
    <3>2. flash'[OtaOff] = flash[OtaOff]
      BY <1>0, <1>1, <3>1
    <3> QED
      BY <1>3, <3>2 DEF OtaHeaderGood, HeaderOk, OtaHeader
  <2> QED
    BY <1>0, <2>1, <2>2
<1> QED
  BY <1>1, <1>2, <1>3

\* The same of every step of the downloader and of a power loss during it.
LEMMA DownloadKeeps ==
  ASSUME DlInv, ImagesFillSector, DlNext \/ flash' \in DlTorn
  PROVE  /\ flash' \in [Addr -> Cell]
         /\ \A b \in Addr : b < OtaOff => flash'[b] = flash[b]
         /\ OtaHeaderGood => OtaHeaderGood'
<1>1. CASE flash' = flash
  BY <1>1 DEF DlInv, OtaHeaderGood, HeaderOk, OtaHeader
<1> DEFINE Written(data) ==
             \/ flash' = Programmed(Erased(flash, OtaOff + foff), OtaOff + foff, data)
             \/ flash' \in TornSector(flash, OtaOff + foff, data)
<1>2. ASSUME dl = "recv", NEW c \in 1 .. MaxChunk, Saves(c), Written(Filled(Sector - boff))
      PROVE  /\ flash' \in [Addr -> Cell]
             /\ \A b \in Addr : b < OtaOff => flash'[b] = flash[b]
             /\ OtaHeaderGood => OtaHeaderGood'
  <2>1. /\ Filled(Sector - boff) \in [0 .. Sector - 1 -> Cell]
        /\ foff = 0 => Checked(Filled(Sector - boff)[0])
    BY <1>2, FullBuffer
  <2> QED
    BY <1>2, <2>1, SaveKeeps
<1>3. ASSUME dl = "recv", pos = FileLen(file), Written(buf)
      PROVE  /\ flash' \in [Addr -> Cell]
             /\ \A b \in Addr : b < OtaOff => flash'[b] = flash[b]
             /\ OtaHeaderGood => OtaHeaderGood'
  <2>1. foff = 0 => buf[0].form \notin ImageForms
    BY <1>3, ShortFile
  <2> QED
    BY <1>3, <2>1, SaveKeeps DEF DlInv
<1>4. CASE DlNext
  <2>1. ASSUME NEW c \in 1 .. MaxChunk, Receive(c), flash' # flash
        PROVE  dl = "recv" /\ Saves(c) /\ Written(Filled(Sector - boff))
    BY <2>1 DEF Receive, Buffered, Refused, Saved, Save
  <2>2. ASSUME ReceiveEnd PROVE dl = "recv" /\ pos = FileLen(file) /\ Written(buf)
    BY <2>2 DEF ReceiveEnd, Save
  <2> HIDE DEF Written
  <2> QED
    BY <1>1, <1>2, <1>3, <1>4, <2>1, <2>2
       DEF DlNext, AtHttpOta, Connect, ConnectFails, PeerClose, ReadError, LoopEnd, TaskEnd
<1>5. CASE flash' \in DlTorn
  <2>1. \/ flash' = flash
        \/ /\ dl = "recv"
           /\ \E c \in 1 .. MaxChunk : Saves(c) /\ Written(Filled(Sector - boff))
        \/ dl = "recv" /\ pos = FileLen(file) /\ Written(buf)
    BY <1>5 DEF DlTorn
  <2> HIDE DEF Written
  <2> QED
    BY <1>1, <1>2, <1>3, <2>1
<1> QED
  BY <1>4, <1>5

----------------------------------------------------------------------------
(* The boot agent, and the invariant of the upgrade as a whole.            *)

\* The cells below n hold the restored image, the others of the partition
\* are erased.
RestoredBelow(n) ==
  /\ \A a \in 0 .. n - 1 : flash[a] = Unit(OtaHeader.rel, "orig", a)
  /\ \A a \in n .. OtaOff - 1 : flash[a] = Blank

\* How far the agent is with the application.
AgentProgress ==
  /\ pc = "erase" => /\ Aligned(done) /\ done < OtaOff
                     /\ \A a \in 0 .. done - 1 : flash[a] = Blank
  /\ pc = "header" => \A a \in 0 .. OtaOff - 1 : flash[a] = Blank
  /\ pc = "copy" => /\ done \in 1 .. OrigSize[OtaHeader.rel] + 1
                    /\ RestoredBelow(done)
  /\ pc \in {"verify", "set"} => AppOk /\ AppHeader.rel = OtaHeader.rel

\* An upgrade is pending exactly while the agent may be at work, and then the
\* image to install is whole; otherwise the application is.
Pending ==
  /\ upg = "download_ok" => OtaOk /\ pc \notin {"app", "ble"}
  /\ upg # "download_ok" => AppOk /\ pc \in {"boot", "app", "ble"}

BootInv ==
  /\ DlInv
  /\ upg \in {"unset", "download_ok", "restore_ok"}
  /\ pc \in Pc \ {"halt"}
  /\ done \in Nat
  /\ AppHeaderGood
  /\ OtaHeaderGood
  /\ Pending
  /\ AgentProgress

\* What a step of the agent, or a power loss during one, does to the flash:
\* nothing, or it changes the application only, while an upgrade is pending,
\* and no header but that of the pending release is left there.
AgentChange ==
  \/ flash' = flash
  \/ /\ upg = "download_ok"
     /\ flash' \in [Addr -> Cell]
     /\ \A b \in Addr : b >= OtaOff => flash'[b] = flash[b]
     /\ HeaderOk(AppOff)' => flash'[AppOff] = Unit(OtaHeader.rel, "orig", 0)

\* Programming one cell changes no other, and an erased one takes the data.
LEMMA CellProgrammed ==
  ASSUME NEW f \in [Addr -> Cell], NEW a \in Nat,
         NEW data, DOMAIN data = {0}, data[0] \in Cell,
         NEW g, g = Programmed(f, a, data)
  PROVE  /\ g \in [Addr -> Cell]
         /\ \A b \in Addr : b # a => g[b] = f[b]
         /\ a \in Addr /\ f[a] = Blank => g[a] = data[0]
<1>0. Addr \subseteq Nat
  BY Layout
<1>1. \A b \in Addr : b - a \in DOMAIN data <=> b = a
  BY <1>0
<1>2. a - a = 0
  BY <1>0
<1>3. \A b \in Addr : g[b] = IF b = a THEN IF f[b] = Blank THEN data[0] ELSE Junk ELSE f[b]
  BY <1>1, <1>2 DEF Programmed
<1>4. g = [b \in Addr |-> g[b]]
  BY DEF Programmed
<1>5. \A b \in Addr : g[b] \in Cell
  BY <1>3, CellFacts
<1> QED
  BY <1>3, <1>4, <1>5

\* While an upgrade is pending, the image to install is whole, of a type that
\* can be restored, and fits the APP partition.
LEMMA PendingImage ==
  ASSUME BootInv, upg = "download_ok"
  PROVE  /\ OtaOk
         /\ OtaHeader.form \in {"orig", "xz"}
         /\ OtaHeader.rel \in Releases /\ OtaHeader.rel # None
         /\ OrigSize[OtaHeader.rel] \in Nat
         /\ OrigSize[OtaHeader.rel] + 1 <= OtaOff
         /\ \A k \in Nat : Unit(OtaHeader.rel, "orig", k) \in Cell
         /\ \A i \in 1 .. OrigSize[OtaHeader.rel] :
              Restored(i) = Unit(OtaHeader.rel, "orig", i)
<1>1. OtaOk /\ HeaderOk(OtaOff) /\ BodyOk(OtaOff)
  BY DEF BootInv, Pending, OtaOk, ImageOk
<1>2. /\ OtaHeader.form \in {"orig", "xz"}
      /\ OtaHeader.rel \in Releases /\ OtaHeader.rel # None
      /\ OrigSize[OtaHeader.rel] \in Nat
      /\ OrigSize[OtaHeader.rel] + 1 <= OtaOff
  BY <1>1, FlashAssumption DEF BootInv, OtaHeaderGood
<1>3. \A k \in Nat : Unit(OtaHeader.rel, "orig", k) \in Cell
  BY <1>2 DEF Unit, Cell, Forms, ImageForms
<1>4. ASSUME NEW i \in 1 .. OrigSize[OtaHeader.rel]
      PROVE  Restored(i) = Unit(OtaHeader.rel, "orig", i)
  BY <1>1, <1>2 DEF Restored, BodyOk, BodySize, OtaHeader
<1> QED
  BY <1>1, <1>2, <1>3, <1>4

\* The agent is at work on the application only while an upgrade is pending.
LEMMA WorkIsPending ==
  ASSUME BootInv, pc \in AgentPc \ {"boot"}
  PROVE  upg = "download_ok"
BY DEF BootInv, Pending, AgentPc

\* Erasing a sector of the application, or tearing it, leaves no header there.
LEMMA EraseChange ==
  ASSUME BootInv, pc = "erase",
         \/ flash' = Erased(flash, AppOff + done)
         \/ flash' = [b \in Addr |-> IF b \in SectorOf(AppOff + done) THEN Junk ELSE flash[b]]
  PROVE  /\ flash' \in [Addr -> Cell]
         /\ \A b \in Addr : b >= OtaOff => flash'[b] = flash[b]
         /\ ~HeaderOk(AppOff)'
         /\ flash' = Erased(flash, AppOff + done) =>
              \A a \in 0 .. done + Sector - 1 : flash'[a] = Blank
<1>0. /\ Aligned(done) /\ done < OtaOff /\ done \in Nat /\ AppOff + done = done
      /\ \A a \in 0 .. done - 1 : flash[a] = Blank
      /\ flash \in [Addr -> Cell]
  BY Layout DEF BootInv, AgentProgress, DlInv
<1>1. /\ Sector \in Nat /\ Sector > 0 /\ OtaOff \in Nat /\ 0 \in Addr /\ AppOff = 0
      /\ Addr \subseteq Nat /\ \A a \in 0 .. OtaOff - 1 : a \in Addr
  BY Layout DEF Addr
<1>2. done + Sector <= OtaOff
  BY <1>0, AlignedFacts
<1>3. \A b \in Addr : b \in SectorOf(done) <=> done <= b /\ b < done + Sector
  BY <1>0, SectorCells
<1>4. PICK x \in {Blank, Junk} :
        /\ flash' = [b \in Addr |-> IF b \in SectorOf(done) THEN x ELSE flash[b]]
        /\ flash' = Erased(flash, AppOff + done) => x = Blank
  <2>1. 0 \in SectorOf(done) \/ done > 0
    BY <1>0, <1>1, <1>3
  <2>2. done \in Addr /\ done \in SectorOf(done)
    BY <1>0, <1>1, <1>3
  <2>3. CASE flash' = Erased(flash, AppOff + done)
    BY <1>0, <2>3 DEF Erased
  <2>4. CASE flash' = [b \in Addr |-> IF b \in SectorOf(done) THEN Junk ELSE flash[b]]
    <3>1. flash'[done] = Junk
      BY <2>2, <2>4
    <3>2. Erased(flash, done)[done] = Blank
      BY <2>2 DEF Erased
    <3>3. Junk # Blank
      BY DEF Junk, Blank, Unit
    <3> QED
      BY <1>0, <2>4, <3>1, <3>2, <3>3
  <2> QED
    BY <1>0, <2>3, <2>4
<1>5. \A b \in Addr : flash'[b] = IF done <= b /\ b < done + Sector THEN x ELSE flash[b]
  BY <1>3, <1>4
<1>6. flash' \in [Addr -> Cell]
  BY <1>0, <1>4, CellFacts
<1>7. \A b \in Addr : b >= OtaOff => flash'[b] = flash[b]
  BY <1>0, <1>1, <1>2, <1>5
<1>8. flash'[0] \in {Blank, Junk}
  <2>1. CASE done = 0
    BY <1>1, <1>5, <2>1
  <2>2. CASE done > 0
    BY <1>0, <1>1, <1>5, <2>2
  <2> QED
    BY <1>0, <2>1, <2>2
<1>9. ~HeaderOk(AppOff)'
  BY <1>1, <1>8, CellFacts DEF HeaderOk
<1>10. ASSUME x = Blank, NEW a \in 0 .. done + Sector - 1 PROVE flash'[a] = Blank
  <2>1. a \in Addr
    BY <1>0, <1>1, <1>2
  <2>2. CASE a < done
    BY <1>0, <1>5, <2>1, <2>2
  <2>3. CASE a >= done
    BY <1>0, <1>1, <1>5, <1>10, <2>1, <2>3
  <2> QED
    BY <1>0, <2>2, <2>3
<1> QED
  BY <1>4, <1>6, <1>7, <1>9, <1>10

\* The header goes to an erased cell.
LEMMA HeaderChange ==
  ASSUME BootInv, pc = "header", AgentHeader
  PROVE  /\ flash' \in [Addr -> Cell]
         /\ \A b \in Addr : b # 0 => flash'[b] = flash[b]
         /\ flash'[0] = Unit(OtaHeader.rel, "orig", 0)
<1>0. AppOff = 0 /\ 0 \in Addr /\ OtaOff \in Nat /\ OtaOff > 0
  BY Layout
<1>1. /\ flash \in [Addr -> Cell] /\ flash[0] = Blank
      /\ Unit(OtaHeader.rel, "orig", 0) \in Cell
  BY <1>0, WorkIsPending, PendingImage DEF BootInv, AgentProgress, DlInv, AgentPc
<1>2. flash' = Programmed(flash, 0, [i \in {0} |-> Unit(OtaHeader.rel, "orig", 0)])
  BY <1>0 DEF AgentHeader
<1> QED
  <2> DEFINE data == [i \in {0} |-> Unit(OtaHeader.rel, "orig", 0)]
  <2>1. /\ DOMAIN data = {0} /\ data[0] = Unit(OtaHeader.rel, "orig", 0) /\ data[0] \in Cell
        /\ 0 \in Nat
    BY <1>1
  <2>2. flash' = Programmed(flash, 0, data)
    BY <1>2
  <2> HIDE DEF data
  <2> QED
    BY <1>0, <1>1, <2>1, <2>2, CellProgrammed

\* So does every unit of the body.
LEMMA CopyChange ==
  ASSUME BootInv, pc = "copy", AgentCopy, done <= OrigSize[OtaHeader.rel]
  PROVE  /\ flash' \in [Addr -> Cell]
         /\ \A b \in Addr : b # done => flash'[b] = flash[b]
         /\ flash'[done] = Unit(OtaHeader.rel, "orig", done)
<1>0. /\ AppOff = 0 /\ OtaOff \in Nat /\ OtaOff > 0
      /\ \A a \in 0 .. OtaOff - 1 : a \in Addr
  BY Layout DEF Addr
<1>1. upg = "download_ok"
  BY WorkIsPending DEF AgentPc
<1>2. /\ OrigSize[OtaHeader.rel] \in Nat /\ OrigSize[OtaHeader.rel] + 1 <= OtaOff
      /\ done \in 1 .. OrigSize[OtaHeader.rel] + 1 /\ RestoredBelow(done)
      /\ flash \in [Addr -> Cell]
  BY <1>1, PendingImage DEF BootInv, AgentProgress, DlInv
<1>3. done \in 1 .. OrigSize[OtaHeader.rel] /\ done \in Addr /\ done \in Nat
  BY <1>0, <1>2
<1>4. Restored(done) = Unit(OtaHeader.rel, "orig", done) /\ Restored(done) \in Cell
  BY <1>1, <1>3, PendingImage
<1>5. flash[done] = Blank
  BY <1>0, <1>2, <1>3 DEF RestoredBelow
<1>6. flash' = Programmed(flash, done, [i \in {0} |-> Restored(done)])
  BY <1>0, <1>3 DEF AgentCopy
<1> QED
  <2> DEFINE data == [i \in {0} |-> Restored(done)]
  <2>1. DOMAIN data = {0} /\ data[0] = Unit(OtaHeader.rel, "orig", done) /\ data[0] \in Cell
    BY <1>4
  <2>2. flash' = Programmed(flash, done, data)
    BY <1>6
  <2> HIDE DEF data
  <2>3. flash \in [Addr -> Cell] /\ done \in Nat
    BY <1>2, <1>3
  <2>4. /\ flash' \in [Addr -> Cell]
        /\ \A b \in Addr : b # done => flash'[b] = flash[b]
        /\ done \in Addr /\ flash[done] = Blank => flash'[done] = data[0]
    BY <2>1, <2>2, <2>3, CellProgrammed
  <2> QED
    BY <1>3, <1>5, <2>1, <2>4, Zenon

\* A power loss during the agent's work tears the cells it was changing.
LEMMA AgentTornCells ==
  ASSUME flash' \in AgentTorn, flash' # flash
  PROVE  \/ /\ pc = "erase"
            /\ flash' = [b \in Addr |-> IF b \in SectorOf(AppOff + done) THEN Junk ELSE flash[b]]
         \/ /\ pc = "header"
            /\ flash' = [flash EXCEPT ![AppOff] = Junk]
         \/ /\ pc = "copy" /\ done <= OrigSize[OtaHeader.rel]
            /\ flash' = [flash EXCEPT ![AppOff + done] = Junk]
BY DEF AgentTorn

\* What the agent and a power loss do to the flash.
LEMMA AgentChanges ==
  ASSUME BootInv, AgentNext \/ flash' \in AgentTorn
  PROVE  AgentChange
<1>0. /\ AppOff = 0 /\ 0 \in Addr /\ OtaOff \in Nat /\ OtaOff > 0 /\ Addr \subseteq Nat
      /\ \A a \in 0 .. OtaOff - 1 : a \in Addr
      /\ flash \in [Addr -> Cell] /\ Junk \in Cell /\ Junk.form \notin ImageForms
  BY Layout, CellFacts DEF Addr, BootInv, DlInv
<1>1. CASE flash' = flash
  BY <1>1 DEF AgentChange
<1>2. CASE pc = "erase" /\ flash' # flash
  <2>1. upg = "download_ok"
    BY <1>2, WorkIsPending DEF AgentPc
  <2>2. \/ flash' = Erased(flash, AppOff + done)
        \/ flash' = [b \in Addr |-> IF b \in SectorOf(AppOff + done) THEN Junk ELSE flash[b]]
    BY <1>2, AgentTornCells
       DEF AgentNext, AgentStart, AgentErase, AgentHeader, AgentCopy, AgentVerify, AgentSet
  <2> QED
    BY <1>2, <2>1, <2>2, EraseChange DEF AgentChange
<1>3. CASE pc = "header" /\ flash' # flash
  <2>1. upg = "download_ok"
    BY <1>3, WorkIsPending DEF AgentPc
  <2>2. CASE flash' = [flash EXCEPT ![0] = Junk]
    <3>1. /\ flash' \in [Addr -> Cell]
          /\ \A b \in Addr : b # 0 => flash'[b] = flash[b]
          /\ flash'[0].form \notin ImageForms
      BY <1>0, <2>2
    <3>2. \A b \in Addr : b >= OtaOff => b # 0
      BY <1>0
    <3> QED
      BY <1>0, <2>1, <3>1, <3>2 DEF AgentChange, HeaderOk
  <2>3. CASE AgentHeader
    <3>1. \A b \in Addr : b >= OtaOff => b # 0
      BY <1>0
    <3> QED
      BY <1>0, <1>3, <2>1, <2>3, <3>1, HeaderChange DEF AgentChange
  <2> QED
    BY <1>0, <1>3, <2>2, <2>3, AgentTornCells
       DEF AgentNext, AgentStart, AgentErase, AgentCopy, AgentVerify, AgentSet
<1>4. CASE pc = "copy" /\ flash' # flash
  <2>1. upg = "download_ok"
    BY <1>4, WorkIsPending DEF AgentPc
  <2>2. done <= OrigSize[OtaHeader.rel]
    BY <1>4, AgentTornCells
       DEF AgentNext, AgentStart, AgentErase, AgentHeader, AgentCopy, AgentVerify, AgentSet
  <2>3. /\ OrigSize[OtaHeader.rel] \in Nat /\ OrigSize[OtaHeader.rel] + 1 <= OtaOff
        /\ done \in 1 .. OrigSize[OtaHeader.rel] + 1 /\ RestoredBelow(done)
    BY <1>4, <2>1, PendingImage DEF BootInv, AgentProgress
  <2>4. /\ done \in Nat /\ done > 0 /\ done < OtaOff /\ done \in Addr
        /\ AppOff + done = done
    BY <1>0, <2>2, <2>3
  <2>5. flash[0] = Unit(OtaHeader.rel, "orig", 0)
    BY <2>4, <2>3 DEF RestoredBelow
  <2>6. flash' \in [Addr -> Cell] /\ \A b \in Addr : b # done => flash'[b] = flash[b]
    <3>1. CASE flash' = [flash EXCEPT ![done] = Junk]
      BY <1>0, <3>1
    <3>2. CASE AgentCopy
      BY <1>4, <2>2, <3>2, CopyChange
    <3> QED
      BY <1>4, <2>4, <3>1, <3>2, AgentTornCells
         DEF AgentNext, AgentStart, AgentErase, AgentHeader, AgentVerify, AgentSet
  <2>7. \A b \in Addr : b >= OtaOff => b # done
    BY <1>0, <2>4
  <2>8. 0 # done
    BY <2>4
  <2> QED
    BY <1>0, <2>1, <2>5, <2>6, <2>7, <2>8 DEF AgentChange
<1> QED
  BY <1>1, <1>2, <1>3, <1>4, AgentTornCells
     DEF AgentNext, AgentStart, AgentErase, AgentHeader, AgentCopy, AgentVerify, AgentSet

\* So the image in the OTA partition is kept, and the header of the
\* application stays good.
LEMMA AgentKeeps ==
  ASSUME BootInv, AgentChange
  PROVE  /\ flash' \in [Addr -> Cell]
         /\ OtaHeader' = OtaHeader
         /\ OtaOk' <=> OtaOk
         /\ OtaHeaderGood'
         /\ AppHeaderGood'
         /\ upg # "download_ok" => flash' = flash
<1>1. CASE flash' = flash
  BY <1>1 DEF BootInv, DlInv, OtaHeader, OtaOk, ImageOk, HeaderOk, BodyOk, OtaHeaderGood,
              AppHeaderGood, AppHeader
<1>2. CASE flash' # flash
  <2>1. /\ upg = "download_ok"
        /\ flash' \in [Addr -> Cell]
        /\ \A b \in Addr : b >= OtaOff => flash'[b] = flash[b]
        /\ HeaderOk(AppOff)' => flash'[AppOff] = Unit(OtaHeader.rel, "orig", 0)
    BY <1>2 DEF AgentChange
  <2>2. /\ OtaHeader' = OtaHeader /\ (OtaOk' <=> OtaOk)
        /\ OtaHeaderGood'
    BY <2>1, OtaKept DEF BootInv
  <2>3. AppHeaderGood'
    <3>1. /\ OtaHeader.rel \in Releases
          /\ OrigSize[OtaHeader.rel] + 1 <= OtaOff
      BY <2>1, PendingImage
    <3>2. HeaderOk(AppOff)' => AppHeader' = Unit(OtaHeader.rel, "orig", 0)
      BY <2>1 DEF AppHeader
    <3> QED
      BY <3>1, <3>2 DEF AppHeaderGood, Unit
  <2> QED
    BY <2>1, <2>2, <2>3
<1> QED
  BY <1>1, <1>2

\* The device as it is delivered.
LEMMA BootInit == Init => BootInv
<1> SUFFICES ASSUME Init PROVE BootInv
  OBVIOUS
<1>0. /\ AppOff = 0 /\ 0 \in Addr /\ OtaOff \in Nat /\ OtaOff \in Addr /\ OtaEnd \in Nat
      /\ OtaOff < OtaEnd /\ Addr \subseteq Nat /\ \A a \in 0 .. OtaOff - 1 : a \in Addr
      /\ Sector \in Nat /\ Sector > 0
  BY Layout DEF Addr
<1>1. /\ Factory \in Releases /\ OrigSize[Factory] \in Nat
      /\ OrigSize[Factory] + 1 <= OtaOff
  BY OtaAssumption, FlashAssumption DEF OtaOff
<1>2. flash = [a \in Addr |-> IF a <= OrigSize[Factory] THEN Unit(Factory, "orig", a)
                              ELSE IF a < OtaEnd THEN Blank ELSE Foreign]
  BY DEF Init
<1>3. \A k \in Nat : Unit(Factory, "orig", k) \in Cell
  BY <1>1 DEF Unit, Cell, Forms, ImageForms
<1>4. flash \in [Addr -> Cell]
  BY <1>0, <1>2, <1>3 DEF Cell
<1>5. \A a \in 0 .. OrigSize[Factory] : a \in Addr /\ flash[a] = Unit(Factory, "orig", a)
  BY <1>0, <1>1, <1>2
<1>6. flash[0] = Unit(Factory, "orig", 0)
  BY <1>1, <1>5
<1>7. HeaderOk(AppOff) /\ AppHeader.form = "orig" /\ AppHeader.rel = Factory
  BY <1>0, <1>6 DEF HeaderOk, AppHeader, Unit, ImageForms
<1>8. AppOk
  BY <1>0, <1>1, <1>5, <1>7 DEF AppOk, ImageOk, BodyOk, BodySize, AppHeader
<1>9. ~HeaderOk(OtaOff)
  <2>1. flash[OtaOff] = Blank
    BY <1>0, <1>1, <1>2
  <2> QED
    BY <2>1, CellFacts DEF HeaderOk
<1>10. DlInv
  BY <1>0, <1>4, AlignedFacts, CellFacts DEF Init, DlInit, DlInv, ZeroBuf
<1> QED
  BY <1>1, <1>7, <1>8, <1>9, <1>10
     DEF Init, BootInv, AppHeaderGood, OtaHeaderGood, Pending, AgentProgress, Pc, AgentPc

\* A step of the agent.
LEMMA AgentStepInv ==
  ASSUME BootInv, Agent
  PROVE  BootInv'
<1>0. /\ AppOff = 0 /\ 0 \in Addr /\ OtaOff \in Nat /\ OtaOff > 0 /\ Addr \subseteq Nat
      /\ \A a \in 0 .. OtaOff - 1 : a \in Addr
      /\ Sector \in Nat /\ Sector > 0
      /\ OtaOff = AppSectors * Sector
  BY Layout DEF Addr
<1>1. AgentChange
  BY AgentChanges DEF Agent
<1>2. /\ flash' \in [Addr -> Cell] /\ OtaHeader' = OtaHeader /\ (OtaOk' <=> OtaOk)
      /\ OtaHeaderGood' /\ AppHeaderGood'
  BY <1>1, AgentKeeps
<1>3. DlInv'
  BY <1>2 DEF Agent, dlVars, BootInv, DlInv, Receiving, Chunk
<1>4. upg \in {"unset", "download_ok", "restore_ok"} /\ done \in Nat
  BY DEF BootInv
<1>5. CASE AgentStart
  <2>1. flash' = flash /\ upg' = upg /\ done' = 0 /\ pc = "boot"
    BY <1>5 DEF AgentStart, Goto
  <2>2. (AppOk' <=> AppOk) /\ AppHeader' = AppHeader
    BY <2>1 DEF AppOk, ImageOk, HeaderOk, BodyOk, AppHeader
  <2>3. CASE upg # "download_ok"
    <3>1. pc' = "app" /\ AppOk
      BY <1>5, <2>3 DEF AgentStart, Goto, BootInv, Pending
    <3> QED
      BY <1>2, <1>3, <1>4, <2>1, <2>2, <2>3, <3>1
         DEF BootInv, Pending, AgentProgress, Pc, AgentPc
  <2>4. CASE upg = "download_ok"
    <3>1. OtaOk
      BY <2>4 DEF BootInv, Pending
    <3>2. pc' \in {"set", "erase"} /\ (pc' = "set" => AppOk /\ SameImage)
      BY <1>5, <2>4, <3>1 DEF AgentStart, Goto
    <3>3. AgentProgress'
      BY <1>0, <1>2, <2>1, <2>2, <3>2, AlignedFacts DEF AgentProgress, SameImage
    <3> QED
      BY <1>2, <1>3, <1>4, <2>1, <2>4, <3>1, <3>2, <3>3 DEF BootInv, Pending, Pc, AgentPc
  <2> QED
    BY <2>3, <2>4
<1>6. CASE AgentErase
  <2>0. /\ pc = "erase" /\ upg' = upg /\ flash' = Erased(flash, AppOff + done)
        /\ upg = "download_ok" /\ OtaOk
        /\ OtaHeader.form \in {"orig", "xz"}
    BY <1>6, WorkIsPending, PendingImage DEF AgentErase, AgentPc
  <2>1. \A a \in 0 .. done + Sector - 1 : flash'[a] = Blank
    BY <2>0, EraseChange
  <2>2. CASE done + Sector < OtaOff
    <3>1. done' = done + Sector /\ pc' = "erase"
      BY <1>0, <1>6, <2>0, <2>2 DEF AgentErase
    <3>2. Aligned(done') /\ done' \in Nat
      BY <3>1, <2>0, AlignedFacts DEF BootInv, AgentProgress
    <3>3. done' < OtaOff /\ \A a \in 0 .. done' - 1 : flash'[a] = Blank
      BY <1>0, <1>4, <2>1, <2>2, <3>1
    <3>4. AgentProgress'
      BY <3>1, <3>2, <3>3 DEF AgentProgress
    <3> QED
      BY <1>2, <1>3, <1>4, <2>0, <3>1, <3>2, <3>4 DEF BootInv, Pending, Pc, AgentPc
  <2>3. CASE ~(done + Sector < OtaOff)
    <3>1. done' = 0 /\ pc' = "header"
      BY <1>0, <1>6, <2>0, <2>3 DEF AgentErase, Goto
    <3>2. \A a \in 0 .. OtaOff - 1 : flash'[a] = Blank
      BY <1>0, <1>4, <2>1, <2>3
    <3> QED
      BY <1>2, <1>3, <1>4, <2>0, <3>1, <3>2
         DEF BootInv, Pending, AgentProgress, Pc, AgentPc
  <2> QED
    BY <2>2, <2>3
<1>7. CASE AgentHeader
  <2>0. /\ pc = "header" /\ upg' = upg /\ pc' = "copy" /\ done' = 1
        /\ upg = "download_ok" /\ OtaOk
        /\ OrigSize[OtaHeader.rel] \in Nat
        /\ \A a \in 0 .. OtaOff - 1 : flash[a] = Blank
    BY <1>7, WorkIsPending, PendingImage DEF AgentHeader, AgentPc, BootInv, AgentProgress
  <2>1. /\ \A b \in Addr : b # 0 => flash'[b] = flash[b]
        /\ flash'[0] = Unit(OtaHeader.rel, "orig", 0)
    BY <1>7, <2>0, HeaderChange
  <2>2. \A a \in 1 .. OtaOff - 1 : flash'[a] = Blank
    BY <1>0, <2>0, <2>1
  <2>3. RestoredBelow(1)' /\ done' \in 1 .. OrigSize[OtaHeader'.rel] + 1
    BY <1>0, <1>2, <2>0, <2>1, <2>2 DEF RestoredBelow
  <2>4. RestoredBelow(done)'
    BY <2>0, <2>3 DEF RestoredBelow
  <2> QED
    BY <1>2, <1>3, <1>4, <2>0, <2>3, <2>4 DEF BootInv, Pending, AgentProgress, Pc, AgentPc
<1>8. CASE AgentCopy
  <2>0. /\ pc = "copy" /\ upg' = upg /\ upg = "download_ok" /\ OtaOk
        /\ OtaHeader.rel \in Releases
        /\ OrigSize[OtaHeader.rel] \in Nat /\ OrigSize[OtaHeader.rel] + 1 <= OtaOff
        /\ done \in 1 .. OrigSize[OtaHeader.rel] + 1 /\ RestoredBelow(done)
    BY <1>8, WorkIsPending, PendingImage DEF AgentCopy, AgentPc, BootInv, AgentProgress
  <2>1. CASE done <= OrigSize[OtaHeader.rel]
    <3>1. /\ \A b \in Addr : b # done => flash'[b] = flash[b]
          /\ flash'[done] = Unit(OtaHeader.rel, "orig", done)
      BY <1>8, <2>0, <2>1, CopyChange
    <3>2. done' = done + 1 /\ pc' = "copy"
      BY <1>8, <2>0, <2>1 DEF AgentCopy
    <3>3. \A a \in 0 .. done' - 1 : flash'[a] = Unit(OtaHeader'.rel, "orig", a)
      <4> SUFFICES ASSUME NEW a \in 0 .. done' - 1
                   PROVE  flash'[a] = Unit(OtaHeader.rel, "orig", a)
        BY <1>2
      <4>1. a \in Addr /\ (a = done \/ a \in 0 .. done - 1)
        BY <1>0, <2>0, <2>1, <3>2
      <4> QED
        BY <2>0, <3>1, <4>1 DEF RestoredBelow
    <3>4. \A a \in done' .. OtaOff - 1 : flash'[a] = Blank
      <4> SUFFICES ASSUME NEW a \in done' .. OtaOff - 1 PROVE flash'[a] = Blank
        OBVIOUS
      <4>1. a \in Addr /\ a # done /\ a \in done .. OtaOff - 1
        BY <1>0, <2>0, <3>2
      <4> QED
        BY <2>0, <3>1, <4>1 DEF RestoredBelow
    <3>5. RestoredBelow(done)' /\ done' \in 1 .. OrigSize[OtaHeader'.rel] + 1 /\ done' \in Nat
      BY <1>2, <2>0, <2>1, <3>2, <3>3, <3>4 DEF RestoredBelow
    <3> QED
      BY <1>2, <1>3, <1>4, <2>0, <3>2, <3>5 DEF BootInv, Pending, AgentProgress, Pc, AgentPc
  <2>2. CASE ~(done <= OrigSize[OtaHeader.rel])
    <3>1. flash' = flash /\ done' = 0 /\ pc' = "verify"
      BY <1>8, <2>0, <2>2 DEF AgentCopy, Goto
    <3>2. \A a \in 0 .. OrigSize[OtaHeader.rel] :
            a \in Addr /\ flash[a] = Unit(OtaHeader.rel, "orig", a)
      BY <1>0, <2>0, <2>2 DEF RestoredBelow
    <3>3. AppHeader = Unit(OtaHeader.rel, "orig", 0)
      BY <1>0, <2>0, <3>2 DEF AppHeader
    <3>4. AppOk /\ AppHeader.rel = OtaHeader.rel
      BY <1>0, <2>0, <3>2, <3>3
         DEF AppOk, ImageOk, HeaderOk, BodyOk, BodySize, AppHeader, Unit, ImageForms
    <3>5. AppOk' /\ AppHeader'.rel = OtaHeader'.rel
      BY <3>1, <3>4 DEF AppOk, ImageOk, HeaderOk, BodyOk, AppHeader, OtaHeader
    <3> QED
      BY <1>2, <1>3, <1>4, <2>0, <3>1, <3>5 DEF BootInv, Pending, AgentProgress, Pc, AgentPc
  <2> QED
    BY <2>1, <2>2
<1>9. CASE AgentVerify
  <2>1. /\ pc = "verify" /\ flash' = flash /\ upg' = upg /\ done' = 0
        /\ AppOk /\ AppHeader.rel = OtaHeader.rel /\ pc' = "set"
        /\ upg = "download_ok" /\ OtaOk
    BY <1>9, WorkIsPending, PendingImage DEF AgentVerify, Goto, AgentPc, BootInv, AgentProgress
  <2>2. AppOk' /\ AppHeader'.rel = OtaHeader'.rel
    BY <2>1 DEF AppOk, ImageOk, HeaderOk, BodyOk, AppHeader, OtaHeader
  <2> QED
    BY <1>2, <1>3, <1>4, <2>1, <2>2 DEF BootInv, Pending, AgentProgress, Pc, AgentPc
<1>10. CASE AgentSet
  <2>1. /\ pc = "set" /\ flash' = flash /\ upg' = "restore_ok" /\ done' = 0
        /\ AppOk /\ pc' = "app"
    BY <1>10 DEF AgentSet, Goto, BootInv, AgentProgress
  <2>2. AppOk'
    BY <2>1 DEF AppOk, ImageOk, HeaderOk, BodyOk
  <2> QED
    BY <1>2, <1>3, <1>4, <2>1, <2>2 DEF BootInv, Pending, AgentProgress, Pc, AgentPc
<1> QED
  BY <1>5, <1>6, <1>7, <1>8, <1>9, <1>10 DEF Agent, AgentNext

\* A step of the downloader, and a power loss during it.
LEMMA DownloadFrame ==
  ASSUME BootInv, ImagesFillSector, pc = "app", DlNext \/ flash' \in DlTorn
  PROVE  /\ flash' \in [Addr -> Cell]
         /\ AppHeader' = AppHeader
         /\ AppOk /\ AppOk'
         /\ AppHeaderGood' /\ OtaHeaderGood'
         /\ upg # "download_ok"
<1>1. AppOk /\ upg # "download_ok" /\ AppHeaderGood /\ OtaHeaderGood /\ DlInv
  BY DEF BootInv, Pending
<1>2. /\ flash' \in [Addr -> Cell] /\ OtaHeaderGood'
      /\ \A b \in Addr : b < OtaOff => flash'[b] = flash[b]
  BY <1>1, DownloadKeeps
<1> QED
  BY <1>1, <1>2, AppKept

\* The invariant of the upgrade is inductive.
LEMMA BootStepInv ==
  ASSUME BootInv, ImagesFillSector, [Next]_otaVars
  PROVE  BootInv'
<1>1. CASE Agent
  BY <1>1, AgentStepInv
<1>2. CASE Download
  <2>1. /\ pc = "app" /\ pc' = pc /\ done' = done /\ DlNext
        /\ done \in Nat /\ upg \in {"unset", "download_ok", "restore_ok"}
    BY <1>2 DEF Download, agentVars, BootInv
  <2>2. upg' = upg
    BY <2>1 DEF DlNext, AtHttpOta, Connect, ConnectFails, Receive, ReceiveEnd, PeerClose,
                ReadError, LoopEnd, TaskEnd
  <2>3. AppHeaderGood' /\ OtaHeaderGood' /\ AppOk' /\ upg # "download_ok"
    BY <2>1, DownloadFrame
  <2>4. DlInv'
    BY <2>1, DlStepInv DEF BootInv
  <2> QED
    BY <2>1, <2>2, <2>3, <2>4 DEF BootInv, Pending, AgentProgress, Pc, AgentPc
<1>3. CASE Reboot
  <2>1. /\ pc = "app" /\ OtaOk /\ upg' = "download_ok" /\ pc' = "boot" /\ done' = 0
        /\ DlReset /\ flash' = flash
    BY <1>3 DEF Reboot, Accepted, Goto
  <2>2. DlInv'
    BY <2>1, DlResetInv DEF BootInv, DlInv
  <2>3. OtaOk' /\ AppHeaderGood' /\ OtaHeaderGood'
    BY <2>1 DEF BootInv, OtaOk, ImageOk, HeaderOk, BodyOk, AppHeaderGood, OtaHeaderGood,
                AppHeader, OtaHeader
  <2> QED
    BY <2>1, <2>2, <2>3 DEF BootInv, Pending, AgentProgress, Pc, AgentPc
<1>b. CASE BleStart
  <2>1. /\ pc = "app" /\ upg' = upg /\ pc' = "ble" /\ done' = 0 /\ DlReset /\ flash' = flash
    BY <1>b DEF BleStart, Goto
  <2>2. DlInv'
    BY <2>1, DlResetInv DEF BootInv, DlInv
  <2>3. AppOk' /\ AppHeaderGood' /\ OtaHeaderGood' /\ upg # "download_ok"
    BY <2>1 DEF BootInv, Pending, AppOk, ImageOk, HeaderOk, BodyOk, AppHeaderGood,
                OtaHeaderGood, AppHeader, OtaHeader
  <2> QED
    BY <2>1, <2>2, <2>3 DEF BootInv, Pending, AgentProgress, Pc, AgentPc
<1>4. CASE PowerLoss
  <2>1. /\ upg' = upg /\ pc' = "boot" /\ done' = 0 /\ DlReset
        /\ upg \in {"unset", "download_ok", "restore_ok"}
    BY <1>4 DEF PowerLoss, Goto, BootInv
  <2>2. CASE pc = "app"
    <3>1. /\ AppHeaderGood' /\ OtaHeaderGood' /\ AppOk' /\ upg # "download_ok"
          /\ flash' \in [Addr -> Cell]
      BY <1>4, <2>2, DownloadFrame DEF PowerLoss
    <3> QED
      BY <2>1, <3>1, DlResetInv DEF BootInv, Pending, AgentProgress, Pc, AgentPc
  <2>3. CASE pc # "app"
    <3>1. /\ flash' \in [Addr -> Cell] /\ OtaHeaderGood' /\ AppHeaderGood'
          /\ (OtaOk' <=> OtaOk) /\ (upg # "download_ok" => flash' = flash)
      BY <1>4, <2>3, AgentChanges, AgentKeeps DEF PowerLoss
    <3>2. upg # "download_ok" => AppOk'
      BY <3>1 DEF BootInv, Pending, AppOk, ImageOk, HeaderOk, BodyOk
    <3> QED
      BY <2>1, <3>1, <3>2, DlResetInv DEF BootInv, Pending, AgentProgress, Pc, AgentPc
  <2> QED
    BY <2>2, <2>3
<1>5. CASE UNCHANGED otaVars
  BY <1>5 DEF otaVars, agentVars, dlVars, BootInv, DlInv, Receiving, Chunk, AppHeaderGood,
              OtaHeaderGood, HeaderOk, AppHeader, OtaHeader, Pending, AgentProgress,
              AppOk, OtaOk, ImageOk, BodyOk, RestoredBelow
<1> QED
  BY <1>1, <1>2, <1>3, <1>b, <1>4, <1>5 DEF Next

\* Typing, the two headers, the pending image and the progress of the agent:
\* at every moment of every upgrade, whatever power losses and server
\* answers.  In particular the bootloader never gives up ("halt").
THEOREM OtaInvariant == ASSUME ImagesFillSector PROVE Spec => []BootInv
<1>1. BootInv /\ [Next]_otaVars => BootInv'
  BY BootStepInv
<1> QED
  BY <1>1, BootInit, PTL DEF Spec

\* At every moment the device has a whole application, or the upgrade state
\* leads the next boot to a whole image that restore_image can install.
THEOREM OtaBootable == ASSUME ImagesFillSector PROVE Spec => []Bootable
<1>1. BootInv => Bootable
  BY PendingImage DEF BootInv, Pending, Bootable
<1> QED
  BY <1>1, OtaInvariant, PTL

\* Whenever the bootloader has jumped to the application, it is whole.
THEOREM OtaRunsWholeApp == ASSUME ImagesFillSector PROVE Spec => []RunsWholeApp
<1>1. BootInv => RunsWholeApp
  BY DEF BootInv, Pending, RunsWholeApp
<1> QED
  BY <1>1, OtaInvariant, PTL

----------------------------------------------------------------------------
(* The upgrade implements the atomic change of release.                    *)

\* What the two states of the refinement are under the invariant.
LEMMA RefinedState ==
  ASSUME BootInv
  PROVE  /\ Staged = IF upg = "download_ok" THEN OtaHeader.rel ELSE None
         /\ Staged # None => Staged \in Releases
         /\ AppOk => Running = AppHeader.rel
         /\ ~AppOk => Running = Staged
BY PendingImage, FlashAssumption DEF BootInv, Pending, Staged, Running

\* A change of the flash by the agent installs the staged release, or shows
\* no change.
LEMMA AgentRefines ==
  ASSUME BootInv, BootInv', AgentChange, upg' = upg
  PROVE  F!Install \/ UNCHANGED F!fwVars
<1>1. CASE flash' = flash
  <2>1. Staged' = Staged /\ Running' = Running
    BY <1>1 DEF Staged, Running, OtaOk, AppOk, ImageOk, HeaderOk, BodyOk, OtaHeader, AppHeader
  <2> QED
    BY <2>1 DEF F!fwVars
<1>2. CASE flash' # flash
  <2>1. /\ upg = "download_ok" /\ OtaHeader' = OtaHeader
        /\ HeaderOk(AppOff)' => flash'[AppOff] = Unit(OtaHeader.rel, "orig", 0)
    BY <1>2, AgentKeeps DEF AgentChange
  <2>2. Staged' = Staged /\ Staged = OtaHeader.rel /\ Staged # None
    <3>1. Staged' = IF upg' = "download_ok" THEN OtaHeader'.rel ELSE None
      BY OtaKept, <1>2, <2>1 DEF Staged, AgentChange, BootInv, Pending
    <3> QED
      BY <2>1, <3>1, RefinedState, PendingImage
  <2>3. Running' = Staged
    <3>1. CASE AppOk'
      <4>1. Running' = AppHeader'.rel /\ HeaderOk(AppOff)'
        BY <3>1 DEF Running, AppOk, ImageOk
      <4> QED
        BY <2>1, <2>2, <4>1 DEF AppHeader, Unit
    <3>2. CASE ~AppOk'
      BY <2>2, <3>2 DEF Running
    <3> QED
      BY <3>1, <3>2
  <2> QED
    BY <2>2, <2>3 DEF F!Install
<1> QED
  BY <1>1, <1>2

\* Every step of the upgrade is a step of the abstract one, or shows none.
LEMMA StepRefines ==
  ASSUME BootInv, BootInv', ImagesFillSector, [Next]_otaVars
  PROVE  F!Next \/ UNCHANGED F!fwVars
<1>0. None \notin Releases
  BY FlashAssumption
<1>1. CASE Agent
  <2>1. CASE AgentSet
    <3>1. /\ pc = "set" /\ flash' = flash /\ upg' = "restore_ok"
          /\ AppOk /\ AppHeader.rel = OtaHeader.rel /\ upg = "download_ok" /\ OtaOk
      BY <2>1, WorkIsPending, PendingImage
         DEF AgentSet, Goto, BootInv, AgentProgress, AgentPc
    <3>2. AppOk' /\ AppHeader' = AppHeader
      BY <3>1 DEF AppOk, ImageOk, HeaderOk, BodyOk, AppHeader
    <3>3. Running' = Running /\ Staged' = None /\ Staged = Running
      BY <3>1, <3>2 DEF Running, Staged
    <3> QED
      BY <3>3 DEF F!Next, F!Finish
  <2>2. CASE upg' = upg
    BY <1>1, <2>2, AgentChanges, AgentRefines DEF Agent, F!Next
  <2> QED
    BY <1>1, <2>1, <2>2 DEF Agent, AgentNext, AgentStart, AgentErase, AgentHeader, AgentCopy,
                            AgentVerify
<1>2. CASE Download
  <2>1. pc = "app" /\ DlNext
    BY <1>2 DEF Download
  <2>2. upg' = upg
    BY <2>1 DEF DlNext, AtHttpOta, Connect, ConnectFails, Receive, ReceiveEnd, PeerClose,
                ReadError, LoopEnd, TaskEnd
  <2>3. AppHeader' = AppHeader /\ AppOk /\ AppOk' /\ upg # "download_ok"
    BY <2>1, DownloadFrame
  <2>4. Running' = Running /\ Staged' = Staged
    BY <2>2, <2>3 DEF Running, Staged
  <2> QED
    BY <2>4 DEF F!fwVars
<1>3. CASE Reboot
  <2>1. /\ pc = "app" /\ OtaOk /\ upg' = "download_ok" /\ flash' = flash
        /\ upg # "download_ok" /\ AppOk
    BY <1>3 DEF Reboot, Accepted, BootInv, Pending
  <2>2. /\ AppOk' /\ AppHeader' = AppHeader /\ OtaOk' /\ OtaHeader' = OtaHeader
    BY <2>1 DEF AppOk, OtaOk, ImageOk, HeaderOk, BodyOk, AppHeader, OtaHeader
  <2>3. Staged = None /\ Staged' = OtaHeader.rel /\ Running' = Running
    BY <2>1, <2>2 DEF Staged, Running
  <2>4. OtaHeader.rel \in Releases
    BY <2>1 DEF BootInv, OtaHeaderGood, OtaOk, ImageOk
  <2> QED
    BY <2>3, <2>4 DEF F!Next, F!Stage
<1>b. CASE BleStart
  BY <1>b DEF BleStart, F!fwVars, Staged, Running, OtaOk, AppOk, ImageOk, HeaderOk, BodyOk,
              OtaHeader, AppHeader
<1>4. CASE PowerLoss
  <2>1. upg' = upg
    BY <1>4 DEF PowerLoss
  <2>2. CASE pc = "app"
    <3>1. AppHeader' = AppHeader /\ AppOk /\ AppOk' /\ upg # "download_ok"
      BY <1>4, <2>2, DownloadFrame DEF PowerLoss
    <3>2. Running' = Running /\ Staged' = Staged
      BY <2>1, <3>1 DEF Running, Staged
    <3> QED
      BY <3>2 DEF F!fwVars
  <2>3. CASE pc # "app"
    BY <1>4, <2>1, <2>3, AgentChanges, AgentRefines DEF PowerLoss, F!Next
  <2> QED
    BY <2>2, <2>3
<1>5. CASE UNCHANGED otaVars
  BY <1>5 DEF otaVars, F!fwVars, Staged, Running, OtaOk, AppOk, ImageOk, HeaderOk, BodyOk,
              OtaHeader, AppHeader
<1> QED
  BY <1>1, <1>2, <1>3, <1>b, <1>4, <1>5 DEF Next

\* The safety part of UpgradeIsAtomic: upgrades and power losses together
\* look like an atomic change of release, and only a whole release that was
\* staged ever replaces the one that runs.
THEOREM OtaUpgradeIsAtomic ==
  ASSUME ImagesFillSector
  PROVE  Spec => F!Init /\ [][F!Next]_(F!fwVars)
<1>1. Init => F!Init
  <2> SUFFICES ASSUME Init PROVE F!Init
    OBVIOUS
  <2>1. BootInv /\ upg = "unset"
    BY BootInit DEF Init
  <2>2. AppOk /\ AppHeader.rel \in Releases
    BY <2>1 DEF BootInv, Pending, AppHeaderGood, AppOk, ImageOk
  <2> QED
    BY <2>1, <2>2 DEF F!Init, Running, Staged
<1>2. BootInv /\ BootInv' /\ [Next]_otaVars => [F!Next]_(F!fwVars)
  BY StepRefines
<1> QED
  BY <1>1, <1>2, OtaInvariant, PTL DEF Spec

----------------------------------------------------------------------------
(* The download is kept in order, and where it can leave its partition.    *)

\* The first n units of the file are in their places in the OTA partition.
InPlace(n) == \A i \in 0 .. n - 1 : flash[OtaOff + i] = Chunk(i)

\* Every unit received is in its place or waits in the buffer.
NothingLost ==
  \A i \in 0 .. pos - 1 :
    \/ flash[OtaOff + i] = Chunk(i)
    \/ i - foff \in 0 .. boff - 1 /\ buf[i - foff] = Chunk(i)

\* While a file is received its saved sectors lie in the partition and are in
\* order, and a file that was saved in part has passed the pre-check; the
\* downloader runs in the application only.
StreamInv ==
  /\ pc # "app" => dl = "none"
  /\ dl = "recv" => /\ InPlace(foff)
                    /\ OtaOff + foff <= OtaEnd
                    /\ foff > 0 => XzSize[file.rel] + 1 <= OtaSectors * Sector
  /\ dl = "ret" /\ recv > 0 => NothingLost
  /\ OverrunsOnlyUnchecked

\* What is not in the flash is in the buffer.
LEMMA ReceivedIsKept ==
  ASSUME DlInv, dl = "recv", StreamInv
  PROVE  NothingLost
<1>0. /\ foff \in Nat /\ boff \in Nat /\ pos = foff + boff
      /\ \A i \in 0 .. boff - 1 : buf[i] = Chunk(foff + i)
      /\ \A i \in 0 .. foff - 1 : flash[OtaOff + i] = Chunk(i)
  BY DlNumbers DEF DlInv, Receiving, StreamInv, InPlace
<1> SUFFICES ASSUME NEW i \in 0 .. pos - 1
             PROVE  \/ flash[OtaOff + i] = Chunk(i)
                    \/ i - foff \in 0 .. boff - 1 /\ buf[i - foff] = Chunk(i)
  BY DEF NothingLost
<1>1. CASE i < foff
  <2>1. i \in 0 .. foff - 1
    BY <1>0, <1>1
  <2> QED
    BY <1>0, <2>1
<1>2. CASE i >= foff
  <2>1. PICK k \in 0 .. boff - 1 : k = i - foff /\ foff + k = i
    BY <1>0, <1>2
  <2> QED
    BY <1>0, <2>1
<1> QED
  BY <1>0, <1>1, <1>2

\* A sector that starts in the partition ends in it.
LEMMA RoomToSave ==
  ASSUME DlInv, InPartition
  PROVE  /\ OtaOff + foff + Sector <= OtaEnd
         /\ \A i \in 0 .. foff + Sector - 1 : OtaOff + i \in Addr
<1>0. /\ Sector \in Nat /\ Sector > 0 /\ foff \in Nat
      /\ OtaOff \in Nat /\ OtaEnd \in Nat
      /\ FlashSize \in Nat /\ FlashSize >= OtaEnd + Sector
  BY DlNumbers, Layout
<1>1. OtaOff + foff + Sector <= OtaEnd
  <2>1. Aligned(OtaOff + foff) /\ Aligned(OtaEnd) /\ OtaOff + foff < OtaEnd
    BY AlignedFacts DEF DlInv, InPartition
  <2> QED
    BY <2>1, AlignedFacts
<1>2. \A i \in 0 .. foff + Sector - 1 : OtaOff + i \in Addr
  BY <1>0, <1>1 DEF Addr
<1> QED
  BY <1>1, <1>2

\* Saving a sector of the partition extends the saved part of the file.
LEMMA SaveExtends ==
  ASSUME DlInv, dl = "recv", StreamInv, InPartition,
         NEW n \in 0 .. Sector, NEW data \in [0 .. Sector - 1 -> Cell],
         \A i \in 0 .. n - 1 : data[i] = Chunk(foff + i),
         Save(data)
  PROVE  \A i \in 0 .. foff + n - 1 : flash'[OtaOff + i] = Chunk(i)
<1> DEFINE a == OtaOff + foff
<1>0. /\ Sector \in Nat /\ Sector > 0 /\ foff \in Nat /\ OtaOff \in Nat /\ OtaEnd \in Nat
      /\ Aligned(a) /\ a \in Nat /\ n \in Nat /\ n <= Sector
      /\ FlashSize \in Nat /\ Addr \subseteq Nat
  BY DlNumbers, Layout, AlignedFacts DEF DlInv
<1>1. \A i \in 0 .. foff + Sector - 1 : OtaOff + i \in Addr
  BY RoomToSave
<1>2. /\ \A b \in Addr : a <= b /\ b < a + Sector => flash'[b] = data[b - a]
      /\ \A b \in Addr : ~(a <= b /\ b < a + Sector) => flash'[b] = flash[b]
  BY <1>0, SectorWritten DEF DlInv, Save
<1> SUFFICES ASSUME NEW i \in 0 .. foff + n - 1 PROVE flash'[OtaOff + i] = Chunk(i)
  OBVIOUS
<1>3. i \in Nat /\ OtaOff + i \in Addr
  <2>1. i \in 0 .. foff + Sector - 1
    BY <1>0
  <2> QED
    BY <1>1, <2>1
<1>4. CASE i < foff
  <2>1. ~(a <= OtaOff + i) /\ i \in 0 .. foff - 1
    BY <1>0, <1>3, <1>4
  <2> QED
    BY <1>2, <1>3, <2>1 DEF StreamInv, InPlace
<1>5. CASE i >= foff
  <2>1. /\ a <= OtaOff + i /\ OtaOff + i < a + Sector
        /\ OtaOff + i - a = i - foff /\ i - foff \in 0 .. n - 1 /\ foff + (i - foff) = i
    BY <1>0, <1>3, <1>5
  <2>2. flash'[OtaOff + i] = data[i - foff]
    <3>1. PICK b \in Addr : b = OtaOff + i
      BY <1>3
    <3>2. b - a = i - foff /\ a <= b /\ b < a + Sector
      BY <1>0, <2>1, <3>1
    <3>3. flash'[b] = data[b - a]
      BY <1>2, <3>2
    <3> HIDE DEF a
    <3> QED
      BY <3>1, <3>2, <3>3
  <2> QED
    BY <2>1, <2>2
<1> QED
  BY <1>0, <1>3, <1>4, <1>5

\* A file that is saved has passed the pre-check of its sizes.
LEMMA SavedIsChecked ==
  ASSUME DlInv, dl = "recv", StreamInv, NEW c \in 1 .. MaxChunk, Saves(c)
  PROVE  XzSize[file.rel] + 1 <= OtaSectors * Sector
<1>0. foff \in Nat /\ Sector \in Nat /\ Sector > 0
  BY DlNumbers
<1>1. CASE foff > 0
  BY <1>1 DEF StreamInv
<1>2. CASE foff = 0
  <2>1. Precheck(Filled(Sector - boff)[0])
    BY <1>2 DEF Saves
  <2>2. Filled(Sector - boff)[0] = Chunk(foff + 0)
    BY <1>0, FullBuffer
  <2>3. Filled(Sector - boff)[0].rel = file.rel
    BY <2>2 DEF Chunk, Unit
  <2> QED
    BY <2>1, <2>3 DEF Precheck
<1> QED
  BY <1>0, <1>1, <1>2

\* So a compressed image that does not fill the partition never leaves it.
LEMMA OverrunIsUnchecked ==
  ASSUME DlInv, dl = "recv", StreamInv, ~InPartition,
         NEW c \in 0 .. MaxChunk, pos + c <= FileLen(file),
         \/ c > 0 /\ Saves(c)
         \/ c = 0 /\ pos = FileLen(file)
  PROVE  file.form = "orig" \/ FileLen(file) = OtaSectors * Sector
<1>0. /\ Sector \in Nat /\ Sector > 0 /\ foff \in Nat /\ boff \in Nat /\ pos = foff + boff
      /\ file \in Files /\ file.rel \in Releases /\ FileLen(file) \in Nat
      /\ OtaOff \in Nat /\ OtaEnd \in Nat /\ OtaEnd = OtaOff + OtaSectors * Sector
      /\ OtaEnd >= OtaOff + Sector /\ MaxChunk \in Nat
      /\ foff > 0 => file.form \in {"orig", "xz"}
  BY DlNumbers, Layout, FileFacts DEF DlInv, Receiving
<1>1. OtaSectors * Sector \in Nat /\ foff >= OtaSectors * Sector /\ foff > 0
  <2>1. OtaSectors * Sector \in Nat
    BY FlashAssumption
  <2> QED
    BY <1>0, <2>1 DEF InPartition
<1>2. XzSize[file.rel] + 1 <= OtaSectors * Sector /\ XzSize[file.rel] \in Nat
  BY <1>0, <1>1, FlashAssumption DEF StreamInv
<1> SUFFICES ASSUME file.form # "orig" PROVE FileLen(file) = OtaSectors * Sector
  OBVIOUS
<1>3. FileLen(file) = XzSize[file.rel] + 1
  BY <1>0, <1>1, <1>2 DEF FileLen, BodySize
<1> QED
  BY <1>0, <1>1, <1>2, <1>3

\* A step of the downloader.
LEMMA StreamStep ==
  ASSUME DlInv, StreamInv, DlNext, pc' = "app"
  PROVE  StreamInv'
<1>0. /\ Sector \in Nat /\ Sector > 0 /\ MaxChunk \in Nat /\ MaxChunk <= Sector
      /\ boff \in Nat /\ foff \in Nat /\ pos \in Nat
      /\ OtaOff \in Nat /\ OtaEnd \in Nat /\ OtaEnd >= OtaOff
  BY DlNumbers, Layout
<1>1. CASE AtHttpOta
  BY <1>1 DEF AtHttpOta, StreamInv, OverrunsOnlyUnchecked
<1>2. ASSUME NEW f \in Files, Connect(f) PROVE StreamInv'
  BY <1>0, <1>2 DEF Connect, StreamInv, OverrunsOnlyUnchecked, InPlace
<1>3. ASSUME NEW r \in {-1, 0}, ConnectFails(r) PROVE StreamInv'
  BY <1>3 DEF ConnectFails, StreamInv, OverrunsOnlyUnchecked
<1>4. ASSUME NEW c \in 1 .. MaxChunk, Receive(c) PROVE StreamInv'
  <2>0. dl = "recv" /\ file' = file /\ pos + c <= FileLen(file)
    BY <1>4 DEF Receive
  <2>1. CASE Buffered(c)
    BY <2>0, <2>1 DEF Buffered, StreamInv, InPlace, OverrunsOnlyUnchecked, Chunk
  <2>2. CASE Refused(c)
    BY <2>0, <2>2 DEF Refused, StreamInv, OverrunsOnlyUnchecked
  <2>3. CASE Saved(c) /\ InPartition
    <3>1. /\ Filled(Sector - boff) \in [0 .. Sector - 1 -> Cell]
          /\ \A i \in 0 .. Sector - 1 : Filled(Sector - boff)[i] = Chunk(foff + i)
      BY <2>0, <2>3, FullBuffer DEF Saved
    <3>2. /\ Save(Filled(Sector - boff)) /\ Saves(c)
          /\ foff' = foff + Sector /\ dl' = "recv"
      BY <2>0, <2>3 DEF Saved
    <3>3. \A i \in 0 .. foff + Sector - 1 : flash'[OtaOff + i] = Chunk(i)
      <4>1. Sector \in 0 .. Sector
        BY <1>0
      <4> QED
        BY <2>0, <2>3, <3>1, <3>2, <4>1, SaveExtends
    <3>4. \A i \in 0 .. foff' - 1 : flash'[OtaOff + i] = Unit(file'.rel, file'.form, i)
      BY <1>0, <2>0, <3>2, <3>3 DEF Chunk
    <3>5. XzSize[file'.rel] + 1 <= OtaSectors * Sector
      BY <2>0, <3>2, SavedIsChecked
    <3>6. OtaOff + foff' <= OtaEnd
      BY <1>0, <2>3, <3>2, RoomToSave
    <3> QED
      BY <3>2, <3>4, <3>5, <3>6 DEF StreamInv, InPlace, OverrunsOnlyUnchecked, Chunk
  <2>4. CASE Saved(c) /\ ~InPartition
    <3>1. Saves(c) /\ dl' = "overrun" /\ c \in 0 .. MaxChunk /\ c > 0
      BY <1>0, <2>4 DEF Saved
    <3>2. file.form = "orig" \/ FileLen(file) = OtaSectors * Sector
      BY <2>0, <2>4, <3>1, OverrunIsUnchecked
    <3> QED
      BY <2>0, <3>1, <3>2 DEF StreamInv, OverrunsOnlyUnchecked, FileLen
  <2> QED
    BY <1>4, <2>1, <2>2, <2>3, <2>4 DEF Receive
<1>5. CASE ReceiveEnd
  <2>0. /\ dl = "recv" /\ file' = file /\ pos' = pos /\ pos = FileLen(file)
        /\ dl' = IF InPartition THEN "ret" ELSE "overrun"
        /\ Save(buf)
    BY <1>5 DEF ReceiveEnd
  <2>1. /\ pos = foff + boff /\ boff \in 0 .. Sector
        /\ buf \in [0 .. Sector - 1 -> Cell]
        /\ \A i \in 0 .. boff - 1 : buf[i] = Chunk(foff + i)
    BY <2>0 DEF DlInv, Receiving
  <2>2. CASE InPartition
    <3>1. \A i \in 0 .. foff + boff - 1 : flash'[OtaOff + i] = Chunk(i)
      BY <2>0, <2>1, <2>2, SaveExtends
    <3>2. \A i \in 0 .. pos' - 1 : flash'[OtaOff + i] = Unit(file'.rel, file'.form, i)
      BY <1>0, <2>0, <2>1, <3>1 DEF Chunk
    <3> QED
      BY <2>0, <2>2, <3>2 DEF StreamInv, NothingLost, OverrunsOnlyUnchecked, Chunk
  <2>3. CASE ~InPartition
    <3>1. pos + 0 <= FileLen(file) /\ 0 \in 0 .. MaxChunk
      BY <1>0, <2>0
    <3>2. file.form = "orig" \/ FileLen(file) = OtaSectors * Sector
      BY <2>0, <2>3, <3>1, OverrunIsUnchecked
    <3> QED
      BY <2>0, <2>3, <3>2 DEF StreamInv, OverrunsOnlyUnchecked, FileLen
  <2> QED
    BY <2>2, <2>3
<1>6. CASE PeerClose
  <2>1. dl = "recv" /\ NothingLost
    BY <1>6, ReceivedIsKept DEF PeerClose
  <2>2. NothingLost'
    BY <1>6, <2>1 DEF PeerClose, NothingLost, Chunk
  <2> QED
    BY <1>6, <2>1, <2>2 DEF PeerClose, StreamInv, OverrunsOnlyUnchecked
<1>7. CASE ReadError
  BY <1>7 DEF ReadError, StreamInv, OverrunsOnlyUnchecked
<1>8. CASE LoopEnd
  BY <1>8 DEF LoopEnd, StreamInv, OverrunsOnlyUnchecked
<1>9. CASE TaskEnd
  BY <1>9 DEF TaskEnd, StreamInv, OverrunsOnlyUnchecked
<1> QED
  BY <1>1, <1>2, <1>3, <1>4, <1>5, <1>6, <1>7, <1>8, <1>9 DEF DlNext

\* A step of the upgrade keeps the stream in order.
LEMMA StreamStepInv ==
  ASSUME BootInv, StreamInv, [Next]_otaVars
  PROVE  StreamInv'
<1>1. CASE Agent
  BY <1>1 DEF Agent, AgentNext, AgentStart, AgentErase, AgentHeader, AgentCopy, AgentVerify,
              AgentSet, dlVars, StreamInv, OverrunsOnlyUnchecked
<1>2. CASE Download
  BY <1>2, StreamStep DEF Download, agentVars, BootInv
<1>3. CASE Reboot \/ BleStart \/ PowerLoss
  BY <1>3 DEF Reboot, BleStart, PowerLoss, DlReset, StreamInv, OverrunsOnlyUnchecked
<1>4. CASE UNCHANGED otaVars
  BY <1>4 DEF otaVars, agentVars, dlVars, StreamInv, InPlace, NothingLost,
              OverrunsOnlyUnchecked, Chunk, FileLen
<1> QED
  BY <1>1, <1>2, <1>3, <1>4 DEF Next

\* The stream is in order at every moment.
LEMMA StreamInvariant ==
  ASSUME ImagesFillSector
  PROVE  Spec => []StreamInv
<1>1. Init => StreamInv
  BY DEF Init, DlInit, StreamInv, OverrunsOnlyUnchecked
<1>2. BootInv /\ StreamInv /\ [Next]_otaVars => StreamInv'
  BY StreamStepInv
<1> QED
  BY <1>1, <1>2, OtaInvariant, PTL DEF Spec

\* Every unit that is counted as received is in its place in the OTA partition
\* or waits in the buffer, however the file was cut into chunks, whatever an
\* earlier attempt left in the buffer, however large the file is and whether
\* the end of the body was announced or the peer just closed.
THEOREM OtaStreamInOrder ==
  ASSUME ImagesFillSector
  PROVE  Spec => []StreamInOrder
<1>1. BootInv /\ StreamInv => StreamInOrder
  BY ReceivedIsKept DEF BootInv, StreamInv, StreamInOrder, NothingLost
<1> QED
  BY <1>1, OtaInvariant, StreamInvariant, PTL

\* A download leaves the OTA partition with an uncompressed image or a file of
\* exactly its size only, whatever sizes the server answers with.
THEOREM OtaOverruns ==
  ASSUME ImagesFillSector
  PROVE  Spec => []OverrunsOnlyUnchecked
<1>1. StreamInv => OverrunsOnlyUnchecked
  BY DEF StreamInv
<1> QED
  BY <1>1, StreamInvariant, PTL
=============================================================================
