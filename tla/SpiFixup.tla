------------------------------ MODULE SpiFixup ------------------------------
(***************************************************************************)
(* Quark_EDKII/QuarkPlatformPkg/Tools/QuarkSpiFixup/QuarkSpiFixup.py: the  *)
(* first loop over the sorted listing of the build's FV directory, which   *)
(* patches every boot-stage1 and recovery-stage1 firmware volume in place  *)
(* (SPI entry offset, module index, header checksum) and the two callback  *)
(* addresses of the bootrom override.                                      *)
(*                                                                         *)
(* A stage1/recovery file is its bytes (a sequence of 0..255; the byte at  *)
(* file offset o is data[o + 1]).  The bootrom override is more than      *)
(* 123590 bytes long, so it is kept abstract: its length, the file offset *)
(* at which the byte-by-byte scan stops for each of its two markers, and  *)
(* the set of byte offsets the patches have written.                      *)
(***************************************************************************)
EXTENDS Integers, Sequences, FiniteSets, TLC

CONSTANTS
  Listings,   \* the sorted directory listings to run on: Seq of File records
  LongSizes   \* struct.calcsize('L') of the Python build: 4 or 8

ASSUME LongSizes \subseteq {4, 8} /\ LongSizes # {}

(* "SPI Entry Point " in ASCII.                                           *)
SpiMarker == <<83, 80, 73, 32, 69, 110, 116, 114, 121, 32, 80, 111, 105, 110,
               116, 32>>

RecoveryBase   == 16           \* recovery_index = 16
ChecksumOffset == 50           \* the FV header's 16-bit Checksum field
HdrLenOffset   == 48           \* the FV header's 16-bit HeaderLength field
RomWindow      == 131072       \* 2^32 - QuarkRomBaseAddress (4294836224)
ModuleCbPatch  == 32           \* seek(-32, SEEK_END)
KeyCbPatch     == 123590       \* seek(-123590, SEEK_END)

VARIABLES
  files,          \* the listing, with each file's current contents
  k,              \* index of the file the loop is at
  stage1_index,
  recovery_index,
  longSize,       \* the build's size of 'L'
  assigned,       \* file position -> module index written into it
  pc

vars == <<files, k, stage1_index, recovery_index, longSize, assigned, pc>>

-----------------------------------------------------------------------------
(* Byte helpers                                                            *)

Byte(d, o) == d[o + 1]

LE16(d, o) == Byte(d, o) + 256 * Byte(d, o + 1)

(* Mutant: the value is not cut into bytes.                               *)
WriteLEUnmasked(d, o, v, w) ==
  [j \in DOMAIN d |->
     IF j - 1 \in o..o + w - 1 THEN v \div (2 ^ (8 * (j - 1 - o))) ELSE d[j]]

(* struct.pack of v in w little-endian bytes written at offset o.         *)
WriteLE(d, o, v, w) ==
  [j \in DOMAIN d |->
     IF j - 1 \in o..o + w - 1 THEN (v \div (2 ^ (8 * (j - 1 - o)))) % 256
                                ELSE d[j]]

(* headerChecksum = (headerChecksum + word) & 0xFFFF over n words.         *)
RECURSIVE WordSum(_, _)
WordSum(d, n) ==
  IF n = 0 THEN 0 ELSE (WordSum(d, n - 1) + LE16(d, 2 * (n - 1))) % 65536

(* headerLength = HeaderLength / 2, read after the Checksum field is       *)
(* zeroed; reading words past the end of the file raises TypeError.        *)
HeaderWords(d) == LE16(d, HdrLenOffset) \div 2

ChecksumReadsPastEnd(d) == 2 * HeaderWords(d) > Len(d)

(* Mutant: the stale Checksum field is summed with the header.            *)
FixChecksumUnzeroed(d) ==
  WriteLE(d, ChecksumOffset, (65536 - WordSum(d, HeaderWords(d))) % 65536, 2)

(* Zero the Checksum field, sum the header words, write back the two's    *)
(* complement low byte first.                                             *)
FixChecksum(d) ==
  LET z == WriteLE(d, ChecksumOffset, 0, 2)
      c == (65536 - WordSum(z, HeaderWords(z))) % 65536
  IN  WriteLE(z, ChecksumOffset, c, 2)

(* The nested byte-by-byte marker scan.  Each read consumes a byte; when   *)
(* a byte does not match, the bytes read so far are not looked at again.   *)
(* Reads at end of file return '' and match nothing, so the outer loop     *)
(* (range(currentBinLength) iterations, each reading at least one byte)    *)
(* ends at end of file.  The result is currentBin.tell() after the loop.   *)
RECURSIVE MatchFrom(_, _, _, _)
MatchFrom(d, m, p, j) ==
  IF p >= Len(d) THEN [found |-> FALSE, pos |-> p]
  ELSE IF Byte(d, p) # m[j] THEN [found |-> FALSE, pos |-> p + 1]
  ELSE IF j = Len(m) THEN [found |-> TRUE, pos |-> p + 1]
  ELSE MatchFrom(d, m, p + 1, j + 1)

RECURSIVE ScanFrom(_, _, _)
ScanFrom(d, m, p) ==
  IF p >= Len(d) THEN Len(d)
  ELSE LET r == MatchFrom(d, m, p, 1)
       IN  IF r.found THEN r.pos ELSE ScanFrom(d, m, r.pos)

MarkerScan(d, m) == ScanFrom(d, m, 0)

(* Reference: the end offset of the first occurrence of m in d.           *)
Occurs(d, m, p) == p + Len(m) <= Len(d) /\ \A j \in 1..Len(m) : Byte(d, p + j - 1) = m[j]

FirstMarkerEnd(d, m) ==
  IF \E p \in 0..Len(d) : Occurs(d, m, p)
    THEN (CHOOSE p \in 0..Len(d) : Occurs(d, m, p) /\ \A q \in 0..p - 1 : ~Occurs(d, m, q))
         + Len(m)
    ELSE -1

-----------------------------------------------------------------------------
(* The first loop over the listing                                         *)

Init ==
  /\ files \in Listings
  /\ longSize \in LongSizes
  /\ k = 1
  /\ stage1_index = 0
  /\ recovery_index = RecoveryBase
  /\ assigned = <<>>
  /\ pc = "loop"

(* Fields of the file record the loop writes.                             *)
SetData(f, d) == [f EXCEPT !.data = d]

(* The index the volume gets: stage1_index or recovery_index by name.     *)
ModuleIndex(f) == IF f.kind = "stage1" THEN stage1_index ELSE recovery_index

(* An EDKII_BOOT_STAGE1_ or EDKII_RECOVERY_STAGE1_ volume: scan for the   *)
(* SPI entry, write it at offset 0 and the module index at offset 4, then *)
(* zero the checksum and recompute it.  The file is patched in place, so  *)
(* a header length reaching past the end leaves it stamped with a zero    *)
(* checksum when the tool dies.                                            *)
FixupModule ==
  /\ pc = "loop" /\ k <= Len(files)
  /\ files[k].kind \in {"stage1", "recovery"}
  /\ LET d   == files[k].data
         idx == ModuleIndex(files[k])
         stamped == WriteLE(WriteLE(d, 0, MarkerScan(d, SpiMarker), 4), 4, idx, 4)
         zeroed  == WriteLE(stamped, ChecksumOffset, 0, 2)
     IN  IF ChecksumReadsPastEnd(zeroed)
           THEN /\ files' = [files EXCEPT ![k] = SetData(@, zeroed)]
                /\ pc' = "died"
                /\ UNCHANGED <<k, stage1_index, recovery_index, assigned>>
           ELSE /\ files' = [files EXCEPT ![k] = SetData(@, FixChecksum(stamped))]
                /\ assigned' = assigned @@ (k :> idx)
                /\ IF files[k].kind = "stage1"
                     THEN /\ stage1_index' = stage1_index + 1
                          /\ UNCHANGED recovery_index
                     ELSE /\ recovery_index' = recovery_index + 1
                          /\ UNCHANGED stage1_index
                /\ k' = k + 1
                /\ UNCHANGED pc
  /\ UNCHANGED longSize

(* The bootrom override: for each callback marker, the scan's stop        *)
(* offset plus the ROM base is packed with 'L' and written at a fixed      *)
(* distance from the end.  seek() before the start raises IOError and a    *)
(* value past 32 bits does not fit a 4-byte 'L' (struct.error); the first  *)
(* patch stays on disk when the second one fails.                          *)
PatchFails(f, back, at) ==
  f.len < back \/ (longSize = 4 /\ at >= RomWindow)

PatchBytes(f, back) == (f.len - back)..(f.len - back + longSize - 1)

OverrideFirstFails ==
  /\ pc = "loop" /\ k <= Len(files)
  /\ files[k].kind = "override"
  /\ PatchFails(files[k], ModuleCbPatch, files[k].cb1)
  /\ pc' = "died"
  /\ UNCHANGED <<files, k, stage1_index, recovery_index, longSize, assigned>>

OverrideSecondFails ==
  /\ pc = "loop" /\ k <= Len(files)
  /\ files[k].kind = "override"
  /\ ~PatchFails(files[k], ModuleCbPatch, files[k].cb1)
  /\ PatchFails(files[k], KeyCbPatch, files[k].cb2)
  /\ files' = [files EXCEPT ![k].patched = @ \cup PatchBytes(files[k], ModuleCbPatch)]
  /\ pc' = "died"
  /\ UNCHANGED <<k, stage1_index, recovery_index, longSize, assigned>>

FixupOverride ==
  /\ pc = "loop" /\ k <= Len(files)
  /\ files[k].kind = "override"
  /\ ~PatchFails(files[k], ModuleCbPatch, files[k].cb1)
  /\ ~PatchFails(files[k], KeyCbPatch, files[k].cb2)
  /\ files' = [files EXCEPT ![k].patched = @ \cup PatchBytes(files[k], ModuleCbPatch)
                                               \cup PatchBytes(files[k], KeyCbPatch)]
  /\ k' = k + 1
  /\ UNCHANGED <<stage1_index, recovery_index, longSize, assigned, pc>>

(* Any other .Fv (or non-.Fv) entry of the listing.                       *)
SkipFile ==
  /\ pc = "loop" /\ k <= Len(files)
  /\ files[k].kind = "other"
  /\ k' = k + 1
  /\ UNCHANGED <<files, stage1_index, recovery_index, longSize, assigned, pc>>

LoopDone ==
  /\ pc = "loop" /\ k > Len(files)
  /\ pc' = "done"
  /\ UNCHANGED <<files, k, stage1_index, recovery_index, longSize, assigned>>

Next ==
  \/ FixupModule \/ OverrideFirstFails \/ OverrideSecondFails
  \/ FixupOverride \/ SkipFile \/ LoopDone

(* One process running to its end; it stops in "done" or "died".           *)
Spec == Init /\ [][Next]_vars /\ WF_vars(Next)

-----------------------------------------------------------------------------
(* Properties                                                              *)

TypeOK ==
  /\ pc \in {"loop", "done", "died"}
  /\ k \in 1..Len(files) + 1
  /\ \A j \in DOMAIN files :
       /\ files[j].kind \in {"stage1", "recovery", "override", "other"}
       /\ files[j].data \in Seq(0..255)
       /\ Len(files[j].data) = Len(files[j].orig)
  /\ DOMAIN assigned \subseteq DOMAIN files
  /\ longSize \in {4, 8}

Fixed == DOMAIN assigned

(* Spec section 8: after the fixup the 16-bit sum of all header words is  *)
(* 0, and fixing the checksum again changes nothing.  The offset and      *)
(* index stamped at offsets 0..7 lie inside the header, so this holds     *)
(* only because the checksum is computed after they are written.          *)
HeaderChecksumValid ==
  \A j \in Fixed :
    LET d == files[j].data
    IN  /\ WordSum(d, HeaderWords(d)) = 0
        /\ FixChecksum(d) = d

(* Spec 4.1 and 9: the SPI entry offset stamped at offset 0 is the end of *)
(* the first "SPI Entry Point " in the file, and a file without it is a   *)
(* fatal error.                                                            *)
SpiEntryIsFirstMarkerEnd ==
  \A j \in Fixed :
    LE16(files[j].data, 0) + 65536 * LE16(files[j].data, 2)
      = FirstMarkerEnd(files[j].orig, SpiMarker)

(* Spec 4.1: each callback patch writes one 32-bit field.                 *)
OverridePatchWidth ==
  \A j \in DOMAIN files :
    files[j].patched \subseteq
      (files[j].len - ModuleCbPatch)..(files[j].len - ModuleCbPatch + 3)
      \cup (files[j].len - KeyCbPatch)..(files[j].len - KeyCbPatch + 3)

=============================================================================
