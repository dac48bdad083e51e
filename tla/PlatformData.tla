---------------------------- MODULE PlatformData ----------------------------
(***************************************************************************)
(* spi-flash-tools/platform-data/platform-data-patch.py: encode the records *)
(* of a platform-data INI into a PDAT block, write the block standalone as *)
(* basename(splitext(ini)[0]) + ".bin", copy the original flash image to  *)
(* the output name and splice the block into the copy 0xF0000 bytes below *)
(* its end.                                                                *)
(*                                                                         *)
(* The block is modelled byte by byte (CRC-32 included).  A file is its   *)
(* size, what it started as ("image": the original flash image, "empty")  *)
(* and the writes made into it since, in order.                           *)
(***************************************************************************)
EXTENDS Integers, Sequences, FiniteSets, Bitwise

CONSTANTS
  Inis,         \* candidate INI files: Seq of record inputs
  IniPaths,     \* candidate -p paths: [dir, stem, ext]
  ImagePaths,   \* candidate -i paths
  OutPaths,     \* candidate -n paths
  ImageSizes,   \* candidate sizes of the original image
  PyVersions,   \* 2 or 3: int(data_type[8:])/8 divides differently
  NONE

OFFSET_FROM_TOP == 983040            \* 0xF0000
PLATFORM_DATA_MAGIC == <<80, 68, 65, 84>>   \* b'PDAT'

VARIABLES
  ini, iniPath, image, out, py,   \* the invocation
  origSize,                       \* size of the original image
  fs,                             \* path -> file, or NONE
  block,                          \* the PDAT block, once parse_ini returned
  pc

vars == <<ini, iniPath, image, out, py, origSize, fs, block, pc>>

-----------------------------------------------------------------------------
(* Conversions                                                             *)

(* Mutant: the value is not cut into bytes.                               *)
LEUnmasked(v, w) == [j \in 1..w |-> v \div (2 ^ (8 * (j - 1)))]

(* struct.pack('<' + B/H/L/Q, v), w bytes.                               *)
LE(v, w) == [j \in 1..w |-> (v \div (2 ^ (8 * (j - 1)))) % 256]

(* int(text, base) of a digit sequence; NONE when a digit is not of base. *)
RECURSIVE ParseDigits(_, _)
ParseDigits(ds, base) ==
  IF ds = <<>> THEN 0
  ELSE ParseDigits(SubSeq(ds, 1, Len(ds) - 1), base) * base + ds[Len(ds)]

ParseInt(ds, base) ==
  IF ds # <<>> /\ \A j \in DOMAIN ds : ds[j] < base THEN ParseDigits(ds, base)
                                                    ELSE NONE

(* str.encode('UTF-8') of code points below 2048.                         *)
RECURSIVE Utf8(_)
Utf8(cs) ==
  IF cs = <<>> THEN <<>>
  ELSE LET cp == Head(cs)
       IN  (IF cp < 128 THEN <<cp>> ELSE <<192 + cp \div 64, 128 + (cp % 64)>>)
           \o Utf8(Tail(cs))

(* str.encode('UTF-8') of an INI text.  Under Python 2 ConfigParser      *)
(* returns byte strings, which encode() first decodes as ASCII: a byte   *)
(* of 128 or more (any non-ASCII character) raises UnicodeDecodeError.    *)
HasNonAscii(cs) == \E j \in DOMAIN cs : cs[j] >= 128

EncodeText(cs) == IF py = 2 /\ HasNonAscii(cs) THEN NONE ELSE Utf8(cs)

(* binascii.unhexlify of a sequence of hex digits; NONE when odd.         *)
Unhexlify(ds) ==
  IF Len(ds) % 2 = 1 THEN NONE
  ELSE [j \in 1..Len(ds) \div 2 |-> 16 * ds[2 * j - 1] + ds[2 * j]]

(* binascii.crc32(data) & 0xFFFFFFFF, the reflected CRC-32 with           *)
(* polynomial 0xEDB88320, its 32-bit register held as two 16-bit halves.  *)
CrcBit(r) ==
  LET hi == r[1] \div 2
      lo == r[2] \div 2 + (r[1] % 2) * 32768
  IN  IF r[2] % 2 = 1 THEN <<hi ^^ 60856, lo ^^ 33568>> ELSE <<hi, lo>>

(* The byte table of the reflected algorithm: eight shifts of each byte.   *)
CrcTable ==
  [i \in 0..255 |-> CrcBit(CrcBit(CrcBit(CrcBit(CrcBit(CrcBit(CrcBit(CrcBit(<<0, i>>))))))))]

(* One byte: crc = table[(crc ^ b) & 0xFF] ^ (crc >> 8).                   *)
CrcByte(r, b) ==
  LET entry == CrcTable[(r[2] % 256) ^^ b]
  IN  <<entry[1] ^^ (r[1] \div 256), entry[2] ^^ (r[2] \div 256 + (r[1] % 256) * 256)>>

(* The register is evaluated before the next byte is taken.                *)
RECURSIVE CrcFrom(_, _)
CrcFrom(r, d) ==
  IF d = <<>> THEN r
  ELSE LET next == CrcByte(r, Head(d))
       IN  IF next[1] >= 0 THEN CrcFrom(next, Tail(d)) ELSE next

Crc32(d) == LET final == CrcFrom(<<65535, 65535>>, d) IN <<65535 - final[1], 65535 - final[2]>>

-----------------------------------------------------------------------------
(* parse_ini                                                               *)

(* get_int_size(int(data_type[8:]) / 8): Python 2 divides integers.       *)
UintWidth(bits) == IF py = 2 THEN bits \div 8 ELSE IF bits % 8 = 0 THEN bits \div 8 ELSE NONE

(* get_data: the value bytes of a record, NONE when the call raises.      *)
GetData(r) ==
  CASE r.type = "file"        -> r.value
    [] r.type = "utf8.string" -> EncodeText(r.value)
    [] r.type = "hex.string"  -> Unhexlify(r.value)
    [] r.type \in {"hex.uint", "dec.uint"} ->
         LET width == UintWidth(r.bits)
             num   == ParseInt(r.value, IF r.type = "hex.uint" THEN 16 ELSE 10)
         IN  IF width \notin {1, 2, 4, 8} \/ num = NONE THEN NONE
             ELSE IF num >= 2 ^ (8 * width) THEN NONE ELSE LE(num, width)
    [] OTHER -> NONE

DescField(desc) == desc \o [j \in 1..10 - Len(desc) |-> 0]

(* The record bytes '<H H 10s H Ns', NONE when a check or pack fails.     *)
RecordBytes(r) ==
  LET value   == GetData(r)
      descUtf8 == EncodeText(r.desc)
      version == IF r.ver = NONE THEN 0 ELSE r.ver
  IN  IF value = NONE \/ descUtf8 = NONE THEN NONE
      ELSE IF Len(descUtf8) > 10 THEN NONE
      ELSE IF \E f \in {r.id, Len(value), version} : f \notin 0..65535 THEN NONE
      ELSE LE(r.id, 2) \o LE(Len(value), 2) \o DescField(descUtf8) \o LE(version, 2)
           \o value

RECURSIVE Payload(_)
Payload(rs) ==
  IF rs = <<>> THEN <<>>
  ELSE LET first == RecordBytes(Head(rs))
           rest  == Payload(Tail(rs))
       IN  IF first = NONE \/ rest = NONE THEN NONE ELSE first \o rest

(* create_header(data) + data.                                            *)
EncodeBlock(rs) ==
  LET payload == Payload(rs)
      crc     == Crc32(payload)
  IN  IF payload = NONE THEN NONE
      ELSE PLATFORM_DATA_MAGIC \o LE(Len(payload), 4) \o LE(crc[2], 2) \o LE(crc[1], 2)
           \o payload

-----------------------------------------------------------------------------
(* Files                                                                   *)

Path(d, s, e) == [dir |-> d, stem |-> s, ext |-> e]

(* os.path.basename(os.path.splitext(ini)[0] + ".bin"), in the current    *)
(* directory.                                                              *)
StandalonePath(p) == Path(".", p.stem, ".bin")

Paths == IniPaths \cup ImagePaths \cup OutPaths \cup {StandalonePath(p) : p \in IniPaths}

OriginalImage(n) == [size |-> n, base |-> "image", writes |-> <<>>]

(* f.write(data) at offset at of file f.                                  *)
WriteAt(f, at, data) ==
  [size |-> IF at + Len(data) > f.size THEN at + Len(data) ELSE f.size,
   base |-> f.base,
   writes |-> Append(f.writes, [at |-> at, bytes |-> data])]

Init ==
  /\ ini \in Inis /\ iniPath \in IniPaths /\ image \in ImagePaths
  /\ out \in OutPaths /\ py \in PyVersions
  /\ origSize \in ImageSizes
  /\ fs = [p \in Paths |-> IF p = image THEN OriginalImage(origSize) ELSE NONE]
  /\ block = NONE
  /\ pc = "parse"

(* parse_ini: every record encoded, or the first failing one raises.      *)
ParseIni ==
  /\ pc = "parse"
  /\ block' = EncodeBlock(ini)
  /\ pc' = IF block' = NONE THEN "died" ELSE "standalone"
  /\ UNCHANGED <<ini, iniPath, image, out, py, origSize, fs>>

(* create_platform_data_binary: open(..., 'wb') truncates, then writes.   *)
WriteStandalone ==
  /\ pc = "standalone"
  /\ fs' = [fs EXCEPT ![StandalonePath(iniPath)] =
              WriteAt([size |-> 0, base |-> "empty", writes |-> <<>>], 0, block)]
  /\ pc' = "copy"
  /\ UNCHANGED <<ini, iniPath, image, out, py, origSize, block>>

(* shutil.copy(original, modified): the same file raises shutil.Error.    *)
CopyImage ==
  /\ pc = "copy"
  /\ IF out = image
       THEN /\ pc' = "died" /\ UNCHANGED fs
       ELSE /\ fs' = [fs EXCEPT ![out] = fs[image]]
            /\ pc' = "patch"
  /\ UNCHANGED <<ini, iniPath, image, out, py, origSize, block>>

(* Mutant: the offset is measured from the start of the file.            *)
PatchOffsetFromStart(f) == OFFSET_FROM_TOP

(* file_size - offset_from_top, file_size from seek(0, 2); tell().        *)
PatchOffset(f) == f.size - OFFSET_FROM_TOP

(* patch_output_file: seek to the offset; before the start IOError.       *)
PatchOutput ==
  /\ pc = "patch"
  /\ LET off == PatchOffset(fs[out])
     IN  IF off < 0
           THEN /\ pc' = "died" /\ UNCHANGED fs
           ELSE /\ fs' = [fs EXCEPT ![out] = WriteAt(@, off, block)]
                /\ pc' = "done"
  /\ UNCHANGED <<ini, iniPath, image, out, py, origSize, block>>

Next == ParseIni \/ WriteStandalone \/ CopyImage \/ PatchOutput

(* A batch run; it stops in "done" or "died".                              *)
Spec == Init /\ [][Next]_vars /\ WF_vars(Next)

-----------------------------------------------------------------------------
(* Reference: the block format of the platform-data specification          *)

Bytes == Seq(0..255)

File == [size: Nat, base: {"image", "empty"},
         writes: Seq([at: Nat, bytes: Bytes])]

RECURSIVE FromLE(_)
FromLE(d) == IF d = <<>> THEN 0 ELSE Head(d) + 256 * FromLE(Tail(d))

(* The description bytes with the NUL padding removed.                    *)
RECURSIVE Unpad(_)
Unpad(d) == IF d # <<>> /\ d[Len(d)] = 0 THEN Unpad(SubSeq(d, 1, Len(d) - 1)) ELSE d

Malformed == [id |-> -1, length |-> -1, desc |-> <<>>, ver |-> -1, value |-> <<>>]

(* Re-parse a payload into (id, length, desc, version, value) tuples.     *)
RECURSIVE DecodeRecords(_)
DecodeRecords(p) ==
  IF p = <<>> THEN <<>>
  ELSE IF Len(p) < 16 \/ 16 + FromLE(SubSeq(p, 3, 4)) > Len(p) THEN <<Malformed>>
  ELSE LET dlen == FromLE(SubSeq(p, 3, 4))
       IN  <<[id |-> FromLE(SubSeq(p, 1, 2)), length |-> dlen,
              desc |-> Unpad(SubSeq(p, 5, 14)), ver |-> FromLE(SubSeq(p, 15, 16)),
              value |-> SubSeq(p, 17, 16 + dlen)]>>
           \o DecodeRecords(SubSeq(p, 17 + dlen, Len(p)))

(* A record the specification accepts: a value type of its list (integer *)
(* widths 8/16/32/64), a value that converts and fits, a description of  *)
(* at most 10 bytes, and 16-bit id, length and version.                  *)
SpecValue(r) ==
  IF r.type \in {"hex.uint", "dec.uint"}
    THEN LET specNum == ParseInt(r.value, IF r.type = "hex.uint" THEN 16 ELSE 10)
         IN  IF r.bits \notin {8, 16, 32, 64} \/ specNum = NONE THEN NONE
             ELSE IF specNum >= 2 ^ r.bits THEN NONE ELSE LE(specNum, r.bits \div 8)
    ELSE IF r.type = "utf8.string" THEN Utf8(r.value)
    ELSE GetData(r)

SpecValid(r) ==
  /\ SpecValue(r) # NONE
  /\ Len(Utf8(r.desc)) <= 10
  /\ {r.id, Len(SpecValue(r)), IF r.ver = NONE THEN 0 ELSE r.ver} \subseteq 0..65535

SpecTuple(r) ==
  [id |-> r.id, length |-> Len(SpecValue(r)), desc |-> Utf8(r.desc),
   ver |-> IF r.ver = NONE THEN 0 ELSE r.ver, value |-> SpecValue(r)]

-----------------------------------------------------------------------------
(* Properties                                                              *)

TypeOK ==
  /\ pc \in {"parse", "standalone", "copy", "patch", "done", "died"}
  /\ block = NONE \/ block \in Bytes
  /\ \A p \in Paths : fs[p] = NONE \/ fs[p] \in File

OutputsWhenDone ==
  pc = "done" =>
    /\ fs[image] = OriginalImage(origSize)
    /\ fs[StandalonePath(iniPath)] = WriteAt([size |-> 0, base |-> "empty", writes |-> <<>>], 0, block)
    /\ fs[out] = WriteAt(OriginalImage(origSize), origSize - 983040, block)

(* Spec 4.5 and 7: the source image file is never mutated.                *)
OriginalNeverMutated == fs[image] = OriginalImage(origSize)

=============================================================================
