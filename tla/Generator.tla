------------------------------ MODULE Generator ------------------------------
(***************************************************************************)
(* spi-flash-tools/generator/generator.py: main() run on one layout.conf.  *)
(*                                                                         *)
(* The tool is a single sequential pass.  The only nondeterminism is its   *)
(* input: the manifest (the groups ConfigParser returns, in file order),   *)
(* whether the raw text holds a duplicate group or key (the verdict of     *)
(* find_diplicate_sections_and_options, an input of this model) and      *)
(* the mode (-m writes layout.mk instead of the flash image).              *)
(*                                                                         *)
(* Addresses are absolute in an address space of AddrTop bytes (2^32 in    *)
(* the code: 4294967296 and 0xffffffff = AddrTop - 1).  Payloads are       *)
(* abstracted to their length; the output flash file is the sequence of    *)
(* extents written into it, the first being the 0xC0 pad fill.  Each      *)
(* extent records which section's bytes it holds, so what ends up at a     *)
(* byte is the owner of the last extent covering it.                       *)
(***************************************************************************)
EXTENDS Integers, Sequences, FiniteSets, FiniteSetsExt, Functions

CONSTANTS
  AddrTop,       \* size of the address space (2^32 in the code)
  LayoutConfSize,\* os.path.getsize(layout.conf), for the meta=layout item
  Manifests,     \* the manifests to run on: sequences of Group records
  DupVerdicts,   \* subset of BOOLEAN: duplicate group/key in the raw text
  Modes,         \* subset of {"flash", "layoutmk"}
  NONE           \* Python's None

ASSUME AddrTop \in Nat \ {0}
ASSUME DupVerdicts \subseteq BOOLEAN /\ DupVerdicts # {}
ASSUME Modes \subseteq {"flash", "layoutmk"} /\ Modes # {}

(* Fixed sizes of the MFH encoding: struct '<IIIIII', '<IIII', '<I'.      *)
MfhHeadLen   == 24
MfhEntryLen  == 16
BootEntryLen == 4
MfhPadTo     == 512
PAD          == 0   \* owner of the bytes of the initial a2b_hex('C0') fill

(* MFH_ITEM_TYPE: item name (type without its "mfh." prefix) -> code.     *)
MFH_ITEM_TYPE ==
  [ host_fw_stage1 |-> 0, host_fw_stage1_signed |-> 1, host_fw_stage2 |-> 3,
    host_fw_stage2_signed |-> 4, host_fw_stage2_conf |-> 5,
    host_fw_stage2_conf_signed |-> 6, host_fw_parameters |-> 7,
    host_recovery_fw |-> 8, host_recovery_fw_signed |-> 9, bootloader |-> 11,
    bootloader_signed |-> 12, bootloader_conf |-> 13,
    bootloader_conf_signed |-> 14, kernel |-> 16, kernel_signed |-> 17,
    ramdisk |-> 18, ramdisk_signed |-> 19, loadable_program |-> 21,
    loadable_program_signed |-> 22, build_information |-> 24,
    flash_image_version |-> 25 ]

(* A section type: mfh is stype.startswith('mfh.'), name is               *)
(* stype.replace('mfh.', '').  The MFH section itself has type 'mfh'.    *)
MfhRoleType == [mfh |-> FALSE, name |-> "mfh"]

VARIABLES
  manifest,      \* the groups of layout.conf, in order
  dupInText,     \* find_diplicate_sections_and_options would die
  mode,          \* "flash" or "layoutmk" (-m)
  pc,            \* the step of main() the tool is at
  i,             \* loop cursor of the current step
  flashSize,     \* FLASH_SIZE
  imageVersion,  \* IMAGE_VERSION
  bootZeroFound, \* BOOT_INDEX_ZERO_DIR # None
  layout,        \* layout_data: sequence of Section records
  order,         \* layout indices sorted by address (stable)
  mfhIndex,      \* mfh_index in read_data
  mfh,           \* the generated MFH, NONE until generate_mfh returns
  written,       \* output files the tool has created
  flash          \* extents written into the output flash file, in order

vars == <<manifest, dupInText, mode, pc, i, flashSize, imageVersion,
          bootZeroFound, layout, order, mfhIndex, mfh, written, flash>>

-----------------------------------------------------------------------------
(* Helpers                                                                 *)

NewSection(g) ==
  [name |-> g.name, address |-> g.address, stype |-> g.stype,
   fileSize |-> g.size, size |-> NONE, len |-> NONE, file |-> g.file,
   boot |-> g.boot, svn |-> g.svn, meta |-> g.meta, allocated |-> NONE]

MfhSection(g) ==
  [NewSection(g) EXCEPT !.name = "MFH", !.stype = MfhRoleType,
                        !.file = "mfh.bin", !.boot = NONE, !.svn = NONE,
                        !.meta = ""]

(* Position of layout[k] in sorted(layout, key=address); sorted() is      *)
(* stable, so equal addresses keep their layout order.                     *)
AddressRank(s, k) ==
  1 + Quantify(DOMAIN s, LAMBDA j :
                 \/ s[j].address < s[k].address
                 \/ s[j].address = s[k].address /\ j < k)

AddressOrder(s) ==
  [r \in 1..Len(s) |-> CHOOSE k \in DOMAIN s : AddressRank(s, k) = r]

(* Mutant: the span counted one byte too far (next address inclusive).    *)
AllocatedSpanInclusive(s, o, r, k) ==
  IF r < Len(o) THEN s[o[r + 1]].address - s[k].address + 1
                ELSE AddrTop - s[k].address + 1

(* The gap from s[k], of rank r by address, to the next section or the top. *)
AllocatedSpan(s, o, r, k) ==
  IF r < Len(o) THEN s[o[r + 1]].address - s[k].address
                ELSE AddrTop - s[k].address

(* allocated: gap to the next section by address, or to the top.          *)
WithAllocation(s, o) ==
  [k \in DOMAIN s |-> [s[k] EXCEPT !.allocated =
                        AllocatedSpan(s, o, AddressRank(s, k), k)]]

(* Section.zero_addr(): offset of an address in the output file.          *)
ZeroAddr(sec, fs) == sec.address - (AddrTop - 1) + fs - 1

(* The check at the start of Section.mfh_entry().                         *)
OutOfFlash(sec, fs) ==
  sec.address > AddrTop - 1 \/ sec.address < (AddrTop - 1) - fs

MfhItems(s) == SelectSeq(s, LAMBDA sec : sec.stype.mfh)

(* The position of the last item carrying boot index b, counted from 1.  *)
LastCarrying(items, b) ==
  CHOOSE p \in DOMAIN items :
    /\ items[p].boot = b
    /\ \A q \in DOMAIN items : items[q].boot = b => q <= p

(* Mutant: positions counted from 1 instead of enumerate()'s 0.          *)
BootPositionOneBased(items, b) == LastCarrying(items, b)

(* boot_index_dict[int(item.boot_index)] = mfh_position: the last item    *)
(* carrying index b wins.  Positions are 0-based (enumerate).             *)
BootPosition(items, b) == LastCarrying(items, b) - 1

BootItemsCount(items) == Quantify(DOMAIN items, LAMBDA p : items[p].boot # NONE)

BootListComplete(items) ==
  \A b \in 0..BootItemsCount(items) - 1 :
    \E p \in DOMAIN items : items[p].boot = b

(* The MFH generate_mfh builds from a layout whose boot list is complete. *)
BuildMfh(s, fs, iv) ==
  LET items == MfhItems(s)
      bl    == [k \in 1..BootItemsCount(items) |-> BootPosition(items, k - 1)]
      ents  == [p \in DOMAIN items |->
                  [type |-> MFH_ITEM_TYPE[items[p].stype.name],
                   address |-> items[p].address, size |-> items[p].size]]
      count == Len(items) + (IF iv > 0 THEN 1 ELSE 0)
      body  == BootEntryLen * Len(bl) + MfhEntryLen * count
  IN  [bootList  |-> bl,
       entries   |-> ents,
       itemCount |-> count,
       bootCount |-> Quantify(DOMAIN s, LAMBDA k : s[k].boot # NONE),
       size      |-> body,
       len       |-> MfhHeadLen + body + Max({0, MfhPadTo - body})]

(* The first mfh item that mfh_entry() rejects (range or type lookup).    *)
MfhEntryFails(s, fs) ==
  \E p \in DOMAIN MfhItems(s) :
    LET it == MfhItems(s)[p]
    IN  OutOfFlash(it, fs) \/ it.stype.name \notin DOMAIN MFH_ITEM_TYPE

(* The per-section checks of validate_layout().                           *)
SectionInvalid(sec) ==
  \/ sec.size > sec.allocated
  \/ (sec.boot # NONE /\ sec.boot \notin 0..31)
  \/ (sec.svn # NONE /\ sec.svn \notin 0..15)
  \/ sec.stype.name = ""

ItemFilesRepeat(s) == ~IsInjective([k \in DOMAIN s |-> s[k].file])

Die ==
  /\ pc' = "died"
  /\ UNCHANGED <<manifest, dupInText, mode, i, flashSize, imageVersion,
                 bootZeroFound, layout, order, mfhIndex, mfh, written, flash>>

-----------------------------------------------------------------------------
(* main(): parse_layout(), one step per group of config.sections()         *)

Init ==
  /\ manifest \in Manifests
  /\ dupInText \in DupVerdicts
  /\ mode \in Modes
  /\ pc = "parse"
  /\ i = 1
  /\ flashSize = 0
  /\ imageVersion = 0
  /\ bootZeroFound = FALSE
  /\ layout = <<>>
  /\ order = <<>>
  /\ mfhIndex = NONE
  /\ mfh = NONE
  /\ written = {}
  /\ flash = <<>>

ParseStep(g) == pc = "parse" /\ i <= Len(manifest) /\ g = manifest[i]

(* type = global: FLASH_SIZE = int(size); continue.                       *)
ParseGlobal ==
  /\ ParseStep(manifest[i])
  /\ manifest[i].type = "global"
  /\ flashSize' = manifest[i].size
  /\ i' = i + 1
  /\ UNCHANGED <<manifest, dupInText, mode, pc, imageVersion, bootZeroFound,
                 layout, order, mfhIndex, mfh, written, flash>>

(* type = mfh: append Section('MFH', address, 'mfh'); continue.           *)
ParseMfh ==
  /\ ParseStep(manifest[i])
  /\ manifest[i].type = "mfh"
  /\ layout' = Append(layout, MfhSection(manifest[i]))
  /\ i' = i + 1
  /\ UNCHANGED <<manifest, dupInText, mode, pc, flashSize, imageVersion,
                 bootZeroFound, order, mfhIndex, mfh, written, flash>>

(* meta = version: IMAGE_VERSION = int(value); continue.                  *)
ParseVersion ==
  /\ ParseStep(manifest[i])
  /\ manifest[i].type \notin {"global", "mfh"}
  /\ manifest[i].meta = "version"
  /\ imageVersion' = manifest[i].value
  /\ i' = i + 1
  /\ UNCHANGED <<manifest, dupInText, mode, pc, flashSize, bootZeroFound,
                 layout, order, mfhIndex, mfh, written, flash>>

(* search_boot_index_zero_dir() returns None unless boot_index is 0, and  *)
(* then a directory, or an ERROR_... string naming the item_file: never   *)
(* None.  The path itself only goes into layout.mk.                      *)
BootIndexZeroDir(g) == g.boot = 0

(* config.get() raises NoOptionError: item_file of the first boot_index=0 *)
(* group (in search_boot_index_zero_dir), address or type of any group.   *)
(* g.missing is the set of options absent from the group.                  *)
MissingOption(g) ==
  \/ ~bootZeroFound /\ g.boot = 0 /\ "item_file" \in g.missing
  \/ g.missing \cap {"address", "type"} # {}

(* value.lower() in ['yes', 'no', 'true', 'false'] for every boolean      *)
(* option given.  A value is [word, caps]: word is its lower-case form.   *)
BoolsValid(g) == \A v \in g.bools : v.word \in {"yes", "no", "true", "false"}

IsSectionGroup(g) == g.type \notin {"global", "mfh"} /\ g.meta # "version"

(* A missing option raises; an invalid boolean value dies.                *)
ParseBadSection ==
  /\ ParseStep(manifest[i])
  /\ IsSectionGroup(manifest[i])
  /\ MissingOption(manifest[i]) \/ ~BoolsValid(manifest[i])
  /\ Die

(* Any other group: search_boot_index_zero_dir() while none is found yet, *)
(* then a Section with the group's options.                               *)
ParseSection ==
  /\ ParseStep(manifest[i])
  /\ IsSectionGroup(manifest[i])
  /\ ~MissingOption(manifest[i]) /\ BoolsValid(manifest[i])
  /\ bootZeroFound' = (bootZeroFound \/ BootIndexZeroDir(manifest[i]))
  /\ layout' = Append(layout, NewSection(manifest[i]))
  /\ i' = i + 1
  /\ UNCHANGED <<manifest, dupInText, mode, pc, flashSize, imageVersion,
                 order, mfhIndex, mfh, written, flash>>

(* After the loop: die without a boot_index=0 item, else sort by address  *)
(* and compute each section's allocated span.                             *)
ParseNoBootZero ==
  /\ pc = "parse" /\ i > Len(manifest)
  /\ ~bootZeroFound
  /\ Die

ParseEnd ==
  /\ pc = "parse" /\ i > Len(manifest)
  /\ bootZeroFound
  /\ order' = AddressOrder(layout)
  /\ layout' = WithAllocation(layout, AddressOrder(layout))
  /\ pc' = "dupcheck"
  /\ UNCHANGED <<manifest, dupInText, mode, i, flashSize, imageVersion,
                 bootZeroFound, mfhIndex, mfh, written, flash>>

(* find_diplicate_sections_and_options(), then the -m branch.             *)
DuplicateCheck ==
  /\ pc = "dupcheck"
  /\ IF dupInText
       THEN pc' = "died"
       ELSE pc' = IF mode = "layoutmk" THEN "layoutmk" ELSE "read"
  /\ i' = 1
  /\ UNCHANGED <<manifest, dupInText, mode, flashSize, imageVersion,
                 bootZeroFound, layout, order, mfhIndex, mfh, written, flash>>

(* gen_layout_mk(): writes layout.mk; nothing is validated on this path.  *)
GenLayoutMk ==
  /\ pc = "layoutmk"
  /\ written' = written \cup {"layout.mk"}
  /\ pc' = "done"
  /\ UNCHANGED <<manifest, dupInText, mode, i, flashSize, imageVersion,
                 bootZeroFound, layout, order, mfhIndex, mfh, flash>>

(* Mutant: the meta=layout branch sets size but never reads the data.     *)
ReadDataNoLayoutData(sec) ==
  IF sec.meta = "layout"
    THEN [sec EXCEPT !.size = LayoutConfSize, !.file = "layout.conf"]
    ELSE [sec EXCEPT !.size = sec.fileSize, !.len = sec.fileSize]

(* The data and size read_data() gives a section that is not the MFH: the *)
(* layout.conf text for meta=layout, else the file final_name() names.   *)
ReadData(sec) ==
  IF sec.meta = "layout"
    THEN [sec EXCEPT !.size = LayoutConfSize, !.len = LayoutConfSize,
                     !.file = "layout.conf"]
    ELSE [sec EXCEPT !.size = sec.fileSize, !.len = sec.fileSize]

IsMfhSection(sec) == sec.meta # "layout" /\ sec.stype = MfhRoleType

(* open(sec.final_name(), 'rb') on a file that is not there: IOError.     *)
Unreadable(sec) ==
  sec.meta # "layout" /\ ~IsMfhSection(sec) /\ sec.fileSize = NONE

(* read_data(): one step per section.                                     *)
ReadSection ==
  /\ pc = "read" /\ i <= Len(layout)
  /\ ~Unreadable(layout[i])
  /\ IF IsMfhSection(layout[i])
       THEN mfhIndex' = i /\ UNCHANGED layout
       ELSE layout' = [layout EXCEPT ![i] = ReadData(@)] /\ UNCHANGED mfhIndex
  /\ i' = i + 1
  /\ UNCHANGED <<manifest, dupInText, mode, pc, flashSize, imageVersion,
                 bootZeroFound, order, mfh, written, flash>>

ReadMissing ==
  /\ pc = "read" /\ i <= Len(layout)
  /\ Unreadable(layout[i])
  /\ Die

(* layout[mfh_index] with no MFH group: mfh_index unbound, NameError.    *)
ReadNoMfh ==
  /\ pc = "read" /\ i > Len(layout)
  /\ mfhIndex = NONE
  /\ Die

(* generate_mfh(): a gap in the boot indexes raises KeyError; a bad mfh   *)
(* item dies in mfh_entry(); otherwise mfh.bin is written and the MFH     *)
(* section gets size calcsize(format_str) and data mfh_struct.            *)
MfhBootListGap ==
  /\ pc = "read" /\ i > Len(layout) /\ mfhIndex # NONE
  /\ ~BootListComplete(MfhItems(layout))
  /\ Die

MfhEntryInvalid ==
  /\ pc = "read" /\ i > Len(layout) /\ mfhIndex # NONE
  /\ BootListComplete(MfhItems(layout))
  /\ MfhEntryFails(layout, flashSize)
  /\ Die

GenerateMfh ==
  /\ pc = "read" /\ i > Len(layout) /\ mfhIndex # NONE
  /\ BootListComplete(MfhItems(layout))
  /\ ~MfhEntryFails(layout, flashSize)
  /\ LET m == BuildMfh(layout, flashSize, imageVersion) IN
       /\ mfh' = m
       /\ layout' = [layout EXCEPT ![mfhIndex].size = m.size,
                                   ![mfhIndex].len = m.len]
  /\ written' = written \cup {"mfh.bin"}
  /\ pc' = "info"
  /\ UNCHANGED <<manifest, dupInText, mode, i, flashSize, imageVersion,
                 bootZeroFound, order, mfhIndex, flash>>

(* gen_image_info(): allocated - size raises TypeError for a section     *)
(* read_data() left without a size (an MFH group other than the last).    *)
GenImageInfo ==
  /\ pc = "info"
  /\ IF \E k \in DOMAIN layout : layout[k].size = NONE
       THEN pc' = "died" /\ UNCHANGED written
       ELSE pc' = "validate" /\ written' = written \cup {"image_info.txt"}
  /\ i' = 1
  /\ UNCHANGED <<manifest, dupInText, mode, flashSize, imageVersion,
                 bootZeroFound, layout, order, mfhIndex, mfh, flash>>

(* validate_layout(): one step per section, then item-file uniqueness.    *)
ValidateSection ==
  /\ pc = "validate" /\ i <= Len(layout)
  /\ IF SectionInvalid(layout[i]) THEN pc' = "died" ELSE UNCHANGED pc
  /\ i' = i + 1
  /\ UNCHANGED <<manifest, dupInText, mode, flashSize, imageVersion,
                 bootZeroFound, layout, order, mfhIndex, mfh, written, flash>>

ValidateItemFiles ==
  /\ pc = "validate" /\ i > Len(layout)
  /\ pc' = IF ItemFilesRepeat(layout) THEN "died" ELSE "capsule"
  /\ UNCHANGED <<manifest, dupInText, mode, i, flashSize, imageVersion,
                 bootZeroFound, layout, order, mfhIndex, mfh, written, flash>>

(* gen_capsule_comp_ini().                                                *)
GenCapsuleCompIni ==
  /\ pc = "capsule"
  /\ written' = written \cup {"CapsuleComponents.ini"}
  /\ pc' = "pad"
  /\ UNCHANGED <<manifest, dupInText, mode, i, flashSize, imageVersion,
                 bootZeroFound, layout, order, mfhIndex, mfh, flash>>

(* gen_flash_binary(): open the output, write FLASH_SIZE pad bytes, then  *)
(* seek(zero_addr()) and write(data) for each section by address.  A      *)
(* negative offset makes seek() raise IOError; a write past the end       *)
(* extends the file.                                                      *)
FlashPad ==
  /\ pc = "pad"
  /\ written' = written \cup {"flash"}
  /\ flash' = <<[offset |-> 0, len |-> flashSize, owner |-> PAD]>>
  /\ pc' = "write"
  /\ i' = 1
  /\ UNCHANGED <<manifest, dupInText, mode, flashSize, imageVersion,
                 bootZeroFound, layout, order, mfhIndex, mfh>>

FlashWrite ==
  /\ pc = "write" /\ i <= Len(order)
  /\ LET sec == layout[order[i]]
         off == ZeroAddr(sec, flashSize)
     IN  IF off < 0
           THEN pc' = "died" /\ UNCHANGED <<flash, i>>
           ELSE /\ flash' = Append(flash, [offset |-> off, len |-> sec.len,
                                           owner |-> order[i]])
                /\ i' = i + 1
                /\ UNCHANGED pc
  /\ UNCHANGED <<manifest, dupInText, mode, flashSize, imageVersion,
                 bootZeroFound, layout, order, mfhIndex, mfh, written>>

FlashDone ==
  /\ pc = "write" /\ i > Len(order)
  /\ pc' = "done"
  /\ UNCHANGED <<manifest, dupInText, mode, i, flashSize, imageVersion,
                 bootZeroFound, layout, order, mfhIndex, mfh, written, flash>>

Next ==
  \/ ParseGlobal \/ ParseMfh \/ ParseVersion \/ ParseSection \/ ParseBadSection
  \/ ParseNoBootZero \/ ParseEnd \/ DuplicateCheck \/ GenLayoutMk
  \/ ReadSection \/ ReadMissing \/ ReadNoMfh \/ MfhBootListGap \/ MfhEntryInvalid
  \/ GenerateMfh \/ GenImageInfo \/ ValidateSection \/ ValidateItemFiles
  \/ GenCapsuleCompIni \/ FlashPad \/ FlashWrite \/ FlashDone

(* The tool runs alone to completion: every enabled step is taken.  It    *)
(* stops in "done" or "died" (the process has exited), so the configs     *)
(* do not check deadlock.                                                 *)
Spec == Init /\ [][Next]_vars /\ WF_vars(Next)

-----------------------------------------------------------------------------
(* Properties                                                              *)

Steps == {"parse", "dupcheck", "layoutmk", "read", "info", "validate",
          "capsule", "pad", "write", "done", "died"}

Extent == [offset : Int, len : Nat, owner : Nat]

TypeOK ==
  /\ pc \in Steps
  /\ i \in 1..Len(manifest) + 1 \cup 1..Len(layout) + 1
  /\ flashSize \in Nat /\ imageVersion \in Nat /\ bootZeroFound \in BOOLEAN
  /\ order \in Seq(DOMAIN layout)
  /\ mfhIndex \in DOMAIN layout \cup {NONE}
  /\ written \subseteq {"layout.mk", "mfh.bin", "image_info.txt",
                        "CapsuleComponents.ini", "flash"}
  /\ flash \in Seq(Extent)

Flashed == pc = "done" /\ mode = "flash"

(* Two extents of the output file share a byte.                           *)
Overlap(a, b) ==
  /\ a.len > 0 /\ b.len > 0
  /\ a.offset < b.offset + b.len
  /\ b.offset < a.offset + a.len

(* The bytes of extent p are still in the file: no later write covers     *)
(* any of them, and the extent lies inside the FLASH_SIZE buffer.         *)
SurvivesInImage(p) ==
  /\ flash[p].offset + flash[p].len <= flashSize
  /\ \A q \in p + 1..Len(flash) : ~Overlap(flash[p], flash[q])

WriteOf(k) == CHOOSE p \in DOMAIN flash : flash[p].owner = k

(* Every item the tool copied into the image ends up there whole: once    *)
(* validate_layout() has passed, gen_flash_binary()'s writes in address   *)
(* order never overwrite an earlier item nor run past the buffer.  Only   *)
(* the generated MFH is exempt; its data is longer than the size that     *)
(* validate_layout() checks (see MfhContentIntact).                       *)
SectionsIntact ==
  Flashed =>
    \A k \in DOMAIN layout :
      layout[k].stype # MfhRoleType => SurvivesInImage(WriteOf(k))

(* Following the finished image's MFH boot-priority list, entry k-1 of    *)
(* the list names a directory entry whose address and size are exactly    *)
(* where the bytes of the item with boot_index k-1 lie in the image.       *)
(* Relates generate_mfh()'s boot_index_dict positions to the directory    *)
(* order and to gen_flash_binary()'s placement.                           *)
BootListLeadsToItems ==
  Flashed =>
    \A k \in 1..Len(mfh.bootList) :
      /\ mfh.bootList[k] + 1 \in DOMAIN mfh.entries
      /\ LET e == mfh.entries[mfh.bootList[k] + 1]
         IN  \E p \in DOMAIN flash :
               /\ flash[p].offset = ZeroAddr(e, flashSize)
               /\ flash[p].owner # PAD
               /\ layout[flash[p].owner].boot = k - 1
               /\ flash[p].len = e.size
               /\ SurvivesInImage(p)

(* The header and directory of the MFH written to mfh.bin survive in the  *)
(* image: no item written later overwrites them.                          *)
MfhContentIntact ==
  Flashed =>
    LET p == WriteOf(mfhIndex)
    IN  \A q \in p + 1..Len(flash) :
          ~Overlap([flash[p] EXCEPT !.len = MfhHeadLen + mfh.size], flash[q])

=============================================================================
