---------------------------- MODULE FVPackaging ----------------------------
(***************************************************************************)
(* Quark_EDKII/QuarkPlatformPkg/Tools/QuarkSpiFixup/QuarkSpiFixup.py as a  *)
(* whole: the build-type and build-directory checks, the RMU copies, the   *)
(* first loop (modelled byte by byte in SpiFixup, here one step that may  *)
(* die) and the two packaging loops that fill FV/FlashModules.           *)
(*                                                                         *)
(* A file name is a record: the fixed part of the name (cls), the decimal *)
(* digits that follow it (num, a sequence of 0..9) and its extension.     *)
(* re.search(cls + str(i), name) holds when name has that fixed part and  *)
(* str(i) is a prefix of its digits.  A file's contents are the sequence *)
(* of source files copied into it, in order.                              *)
(***************************************************************************)
EXTENDS Integers, Sequences, SequencesExt, FiniteSets, TLC

CONSTANTS
  Dirs,         \* candidate contents of the build's FV directory: sets of names
  BuildTypeOk,  \* subset of BOOLEAN: re.match(DEBUG or RELEASE, buildType)
  BuildDirOk,   \* subset of BOOLEAN: os.path.exists(build_dir)
  RmuPresent,   \* candidate sets of RMU sources present, subsets of {1, 2}
  NONE

RS1  == "EDKII_RECOVERY_STAGE1_IMAGE"
RS2  == "EDKII_RECOVERY_STAGE2_IMAGE"
BS1  == "EDKII_BOOT_STAGE1_IMAGE"
BS2  == "EDKII_BOOT_STAGE2"
BS2C == "EDKII_BOOT_STAGE2_COMPACT"
BS2R == "EDKII_BOOT_STAGE2_RECOVERY"
ORIDE == "EDKII_BOOTROM_OVERRIDE"
RIMG == "EDKII_RECOVERY_IMAGE"

(* The fixed parts in the order of their bytes: BOOTROM < BOOT_ since      *)
(* 'R' < '_', and STAGE2 < STAGE2_COMPACT < STAGE2_RECOVERY.             *)
ClsRank == [c \in {ORIDE, BS1, BS2, BS2C, BS2R, RS1, RS2, "QUARK"} |->
              CASE c = ORIDE -> 1 [] c = BS1 -> 2 [] c = BS2 -> 3
                [] c = BS2C -> 4 [] c = BS2R -> 5 [] c = RS1 -> 6
                [] c = RS2 -> 7 [] c = "QUARK" -> 8]

Name(c, num, e) == [cls |-> c, num |-> num, ext |-> e]

NvramName == Name("EDKII_NVRAM", <<>>, ".bin")
RmuOut    == [r \in {1, 2} |-> Name(IF r = 1 THEN "RMU" ELSE "RMU2", <<>>, ".bin")]
RmuSrc    == [r \in {1, 2} |-> Name(IF r = 1 THEN "QuarkMicrocode/RMU"
                                             ELSE "Quark2Microcode/RMU", <<>>, ".bin")]

VARIABLES
  buildOk, dirOk, rmu,    \* the environment of the run
  listing,                \* sorted(os.listdir(build_dir))
  k,                      \* position of the loop in the listing
  index1, index2,
  out,                    \* FlashModules: name -> contents
  exitCode,
  pc

vars == <<buildOk, dirOk, rmu, listing, k, index1, index2, out, exitCode, pc>>

-----------------------------------------------------------------------------
(* Names                                                                   *)

RECURSIVE Digits(_)
Digits(i) == IF i < 10 THEN <<i>> ELSE Digits(i \div 10) \o <<i % 10>>

(* The bytes of a name as far as they decide the order: the fixed part,  *)
(* the digits ('0' = 48) and the extension ('.' = 46, 'F' = 70, 'f' = 102). *)
SortKey(n) ==
  <<ClsRank[n.cls]>> \o [j \in DOMAIN n.num |-> 48 + n.num[j]]
    \o <<46, IF n.ext = ".Fv" THEN 70 ELSE 102>>

RECURSIVE KeyLess(_, _)
KeyLess(a, b) ==
  IF a = <<>> THEN b # <<>>
  ELSE IF b = <<>> THEN FALSE
  ELSE IF Head(a) # Head(b) THEN Head(a) < Head(b)
  ELSE KeyLess(Tail(a), Tail(b))

NameLess(a, b) == KeyLess(SortKey(a), SortKey(b))

(* sorted(): the least name first.                                        *)
RECURSIVE Sorted(_)
Sorted(S) ==
  IF S = {} THEN <<>>
  ELSE LET least == CHOOSE x \in S : \A y \in S \ {x} : NameLess(x, y)
       IN  <<least>> \o Sorted(S \ {least})

IsFv(n) == n.ext = ".Fv"

(* re.search(c + str(i), n).                                               *)
Matches(n, c, i) == n.cls = c /\ IsPrefix(Digits(i), n.num)

(* re.search("EDKII_BOOT_STAGE2", n) also finds the COMPACT and RECOVERY  *)
(* variants.                                                              *)
NameContains(n, c) == n.cls = c \/ (c = BS2 /\ n.cls \in {BS2C, BS2R})

Put(f, n, v) == [x \in DOMAIN f \cup {n} |-> IF x = n THEN v ELSE f[x]]

-----------------------------------------------------------------------------
(* Top level                                                               *)

Init ==
  /\ buildOk \in BuildTypeOk
  /\ dirOk \in BuildDirOk
  /\ rmu \in RmuPresent
  /\ \E d \in Dirs : listing = Sorted(d)
  /\ k = 1
  /\ index1 = 1
  /\ index2 = 1
  /\ out = <<>>
  /\ exitCode = NONE
  /\ pc = "start"

(* The script ends: 0 when it falls off its end (the error branches only *)
(* print), 1 on an uncaught exception.                                   *)
Stop(code) == pc' = "done" /\ exitCode' = code

(* re.match on the build type; the else branch only prints.               *)
CheckBuildType ==
  /\ pc = "start"
  /\ IF buildOk THEN pc' = "rmu" /\ UNCHANGED exitCode ELSE Stop(0)
  /\ UNCHANGED <<buildOk, dirOk, rmu, listing, k, index1, index2, out>>

(* Mutant: source and destination of the copies swapped.                 *)
CopyRmuSwapped ==
  /\ pc = "rmu"
  /\ \/ 1 \notin rmu /\ Stop(1) /\ UNCHANGED out
     \/ 1 \in rmu /\ 2 \notin rmu /\ Stop(1)
        /\ out' = Put(out, RmuOut[1], <<RmuOut[1]>>)
     \/ rmu = {1, 2} /\ pc' = "builddir" /\ UNCHANGED exitCode
        /\ out' = Put(Put(out, RmuOut[1], <<RmuOut[1]>>), RmuOut[2], <<RmuOut[2]>>)
  /\ UNCHANGED <<buildOk, dirOk, rmu, listing, k, index1, index2>>

(* Both copyfileobj calls open the source before the destination: a      *)
(* missing RMU.bin raises IOError before anything is written, a missing   *)
(* Quark2 one after RMU.bin was.                                          *)
CopyRmu ==
  /\ pc = "rmu"
  /\ \/ 1 \notin rmu /\ Stop(1) /\ UNCHANGED out
     \/ 1 \in rmu /\ 2 \notin rmu /\ Stop(1)
        /\ out' = Put(out, RmuOut[1], <<RmuSrc[1]>>)
     \/ rmu = {1, 2} /\ pc' = "builddir" /\ UNCHANGED exitCode
        /\ out' = Put(Put(out, RmuOut[1], <<RmuSrc[1]>>), RmuOut[2], <<RmuSrc[2]>>)
  /\ UNCHANGED <<buildOk, dirOk, rmu, listing, k, index1, index2>>

CheckBuildDir ==
  /\ pc = "builddir"
  /\ IF dirOk THEN pc' = "fixup" /\ UNCHANGED exitCode ELSE Stop(0)
  /\ UNCHANGED <<buildOk, dirOk, rmu, listing, k, index1, index2, out>>

(* The first loop (SpiFixup): it completes, or one of its exceptions ends *)
(* the script with a traceback.  It writes nothing in FlashModules.      *)
FirstLoop ==
  /\ pc = "fixup"
  /\ \/ pc' = "pack" /\ UNCHANGED exitCode
     \/ Stop(1)
  /\ UNCHANGED <<buildOk, dirOk, rmu, listing, k, index1, index2, out>>

-----------------------------------------------------------------------------
(* The packaging loop, one file of the listing per step                   *)

(* EDKII_RECOVERY_STAGE1_IMAGE<index1>: the inner loop writes file1 then  *)
(* file2 into EDKII_RECOVERY_IMAGE<index1>.Fv for every matching stage2,  *)
(* each open(.., 'wb') truncating the previous one.                       *)
RecoveryImage(n) ==
  LET partners == SelectSeq(listing, LAMBDA m : IsFv(m) /\ Matches(m, RS2, index1))
  IN  IF partners = <<>> THEN out
      ELSE Put(out, Name(RIMG, Digits(index1), ".Fv"), <<n, Last(partners)>>)

(* The else branch: shutil.copy keeps the name; each matching pattern    *)
(* copies again.                                                          *)
OtherCopy(n) ==
  IF \E c \in {BS2, BS2R, BS2C, ORIDE} : NameContains(n, c) THEN Put(out, n, <<n>>) ELSE out

PackFile ==
  /\ pc = "pack"
  /\ k <= Len(listing)
  /\ LET n == listing[k] IN
       \/ IsFv(n) /\ Matches(n, RS1, index1)
          /\ out' = RecoveryImage(n)
          /\ index1' = index1 + 1 /\ UNCHANGED index2
       \/ IsFv(n) /\ ~Matches(n, RS1, index1) /\ Matches(n, BS1, index2)
          /\ out' = Put(out, Name(BS1, Digits(index2), ".Fv"), <<n>>)
          /\ index2' = index2 + 1 /\ UNCHANGED index1
       \/ IsFv(n) /\ ~Matches(n, RS1, index1) /\ ~Matches(n, BS1, index2)
          /\ out' = OtherCopy(n)
          /\ UNCHANGED <<index1, index2>>
       \/ ~IsFv(n) /\ UNCHANGED <<out, index1, index2>>
  /\ k' = k + 1
  /\ UNCHANGED <<buildOk, dirOk, rmu, listing, exitCode, pc>>

PackDone ==
  /\ pc = "pack"
  /\ k > Len(listing)
  /\ pc' = "nvram" /\ k' = 1
  /\ UNCHANGED <<buildOk, dirOk, rmu, listing, index1, index2, out, exitCode>>

(* Every .fd file: read nvramSize bytes at nvramLocation into            *)
(* EDKII_NVRAM.bin, truncating what an earlier .fd put there.            *)
NvramFile ==
  /\ pc = "nvram"
  /\ k <= Len(listing)
  /\ out' = IF listing[k].ext = ".fd" THEN Put(out, NvramName, <<listing[k]>>) ELSE out
  /\ k' = k + 1
  /\ UNCHANGED <<buildOk, dirOk, rmu, listing, index1, index2, exitCode, pc>>

NvramDone ==
  /\ pc = "nvram"
  /\ k > Len(listing)
  /\ Stop(0)
  /\ UNCHANGED <<buildOk, dirOk, rmu, listing, k, index1, index2, out>>

Next ==
  \/ CheckBuildType \/ CopyRmu \/ CheckBuildDir \/ FirstLoop
  \/ PackFile \/ PackDone \/ NvramFile \/ NvramDone

Spec == Init /\ [][Next]_vars /\ WF_vars(Next)

-----------------------------------------------------------------------------
(* Properties                                                              *)

Names == ToSet(listing) \cup {RmuSrc[r] : r \in {1, 2}}

TypeOK ==
  /\ pc \in {"start", "rmu", "builddir", "fixup", "pack", "nvram", "done"}
  /\ exitCode \in {NONE, 0, 1}
  /\ index1 \in Nat \ {0} /\ index2 \in Nat \ {0}
  /\ k \in 1..Len(listing) + 1
  /\ \A o \in DOMAIN out : out[o] \in Seq(Names) /\ out[o] # <<>>

====
