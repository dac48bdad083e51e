---------------------------- MODULE MC_Generator ----------------------------
(***************************************************************************)
(* Manifests for Generator.  A 4 KiB flash (global size = 4096) at the    *)
(* top of a 1 MiB address space; every group below exercises one branch  *)
(* of parse_layout, read_data, generate_mfh, validate_layout or           *)
(* gen_flash_binary.                                                      *)
(***************************************************************************)
EXTENDS Generator

Top == 1048576       \* AddrTop of the model (2^32 in the code)
FS  == 4096

Item(n, mfhItem, tname, addr, sz, bi, sv, f) ==
  [name |-> n, type |-> "other", stype |-> [mfh |-> mfhItem, name |-> tname],
   meta |-> "", address |-> addr, size |-> sz, boot |-> bi, svn |-> sv,
   file |-> f, value |-> 0, missing |-> {}, bools |-> {}]

GGlobal  == [Item("global", FALSE, "global", 0, FS, NONE, NONE, "") EXCEPT !.type = "global"]
GMfh     == [Item("mfh", FALSE, "mfh", Top - 4096, 0, NONE, NONE, "") EXCEPT !.type = "mfh"]
GMfh2    == [GMfh EXCEPT !.name = "mfh2", !.address = Top - 3072]
GVersion == [Item("version", FALSE, "", 0, 0, NONE, NONE, "") EXCEPT !.meta = "version", !.value = 1]
GLayout  == [Item("layout", FALSE, "raw", Top - 3584, 0, NONE, NONE, "") EXCEPT !.meta = "layout"]

GStage1   == Item("stage1",  TRUE,  "host_fw_stage1", Top - 2048, 256, 0, 1, "fa")
GStage2   == Item("stage2",  TRUE,  "host_fw_stage2", Top - 1024, 256, 1, 2, "fb")
GRaw      == [Item("raw",    FALSE, "raw",            Top - 512,  256, NONE, NONE, "fc")
               EXCEPT !.bools = {[word |-> "yes", caps |-> TRUE]}]   \* sign = Yes
GSameFile == Item("again",   TRUE,  "bootloader",     Top - 1536, 256, 2, NONE, "fa")
GBadType  == Item("bogus",   TRUE,  "bogus",          Top - 256,  16, NONE, NONE, "fe")
GBelow    == Item("below",   FALSE, "raw",            Top - 8192, 16, NONE, NONE, "ff")
GMfhBelow == Item("kbelow",  TRUE,  "kernel",         Top - 8192, 16, NONE, NONE, "fk")
GTooBig   == Item("toobig",  FALSE, "raw",            Top - 3072, 1025, NONE, NONE, "fg")
GNoType   == Item("notype",  FALSE, "",               Top - 768,  16, NONE, 20, "fh")
GMfhEdge  == Item("edge",    TRUE,  "kernel",         Top - 4097, 1,  NONE, NONE, "fd")
GMissing  == Item("missing", FALSE, "raw",            Top - 640,  NONE, NONE, NONE, "fm")
GBadBool  == [Item("badbool", FALSE, "raw",           Top - 320,  16, NONE, NONE, "fi")
               EXCEPT !.bools = {[word |-> "on", caps |-> FALSE]}]   \* fvwrap = on
GNoAddr   == [Item("noaddr", FALSE, "raw",            0,          16, NONE, NONE, "fj")
               EXCEPT !.missing = {"address"}]
GZeroNoFile == [Item("zeronofile", TRUE, "host_fw_stage1", Top - 2048, 256, 0, 1, "")
                 EXCEPT !.missing = {"item_file"}]

CoreOthers == {GMfh2, GVersion, GLayout, GStage1, GStage2, GRaw, GSameFile,
               GBadType, GBelow, GMfhBelow, GTooBig, GNoType, GMfhEdge, GMissing,
               GBadBool, GNoAddr, GZeroNoFile}

Arrangements(S, n) ==
  UNION {{f \in [1..m -> S] : IsInjective(f)} : m \in 0..n}

(* Boot indexes appear on MFH items only, as in every shipped layout.     *)
ManifestsCore ==
  {<<GGlobal, GMfh>> \o s : s \in Arrangements(CoreOthers, 3)}
  \cup {<<GGlobal>> \o s : s \in Arrangements({GStage1, GRaw}, 2)}
  \cup {<<GMfh>> \o s : s \in Arrangements({GStage1, GRaw}, 2)}

(* An item placed right after the MFH's recorded size: one boot item and  *)
(* one more MFH item give a 36-byte body.                                 *)
GAfterMfh == Item("aftermfh", TRUE, "kernel_signed", Top - 4096 + 36, 16, NONE, NONE, "fx")
ManifestsMfhOverlap == {<<GGlobal, GMfh, GStage1, GAfterMfh>>}

=============================================================================
