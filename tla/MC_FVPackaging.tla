--------------------------- MODULE MC_FVPackaging ---------------------------
(***************************************************************************)
(* Build directories for FVPackaging.  The fixed names are in every      *)
(* directory; any subset of the numbered volumes and of a second .fd is   *)
(* added, so numbers with gaps, stage1 images without a stage2 partner   *)
(* and listings with two flash descriptions all occur.                    *)
(***************************************************************************)
EXTENDS FVPackaging

Vol(c, i) == Name(c, Digits(i), ".Fv")

Fixed == {Name(BS2, <<>>, ".Fv"), Name(BS2R, <<>>, ".Fv"),
          Name(ORIDE, <<>>, ".Fv"), Name("QUARK", <<>>, ".fd")}

Numbered == {Vol(RS1, 1), Vol(RS1, 2), Vol(RS1, 3), Vol(RS2, 1), Vol(RS2, 3),
             Vol(BS1, 1), Vol(BS1, 3), Name("QUARK", <<2>>, ".fd")}

DirsCore == {Fixed \cup s : s \in SUBSET Numbered}

RmuCore == {{}, {1}, {1, 2}}

=============================================================================
