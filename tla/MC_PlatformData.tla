--------------------------- MODULE MC_PlatformData ---------------------------
(***************************************************************************)
(* INI files, paths and images for PlatformData.  A record input is its    *)
(* id and ver (int() of the INI text), its desc as code points, its       *)
(* data.type (the integer types split into prefix and bit count) and its  *)
(* data.value: code points, hex or decimal digits, or file bytes.         *)
(***************************************************************************)
EXTENDS PlatformData

(* The CRC-32 check value: crc32("123456789") = 0xCBF43926.               *)
ASSUME Crc32(<<49, 50, 51, 52, 53, 54, 55, 56, 57>>) = <<52212, 14630>>

Rec(i, v, d, t, b, x) ==
  [id |-> i, ver |-> v, desc |-> d, type |-> t, bits |-> b, value |-> x]

RString  == Rec(1, NONE, <<65, 66, 67>>, "utf8.string", 0, <<104, 233>>)
RHex16   == Rec(2, 1, [j \in 1..10 |-> 65], "hex.uint", 16, <<1, 15, 15>>)
RDec8    == Rec(3, 0, <<>>, "dec.uint", 8, <<2, 5, 5>>)
RHexStr  == Rec(4, 2, <<100>>, "hex.string", 0, <<10, 11>>)
RFile    == Rec(65535, NONE, <<102>>, "file", 0, <<0, 255>>)

RLongDesc  == Rec(5, NONE, [j \in 1..6 |-> 233], "file", 0, <<1>>)
ROverflow  == Rec(6, NONE, <<>>, "dec.uint", 8, <<2, 5, 6>>)
RBadDigit  == Rec(7, NONE, <<>>, "dec.uint", 16, <<10>>)
ROddHex    == Rec(8, NONE, <<>>, "hex.string", 0, <<1, 2, 3>>)
RBigId     == Rec(65536, NONE, <<>>, "file", 0, <<1>>)
RWidth4    == Rec(9, NONE, <<>>, "hex.uint", 4, <<1>>)
RBadPrefix == Rec(10, NONE, <<>>, "oct.uint", 8, <<1>>)

Valid   == {RString, RHex16, RDec8, RHexStr, RFile}
Invalid == {RLongDesc, ROverflow, RBadDigit, ROddHex, RBigId, RWidth4, RBadPrefix}

InisCore ==
  {<<r>> : r \in Valid \cup Invalid}
  \cup {<<r, s>> : r \in Valid, s \in Valid \cup Invalid}
  \cup {<<r, s>> : r \in Invalid, s \in Valid}

DefaultIni   == Path(".", "platform-data", ".ini")
IniLikeImage == Path("cfg", "Flash-missingPDAT", ".ini")
DefaultImage == Path(".", "Flash-missingPDAT", ".bin")
OtherImage   == Path("img", "Flash", ".bin")
DefaultOut   == Path(".", "Flash+PlatformData", ".bin")

IniPathsCore   == {DefaultIni, IniLikeImage}
ImagePathsCore == {DefaultImage, OtherImage}
OutPathsCore   == {DefaultOut, OtherImage}

IniPathsLikeImage  == {IniLikeImage}
ImagePathsDefault  == {DefaultImage}
OutPathsDefault    == {DefaultOut}
InisOne            == {<<RFile>>}

=============================================================================
