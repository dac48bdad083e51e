----------------------------- MODULE MC_DupScan -----------------------------
(***************************************************************************)
(* layout.conf texts for DupScan: a first group, then up to four lines   *)
(* from an alphabet holding a second group, the same key written with    *)
(* and without blanks and in two cases, a key with a separator in its     *)
(* value, an indented key and both kinds of comment.                     *)
(***************************************************************************)
EXTENDS DupScan

Sec(n) == [k |-> "section", name |-> n]
Opt(key, sp, vsep, val, ind) ==
  [k |-> "option", key |-> key, sp |-> sp, vsep |-> vsep, val |-> val, indent |-> ind]
Semi(sep) == [k |-> "semi", sep |-> sep, val |-> 0]
Hash == [k |-> "hash", sep |-> FALSE]
Blank == [k |-> "blank"]

Alphabet ==
  {Sec("g1"), Sec("g2"), Opt("a", FALSE, FALSE, 1, FALSE), Opt("a", TRUE, FALSE, 2, FALSE),
   Opt("A", FALSE, FALSE, 1, FALSE), Opt("a", FALSE, TRUE, 3, FALSE),
   Opt("a", FALSE, FALSE, 1, TRUE), Semi(FALSE), Semi(TRUE), Hash, Blank}

TextsCore ==
  {<<Sec("g1")>> \o s : s \in UNION {[1..n -> Alphabet] : n \in 0..3}}

=============================================================================
