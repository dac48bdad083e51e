------------------------------ MODULE DupScan ------------------------------
(***************************************************************************)
(* spi-flash-tools/generator/generator.py, find_diplicate_sections_and_  *)
(* options: the line scanner that main() runs over layout.conf after     *)
(* parse_layout, to reject what Python 2's ConfigParser silently merges. *)
(*                                                                         *)
(* A line is a record saying what the two regular expressions and        *)
(* ConfigParser see in it:                                                *)
(*   blank; "hash" and "semi": comments starting with '#' or ';', with   *)
(*   sep saying whether they hold '=' or ':';                             *)
(*   section: "[name]";                                                   *)
(*   option: "key<sp>=<value>", sp saying whether blanks precede the      *)
(*   separator, vsep whether the value holds another '=' or ':', val the *)
(*   value, indent whether the line starts with blanks.                   *)
(* option_re, any text then a '=' or ':', is greedy: its group(1) runs to *)
(* the LAST separator and keeps the blanks before it.  ConfigParser's key *)
(* runs to the FIRST separator, is rstripped and lowercased.              *)
(***************************************************************************)
EXTENDS Integers, Sequences, FiniteSets

CONSTANTS
  Texts    \* candidate layout.conf files: sequences of lines

VARIABLES
  text,
  i,                \* the line the loop is at
  sections,         \* section names seen so far
  current_section_options,   \* [id, at] of the option lines of this section
  dup,              \* the two lines reported as duplicates, or <<>>
  pc

vars == <<text, i, sections, current_section_options, dup, pc>>

-----------------------------------------------------------------------------
(* option_re.match(line).group(1) on the stripped line, or "none" when    *)
(* the pattern does not match (no '=' or ':' in the line).               *)
OptionGroup(l) ==
  CASE l.k = "option" /\ l.vsep -> <<l.key, l.sp, l.val>>
    [] l.k = "option"           -> <<l.key, l.sp>>
    [] l.k = "semi" /\ l.sep    -> <<";", l.val>>
    [] OTHER                    -> "none"

Init ==
  /\ text \in Texts
  /\ i = 1
  /\ sections = {}
  /\ current_section_options = {}
  /\ dup = <<>>
  /\ pc = "scan"

Skip(l) == l.k \in {"blank", "hash"}

(* '#' comments and blank lines are passed over.                           *)
ScanSkip ==
  /\ pc = "scan" /\ i <= Len(text) /\ Skip(text[i])
  /\ i' = i + 1
  /\ UNCHANGED <<text, sections, current_section_options, dup, pc>>

(* Mutant: a new section name is not recorded.                          *)
ScanSectionNotRecorded ==
  /\ pc = "scan" /\ i <= Len(text) /\ text[i].k = "section"
  /\ IF text[i].name \in sections
       THEN pc' = "dupe" /\ dup' = <<i>> /\ UNCHANGED <<i, sections, current_section_options>>
       ELSE /\ current_section_options' = {}
            /\ i' = i + 1
            /\ UNCHANGED <<pc, dup, sections>>
  /\ UNCHANGED text

(* Mutant: the options of the previous section are kept.                 *)
ScanSectionNoReset ==
  /\ pc = "scan" /\ i <= Len(text) /\ text[i].k = "section"
  /\ IF text[i].name \in sections
       THEN pc' = "dupe" /\ dup' = <<i>> /\ UNCHANGED <<i, sections, current_section_options>>
       ELSE /\ sections' = sections \cup {text[i].name}
            /\ i' = i + 1
            /\ UNCHANGED <<pc, dup, current_section_options>>
  /\ UNCHANGED text

(* A '[' line: a repeated name dies, a new one starts a fresh option list. *)
ScanSection ==
  /\ pc = "scan" /\ i <= Len(text) /\ text[i].k = "section"
  /\ IF text[i].name \in sections
       THEN pc' = "dupe" /\ dup' = <<i>> /\ UNCHANGED <<i, sections, current_section_options>>
       ELSE /\ sections' = sections \cup {text[i].name}
            /\ current_section_options' = {}
            /\ i' = i + 1
            /\ UNCHANGED <<pc, dup>>
  /\ UNCHANGED text

(* Mutant: the option is recorded at the next line.                    *)
ScanOptionRecordsNext ==
  /\ pc = "scan" /\ i <= Len(text) /\ text[i].k \in {"option", "semi"}
  /\ LET g    == OptionGroup(text[i])
         seen == {o \in current_section_options : o.id = g}
     IN
       \/ g = "none" /\ pc' = "crashed"
          /\ UNCHANGED <<i, sections, current_section_options, dup>>
       \/ g # "none" /\ seen # {}
          /\ pc' = "dupe"
          /\ dup' = <<(CHOOSE o \in seen : TRUE).at, i>>
          /\ UNCHANGED <<i, sections, current_section_options>>
       \/ g # "none" /\ seen = {}
          /\ current_section_options' = current_section_options \cup {[id |-> g, at |-> i + 1]}
          /\ i' = i + 1
          /\ UNCHANGED <<sections, dup, pc>>
  /\ UNCHANGED text

(* Any other line: an option, a ';' comment or a continuation line.  No   *)
(* match raises AttributeError; a group already seen in this section dies. *)
ScanOption ==
  /\ pc = "scan" /\ i <= Len(text) /\ text[i].k \in {"option", "semi"}
  /\ LET g    == OptionGroup(text[i])
         seen == {o \in current_section_options : o.id = g}
     IN
       \/ g = "none" /\ pc' = "crashed"
          /\ UNCHANGED <<i, sections, current_section_options, dup>>
       \/ g # "none" /\ seen # {}
          /\ pc' = "dupe"
          /\ dup' = <<(CHOOSE o \in seen : TRUE).at, i>>
          /\ UNCHANGED <<i, sections, current_section_options>>
       \/ g # "none" /\ seen = {}
          /\ current_section_options' = current_section_options \cup {[id |-> g, at |-> i]}
          /\ i' = i + 1
          /\ UNCHANGED <<sections, dup, pc>>
  /\ UNCHANGED text

ScanEnd ==
  /\ pc = "scan" /\ i > Len(text)
  /\ pc' = "passed"
  /\ UNCHANGED <<text, i, sections, current_section_options, dup>>

Next == ScanSkip \/ ScanSection \/ ScanOption \/ ScanEnd

Spec == Init /\ [][Next]_vars /\ WF_vars(Next)

-----------------------------------------------------------------------------
(* Sections of the text                                                   *)

(* The last section header at or before line j, 0 before the first one.  *)
BlockOf(t, j) ==
  LET hs == {m \in 1..j : t[m].k = "section"}
  IN  IF hs = {} THEN 0 ELSE CHOOSE m \in hs : \A x \in hs : x <= m

-----------------------------------------------------------------------------
(* Properties                                                              *)

TypeOK ==
  /\ pc \in {"scan", "passed", "dupe", "crashed"}
  /\ i \in 1..Len(text) + 1
  /\ \A o \in current_section_options : o.at \in 1..i - 1
  /\ dup \in Seq(1..Len(text)) /\ Len(dup) <= 2

(* A reported duplicate option is reported against an earlier line of the *)
(* same section: the scan starts a new option list at every header, so   *)
(* the same key in two sections is not a duplicate.                       *)
OptionDupWithinSection ==
  (pc = "dupe" /\ Len(dup) = 2) => BlockOf(text, dup[1]) = BlockOf(text, dup[2])

(* A layout.conf that repeats a group name never gets past the scan.      *)
SectionRepeatNeverPasses ==
  (\E a, b \in 1..Len(text) :
     a < b /\ text[a].k = "section" /\ text[b].k = "section"
     /\ text[a].name = text[b].name)
  => pc # "passed"

=============================================================================
