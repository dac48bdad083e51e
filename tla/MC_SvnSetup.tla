---------------------------- MODULE MC_SvnSetup ----------------------------
(***************************************************************************)
(* Externals files of one or two lines in the svn 1.5 format ("URL dir")  *)
(* or the old one ("dir URL"), or one line and an empty one; directories  *)
(* a and b absent or unversioned, and trunk (the basename of the URLs) as *)
(* a third name; every option and environment.  Three invocations and    *)
(* one failure.                                                            *)
(***************************************************************************)
EXTENDS SvnSetup

New(d)  == [fmt |-> "new", dir |-> d, url |-> "trunk"]
Old(d)  == [fmt |-> "old", dir |-> d, url |-> "trunk"]
Blank   == [fmt |-> "blank", dir |-> "a", url |-> "trunk"]

ExternalsCore == {<<New("a")>>, <<New("a"), New("b")>>, <<New("a"), Blank>>,
                  <<Old("a")>>, <<New("a"), Old("b")>>}

NamesCore == {"a", "b", "trunk"}

DisksCore == [NamesCore -> {"none", "plain"}]

OptionsAll ==
  [gitignore : BOOLEAN, download : BOOLEAN, wipeout : BOOLEAN,
   svn : BOOLEAN, git : BOOLEAN]

=============================================================================
