---------------------------- MODULE MC_GitSetup ----------------------------
(***************************************************************************)
(* No patch or two, and every upstream.cfg the script distinguishes: missing,  *)
(* TAG and/or SHA or neither, depth 0 or the default 3, --new-files-only, *)
(* a patch that does not apply, and a git that does or does not take     *)
(* --depth=0.  Three invocations and one transient network failure.      *)
(***************************************************************************)
EXTENDS GitSetup

ListingsCore == {<<>>, <<"0001", "0002">>}
ListingsOne  == {<<"0001">>}

Cfg(e, t, s, d, n, b, z) ==
  [exists |-> e, tag |-> t, sha |-> s, depth |-> d, newOnly |-> n,
   bad |-> b, depth0ok |-> z]

ConfigsCore ==
  {Cfg(FALSE, NONE, NONE, 3, FALSE, {}, TRUE)}
  \cup {Cfg(TRUE, t, s, d, n, b, z) :
          t \in {NONE, "v1"}, s \in {NONE, "c1", "c2"}, d \in {0, 3},
          n \in BOOLEAN, b \in {{}, {"0002"}}, z \in BOOLEAN}

(* No tag, a SHA, the default depth: the clone path, on which a failed   *)
(* git clone removes its directory and leaves no workdir behind.         *)
ConfigsClone == {Cfg(TRUE, NONE, "c1", 3, FALSE, {}, TRUE)}

=============================================================================
