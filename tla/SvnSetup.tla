------------------------------ MODULE SvnSetup ------------------------------
(***************************************************************************)
(* Quark_EDKII/svn_setup.py mainf(), run again after each failure.        *)
(*                                                                         *)
(* One invocation removes the .svn of the clone and the ad-hoc repository  *)
(* next to it, creates that repository afresh, checks it out into ADHOC,   *)
(* moves ADHOC/.svn into the clone, commits the svn:externals read from    *)
(* svn_externals.txt, then (per option) appends to .gitignore, deletes the *)
(* externals' directories (--delete) and runs svn update (--download).    *)
(* A failing command ends the process (die), as does a kill or a command   *)
(* that writes to stderr at any step (Crash, at most MaxFaults times).    *)
(* What is on disk stays; the next invocation (Rerun) starts from it.      *)
(*                                                                         *)
(* A repository is named by the run that created it: svnadmin create     *)
(* gives every new repository a new UUID.                                 *)
(***************************************************************************)
EXTENDS Integers, Sequences, Functions

CONSTANTS
  Names,      \* directory names that may occur in the clone
  Externals,  \* candidate svn_externals.txt contents: sequences of lines
              \* [fmt ("new": "URL dir", "old": "dir URL", "blank"), dir, url]
  Options,    \* candidate command lines [gitignore, download, wipeout] with
              \* svn (svn is on the PATH) and git (the clone has a .git)
  Disks,      \* candidate directories of the clone: Names -> "none"/"plain"
  MaxRuns,    \* invocations of the script
  MaxFaults,  \* processes killed, or commands failing, at any step
  NONE

VARIABLES
  opts,       \* the options of every invocation
  lines,      \* svn_externals.txt
  dirs,       \* name -> "none", "plain" (unversioned) or "ext" (an external)
  dotSvn,     \* the clone's .svn: NONE, or the repository it is a copy of
  repo,       \* ADHOC_PATH: NONE, or [id, ext] (svn:externals committed)
  adhoc,      \* the ADHOC directory: NONE, Emptied, or the repository of
              \* the working copy in it
  gitignore,  \* lines appended to .gitignore
  run,        \* the current invocation
  faults,
  pc

vars == <<opts, lines, dirs, dotSvn, repo, adhoc, gitignore, run, faults, pc>>

(* get_dir: os.path.split(external.split()[-1])[-1].  An empty line has   *)
(* no last token: IndexError.                                              *)
GetDir(l) == IF l.fmt = "new" THEN l.dir ELSE l.url

HasBlank == \E n \in DOMAIN lines : lines[n].fmt = "blank"

(* get_external_dirs(), for lines without a blank one.                   *)
ExternalDirs == [n \in DOMAIN lines |-> GetDir(lines[n])]

Init ==
  /\ opts \in Options
  /\ lines \in Externals
  /\ dirs \in Disks
  /\ dotSvn = NONE
  /\ repo = NONE
  /\ adhoc = NONE
  /\ gitignore = <<>>
  /\ run = 1
  /\ faults = 0
  /\ pc = "version"

(* ADHOC once its .svn has been moved out.                               *)
Emptied == 0

Die == pc' = "died"

Goes(from, to) == pc = from /\ pc' = to

(* svn --version; a missing svn dies.                                     *)
Version ==
  /\ pc = "version"
  /\ IF opts.svn THEN pc' = "room" ELSE Die
  /\ UNCHANGED <<opts, lines, dirs, dotSvn, repo, adhoc, gitignore, run, faults>>

(* Mutant: only ADHOC_PATH is removed.                                   *)
MakeRoomKeepsSvn ==
  /\ Goes("room", "create")
  /\ repo' = NONE
  /\ UNCHANGED <<opts, lines, dirs, dotSvn, adhoc, gitignore, run, faults>>

(* "Make room": rmtree of .svn and of ADHOC_PATH, not of ADHOC.           *)
MakeRoom ==
  /\ Goes("room", "create")
  /\ dotSvn' = NONE
  /\ repo' = NONE
  /\ UNCHANGED <<opts, lines, dirs, adhoc, gitignore, run, faults>>

(* Mutant: the repository is named after the next run.                  *)
CreateNextId ==
  /\ Goes("create", "checkout")
  /\ repo' = [id |-> run + 1, ext |-> FALSE]
  /\ UNCHANGED <<opts, lines, dirs, dotSvn, adhoc, gitignore, run, faults>>

(* svnadmin create ADHOC_PATH                                             *)
Create ==
  /\ Goes("create", "checkout")
  /\ repo' = [id |-> run, ext |-> FALSE]
  /\ UNCHANGED <<opts, lines, dirs, dotSvn, adhoc, gitignore, run, faults>>

(* Mutant: a checkout into the emptied ADHOC is refused too.              *)
CheckoutIntoNoneOnly ==
  /\ pc = "checkout"
  /\ IF adhoc = NONE THEN pc' = "move" /\ adhoc' = repo.id
                      ELSE Die /\ UNCHANGED adhoc
  /\ UNCHANGED <<opts, lines, dirs, dotSvn, repo, gitignore, run, faults>>

(* svn checkout file:///ADHOC_PATH ADHOC.  Into a working copy left by an *)
(* earlier run, of the repository that has since been recreated, svn      *)
(* refuses: the repository UUID does not match.                           *)
Checkout ==
  /\ pc = "checkout"
  /\ IF adhoc \in {NONE, Emptied}
       THEN pc' = "move" /\ adhoc' = repo.id
       ELSE Die /\ UNCHANGED adhoc
  /\ UNCHANGED <<opts, lines, dirs, dotSvn, repo, gitignore, run, faults>>

(* shutil.move(ADHOC/.svn, '.'); os.rmdir(ADHOC)                          *)
Move ==
  /\ Goes("move", "rmdir")
  /\ dotSvn' = adhoc
  /\ adhoc' = Emptied
  /\ UNCHANGED <<opts, lines, dirs, repo, gitignore, run, faults>>

Rmdir ==
  /\ Goes("rmdir", "propset")
  /\ adhoc' = NONE
  /\ UNCHANGED <<opts, lines, dirs, dotSvn, repo, gitignore, run, faults>>

(* svn propset svn:externals -F svn_externals.txt . (in the working copy) *)
Propset ==
  /\ Goes("propset", "commit")
  /\ UNCHANGED <<opts, lines, dirs, dotSvn, repo, adhoc, gitignore, run, faults>>

(* svn commit --depth empty: the property reaches the repository.        *)
Commit ==
  /\ Goes("commit", "ignore")
  /\ repo' = [repo EXCEPT !.ext = TRUE]
  /\ UNCHANGED <<opts, lines, dirs, dotSvn, adhoc, gitignore, run, faults>>

(* With a .git: git ls-tree, then svn propset svn:ignore (not committed). *)
Ignore ==
  /\ Goes("ignore", "gitignore")
  /\ UNCHANGED <<opts, lines, dirs, dotSvn, repo, adhoc, gitignore, run, faults>>

(* --gitignore: append '/' + dir for every external and '/.svn'.  The    *)
(* file is opened before get_external_dirs() raises on a blank line.      *)
GitignoreStep ==
  /\ pc = "gitignore"
  /\ \/ ~opts.gitignore /\ pc' = "wipeout" /\ UNCHANGED gitignore
     \/ opts.gitignore /\ HasBlank /\ Die /\ UNCHANGED gitignore
     \/ opts.gitignore /\ ~HasBlank /\ pc' = "wipeout"
        /\ gitignore' = gitignore \o ExternalDirs \o <<".svn">>
  /\ UNCHANGED <<opts, lines, dirs, dotSvn, repo, adhoc, run, faults>>

(* --delete: shutil.rmtree of every get_dir() name that exists.          *)
Wipeout ==
  /\ pc = "wipeout"
  /\ \/ ~opts.wipeout /\ pc' = "update" /\ UNCHANGED dirs
     \/ opts.wipeout /\ HasBlank /\ Die /\ UNCHANGED dirs
     \/ opts.wipeout /\ ~HasBlank /\ pc' = "update"
        /\ dirs' = [d \in Names |-> IF d \in Range(ExternalDirs) THEN "none"
                                                                 ELSE dirs[d]]
  /\ UNCHANGED <<opts, lines, dotSvn, repo, adhoc, gitignore, run, faults>>

(* An unversioned directory where an external goes: svn update reports   *)
(* it on stderr, and my_system dies.                                      *)
Obstructed == \E n \in DOMAIN lines : lines[n].fmt # "blank"
                                      /\ dirs[lines[n].dir] = "plain"

(* --download: svn update checks out every external of the committed     *)
(* property into its directory.                                           *)
Update ==
  /\ pc = "update"
  /\ \/ ~opts.download /\ pc' = "ok" /\ UNCHANGED dirs
     \/ opts.download /\ Obstructed /\ Die /\ UNCHANGED dirs
     \/ opts.download /\ ~Obstructed /\ pc' = "ok"
        /\ dirs' = [d \in Names |->
                      IF \E n \in DOMAIN lines : lines[n].fmt # "blank"
                                                 /\ lines[n].dir = d
                        THEN "ext" ELSE dirs[d]]
  /\ UNCHANGED <<opts, lines, dotSvn, repo, adhoc, gitignore, run, faults>>

(* The process is killed, or the command of this step writes to stderr.  *)
Crash ==
  /\ pc \notin {"ok", "died"}
  /\ faults < MaxFaults
  /\ faults' = faults + 1
  /\ Die
  /\ UNCHANGED <<opts, lines, dirs, dotSvn, repo, adhoc, gitignore, run>>

(* The script is invoked again with the same options.                     *)
Rerun ==
  /\ pc = "died" /\ run < MaxRuns
  /\ run' = run + 1
  /\ pc' = "version"
  /\ UNCHANGED <<opts, lines, dirs, dotSvn, repo, adhoc, gitignore, faults>>

Next ==
  \/ Version \/ MakeRoom \/ Create \/ Checkout \/ Move \/ Rmdir \/ Propset
  \/ Commit \/ Ignore \/ GitignoreStep \/ Wipeout \/ Update \/ Crash \/ Rerun

(* Each process runs to its end, and a failed one is run again.          *)
Spec == Init /\ [][Next]_vars /\ WF_vars(Next)

-----------------------------------------------------------------------------
(* Properties                                                              *)

TypeOK ==
  /\ pc \in {"version", "room", "create", "checkout", "move", "rmdir",
             "propset", "commit", "ignore", "gitignore", "wipeout", "update",
             "ok", "died"}
  /\ dirs \in [Names -> {"none", "plain", "ext"}]
  /\ dotSvn \in {NONE} \/ dotSvn \in 1..run
  /\ repo \in {NONE} \/ repo \in [id : 1..run, ext : BOOLEAN]
  /\ adhoc \in {NONE} \/ adhoc \in 0..run
  /\ run \in 1..MaxRuns /\ faults \in 0..MaxFaults

(* Whatever step an earlier invocation died at, the clone's .svn is a     *)
(* working copy of the repository now at ADHOC_PATH: the make-room step   *)
(* removes the two together, and only a checkout of the new repository   *)
(* is moved into the clone.                                               *)
StaleFree == dotSvn # NONE => repo # NONE /\ dotSvn = repo.id

(* The options and the disk let an invocation finish: svn is installed,   *)
(* no blank line reaches get_external_dirs(), and svn update meets no     *)
(* unversioned directory that --delete leaves (it removes the get_dir()   *)
(* names, which for an old-format line is the URL's basename).            *)
Feasible ==
  /\ opts.svn
  /\ ~(HasBlank /\ (opts.gitignore \/ opts.wipeout))
  /\ ~(opts.download /\
        \E n \in DOMAIN lines :
          /\ lines[n].fmt # "blank" /\ dirs[lines[n].dir] = "plain"
          /\ ~(opts.wipeout /\ lines[n].dir \in Range(ExternalDirs)))

(* Once the last fault has happened, an invocation that the options and   *)
(* the disk allow runs to its end whatever an earlier one left behind     *)
(* (a .svn, ADHOC_PATH, an emptied ADHOC): the make-room step and the     *)
(* checkout into an empty ADHOC absorb it.  Excluded is a working copy    *)
(* left in ADHOC, which no later invocation removes.                      *)
RecoversAfterLastFault ==
  (pc = "version" /\ faults = MaxFaults /\ adhoc \in {NONE, Emptied} /\ Feasible)
    ~> pc = "ok"

=============================================================================
