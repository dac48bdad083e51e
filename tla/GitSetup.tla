------------------------------ MODULE GitSetup ------------------------------
(***************************************************************************)
(* meta-clanton/setup/gitsetup.py main(), run again after each failure.   *)
(*                                                                         *)
(* One invocation extracts the new files of every *.patch into a fresh     *)
(* new-files-from-patch-* directory, then creates the work directory with  *)
(* a shallow fetch of the tag (or a full clone), checks out branch clanton *)
(* and, for a tag with a SHA and depth 0, compares the two.  Any failing   *)
(* command ends the process.  The directories it made stay on disk; the    *)
(* next invocation (Rerun) starts from them with the same configuration.  *)
(* The network commands (fetch, clone) may fail transiently, at most       *)
(* MaxFaults times; a failed git clone removes the directory it created.  *)
(***************************************************************************)
EXTENDS Integers, Sequences, FiniteSets, Functions

CONSTANTS
  Listings,     \* candidate *.patch listings, each as patches.sort() orders it
  Configs,      \* upstream.cfg and the options: [exists, tag, sha, depth,
                \* newOnly], with bad (the patches on which `patch` exits
                \* with 2 or more) and depth0ok (whether the installed git
                \* accepts fetch --depth=0)
  TagSha,       \* the commit the tag names
  MaxRuns,      \* invocations of the script
  MaxFaults,    \* transient failures of fetch or clone
  NONE

VARIABLES
  cfg,       \* the configuration (the same for every run)
  patches,   \* the sorted *.patch files
  newdirs,   \* patch -> run that created its new-files directory (NONE: absent)
  work,      \* NONE, or [by, head]: the run that created workdir and its HEAD
  run,       \* the current invocation
  faults,    \* transient failures so far
  k,         \* the patch extract_newfiles is at
  pc

vars == <<cfg, patches, newdirs, work, run, faults, k, pc>>

(* gitref = "tags/" + tag if tag else sha; the commit it names.           *)
GitRef == IF cfg.tag # NONE THEN "tags" ELSE cfg.sha
Commit(ref) == IF ref = "tags" THEN TagSha ELSE ref

Init ==
  /\ cfg \in Configs
  /\ patches \in Listings
  /\ newdirs = [p \in Range(patches) |-> NONE]
  /\ work = NONE
  /\ run = 1
  /\ faults = 0
  /\ k = 1
  /\ pc = "start"

Fail == pc' = "failed"

(* config.read, or sys.exit(-1) when the file is missing.                 *)
Start ==
  /\ pc = "start"
  /\ IF cfg.exists THEN pc' = "extract" ELSE Fail
  /\ UNCHANGED <<cfg, patches, newdirs, work, run, faults, k>>

(* Mutant: os.mkdir tolerates an existing directory.                    *)
ExtractExistOk ==
  /\ pc = "extract" /\ k <= Len(patches)
  /\ LET p == patches[k] IN
       /\ newdirs' = [newdirs EXCEPT ![p] = IF @ = NONE THEN run ELSE @]
       /\ IF p \in cfg.bad THEN Fail /\ UNCHANGED k
                           ELSE k' = k + 1 /\ UNCHANGED pc
  /\ UNCHANGED <<cfg, patches, work, run, faults>>

(* Mutant: the directory is stamped with the next run.                    *)
ExtractRecordsNext ==
  /\ pc = "extract" /\ k <= Len(patches)
  /\ LET p == patches[k] IN
       IF newdirs[p] # NONE
         THEN Fail /\ UNCHANGED <<newdirs, k>>
         ELSE /\ newdirs' = [newdirs EXCEPT ![p] = run + 1]
              /\ IF p \in cfg.bad THEN Fail /\ UNCHANGED k
                                  ELSE k' = k + 1 /\ UNCHANGED pc
  /\ UNCHANGED <<cfg, patches, work, run, faults>>

(* os.mkdir(dname), which raises if it exists, then patch; a status of 2  *)
(* or more makes check_call raise.                                        *)
Extract ==
  /\ pc = "extract" /\ k <= Len(patches)
  /\ LET p == patches[k] IN
       IF newdirs[p] # NONE
         THEN Fail /\ UNCHANGED <<newdirs, k>>
         ELSE /\ newdirs' = [newdirs EXCEPT ![p] = run]
              /\ IF p \in cfg.bad THEN Fail /\ UNCHANGED k
                                     ELSE k' = k + 1 /\ UNCHANGED pc
  /\ UNCHANGED <<cfg, patches, work, run, faults>>

(* Mutant: an existing workdir is reused.                                *)
CheckWorkReuse ==
  /\ pc = "extract" /\ k > Len(patches)
  /\ CASE cfg.newOnly    -> pc' = "ok"
       [] work # NONE    -> pc' = "checkout"
       [] cfg.tag # NONE -> pc' = "fetch"
       [] OTHER          -> pc' = "clone"
  /\ work' = IF pc' = "fetch" THEN [by |-> run, head |-> NONE] ELSE work
  /\ UNCHANGED <<cfg, patches, newdirs, run, faults, k>>

(* --new-files-only returns; otherwise an existing workdir is an error,   *)
(* else mkdir + git init + remote add for a tag, or git clone.            *)
CheckWork ==
  /\ pc = "extract" /\ k > Len(patches)
  /\ CASE cfg.newOnly    -> pc' = "ok"
       [] work # NONE    -> Fail
       [] cfg.tag # NONE -> pc' = "fetch"
       [] OTHER          -> pc' = "clone"
  /\ work' = IF pc' = "fetch" THEN [by |-> run, head |-> NONE] ELSE work
  /\ UNCHANGED <<cfg, patches, newdirs, run, faults, k>>

Transient ==
  /\ faults < MaxFaults
  /\ faults' = faults + 1
  /\ Fail

(* git fetch origin --depth=<depth> tags/t:tags/t                         *)
Fetch ==
  /\ pc = "fetch"
  /\ \/ Transient /\ UNCHANGED work
     \/ cfg.depth = 0 /\ ~cfg.depth0ok /\ Fail /\ UNCHANGED <<faults, work>>
     \/ (cfg.depth # 0 \/ cfg.depth0ok) /\ pc' = "checkout"
        /\ UNCHANGED <<faults, work>>
  /\ UNCHANGED <<cfg, patches, newdirs, run, k>>

(* git clone url workdir; on failure git removes the directory.           *)
Clone ==
  /\ pc = "clone"
  /\ \/ Transient /\ UNCHANGED work
     \/ pc' = "checkout" /\ work' = [by |-> run, head |-> NONE]
        /\ UNCHANGED faults
  /\ UNCHANGED <<cfg, patches, newdirs, run, k>>

(* git checkout -b clanton <gitref>; gitref None names no commit.         *)
Checkout ==
  /\ pc = "checkout"
  /\ IF GitRef = NONE
       THEN Fail /\ UNCHANGED work
       ELSE pc' = "verify" /\ work' = [work EXCEPT !.head = Commit(GitRef)]
  /\ UNCHANGED <<cfg, patches, newdirs, run, faults, k>>

(* test "$(git rev-parse gitref~0)" = sha, only for a tag, a SHA and     *)
(* depth 0.                                                               *)
Verify ==
  /\ pc = "verify"
  /\ IF cfg.sha # NONE /\ cfg.tag # NONE /\ cfg.depth = 0 /\ work.head # cfg.sha
       THEN Fail ELSE pc' = "ok"
  /\ UNCHANGED <<cfg, patches, newdirs, work, run, faults, k>>

(* The script is invoked again; only what is on disk is kept.             *)
Rerun ==
  /\ pc = "failed" /\ run < MaxRuns
  /\ run' = run + 1
  /\ k' = 1
  /\ pc' = "start"
  /\ UNCHANGED <<cfg, patches, newdirs, work, faults>>

Next == Start \/ Extract \/ CheckWork \/ Fetch \/ Clone \/ Checkout \/ Verify
        \/ Rerun

(* Each process runs to its end, and a failed one is run again.          *)
Spec == Init /\ [][Next]_vars /\ WF_vars(Next)

-----------------------------------------------------------------------------
(* Properties                                                              *)

TypeOK ==
  /\ pc \in {"start", "extract", "fetch", "clone", "checkout", "verify",
             "ok", "failed"}
  /\ run \in 1..MaxRuns /\ faults \in 0..MaxFaults
  /\ \A p \in DOMAIN newdirs : newdirs[p] \in 1..run \cup {NONE}

(* A successful run used no directory left behind by an earlier, failed  *)
(* run: every new-files directory was extracted by this run, and so was  *)
(* the work directory it checked out.  os.mkdir raising on an existing    *)
(* directory and the isdir check on workdir are what enforce it.          *)
FreshExtraction ==
  pc = "ok" => \A p \in DOMAIN newdirs : newdirs[p] = run

(* The work directory of a successful checkout was created by that run   *)
(* and holds the commit gitref names.                                     *)
FreshWorkdir ==
  (pc = "ok" /\ ~cfg.newOnly) => work.by = run /\ work.head = Commit(GitRef)

(* A configuration that can succeed at all (the file exists, every patch  *)
(* applies, gitref names a commit, git takes the depth, the SHA check     *)
(* passes) is checked out after a rerun once the network is back: with    *)
(* fewer transient failures than runs, some run succeeds.                 *)
Recoverable ==
  /\ cfg.exists /\ cfg.bad = {}
  /\ cfg.newOnly \/ (GitRef # NONE /\ (cfg.depth # 0 \/ cfg.depth0ok \/ cfg.tag = NONE)
                      /\ ~(cfg.sha # NONE /\ cfg.tag # NONE /\ cfg.depth = 0
                           /\ cfg.sha # TagSha))

RecoversFromTransientFault == Recoverable => <>(pc = "ok")

=============================================================================
