------------------------------- MODULE Updater -------------------------------
(***************************************************************************)
(* Self-update and its rollback: applyUpdate and swapBinaryInPlace of      *)
(* update/self-updater.ts inside a running core, the updater process of    *)
(* tomat-core-updater, and update/rollback.ts at boot.  The state is the   *)
(* handful of files in the bin directory.  A step is one file operation,   *)
(* and the power may fail between any two of them.                         *)
(*                                                                         *)
(* Versions are numbers, so that a downgrade is a smaller one.  Worker and *)
(* helper artifacts, which the code commits apart from the binary and      *)
(* never rolls back, are left out.                                         *)
(***************************************************************************)
EXTENDS Integers

CONSTANTS
    Versions,         \* published versions
    First,            \* the version installed at first
    Broken,           \* versions that never reach the healthy checkpoint
    None,             \* no such file
    Torn,             \* a file with part of a binary in it
    Applies,          \* POST /update/apply requests, one process's or several's
    MaxBootAttempts,  \* MAX_BOOT_ATTEMPTS
    MaxFaults,        \* bound: file operations and spawns that fail
    MaxCrashes        \* bound: power failures and kills

ASSUME UpdaterAssumption ==
    /\ Versions \subseteq Nat /\ Broken \subseteq Versions
    /\ First \in Versions \ Broken
    /\ None \notin Versions /\ Torn \notin Versions /\ None # Torn
    /\ MaxBootAttempts \in Nat \ {0} /\ MaxFaults \in Nat /\ MaxCrashes \in Nat

VARIABLES
    os,          \* "unix" or "windows"
    current,     \* <bin>
    old,         \* <bin>.old, the rollback anchor
    broken,      \* <bin>.broken
    copy,        \* <bin>.old.staged
    tmp,         \* per version, the requests whose bytes are in staging/<v>.tmp
    staged,      \* per version, staging/<v>
    marker,      \* the update marker: version, prev, attempts; version None = no file
    core,        \* the core process: pc, version, and how a rollback installs
    apply,       \* applyUpdate() of each request: pc, version
    updater,     \* the updater process, when the swap was left to it
    proven,      \* history: versions that have reached the healthy checkpoint
    accidents,   \* history: what went wrong for good
    faults, crashes

files == <<current, old, broken, copy>>
staging == <<tmp, staged>>
vars == <<os, files, staging, marker, core, apply, updater, proven, accidents,
          faults, crashes>>


NoMarker == [version |-> None, prev |-> None, attempts |-> 0]
NoApply == [pc |-> "none", version |-> None]

Init ==
    /\ os \in {"unix", "windows"}
    /\ current = First /\ old = None /\ broken = None /\ copy = None
    /\ tmp = [v \in Versions |-> {}] /\ staged = [v \in Versions |-> None]
    /\ marker = NoMarker
    /\ core = [pc |-> "up", version |-> First, src |-> "copy"]
    /\ apply = [a \in Applies |-> NoApply]
    /\ updater = [pc |-> "idle", version |-> None]
    /\ proven = {First} /\ accidents = {}
    /\ faults = 0 /\ crashes = 0

\* An operation that may fail, within the bound; n of them that do.
Works == UNCHANGED faults
Costs(n) == faults + n <= MaxFaults /\ faults' = faults + n
Fails == Costs(1)

To(a, pc) == apply' = [apply EXCEPT ![a].pc = pc]
At(a, pc) == core.pc = "up" /\ apply[a].pc = pc
Mishap(kind) == accidents' = accidents \union {kind}

-----------------------------------------------------------------------------
(* applyUpdateInner                                                        *)

\* A signed manifest that is no downgrade; the staging directory is cleared.
\* Nothing looks for another request in progress.
Request(a, v) ==
    /\ core.pc = "up" /\ apply[a].pc = "none"
    /\ v >= core.version
    /\ apply' = [apply EXCEPT ![a] = [pc |-> "cleared", version |-> v]]
    /\ tmp' = [w \in Versions |-> {}] /\ staged' = [w \in Versions |-> None]
    /\ IF \E b \in Applies : apply[b].pc \notin {"none", "done"}
       THEN Mishap("overlap") ELSE UNCHANGED accidents
    /\ UNCHANGED <<os, files, marker, core, updater, proven, faults, crashes>>

\* downloadAndVerify opens and truncates the temporary file.
Open(a) ==
    LET v == apply[a].version IN
    /\ At(a, "cleared") /\ To(a, "writing")
    /\ tmp' = [tmp EXCEPT ![v] = {b \in @ : apply[b].pc = "writing"} \union {a}]
    /\ UNCHANGED <<os, files, staged, marker, core, updater, proven, accidents, faults, crashes>>

\* The hash of what this request wrote fits, and the file takes its name.  It
\* need not hold those bytes: another request may be writing it.
Verified(a) ==
    LET v == apply[a].version IN
    /\ At(a, "writing")
    /\ \/ /\ tmp[v] # {} /\ Works /\ To(a, "ready")
          /\ staged' = [staged EXCEPT ![v] = IF tmp[v] = {a} THEN v ELSE Torn]
          /\ tmp' = [tmp EXCEPT ![v] = {}]
       \/ /\ tmp[v] = {} \/ faults < MaxFaults
          /\ faults' = IF tmp[v] = {} THEN faults ELSE faults + 1
          /\ To(a, "done") /\ UNCHANGED staging
    /\ UNCHANGED <<os, files, marker, core, updater, proven, accidents, crashes>>

\* swapBinaryInPlace removes the last update's anchor, if there is one and it
\* will go.  "reapplied": the file at <bin> is no longer the one that runs.
DropAnchor(a) ==
    /\ At(a, "ready") /\ To(a, "anchor")
    /\ \/ old' = None /\ Works
       \/ old # None /\ UNCHANGED old /\ Fails
    /\ IF current # core.version THEN Mishap("reapplied") ELSE UNCHANGED accidents
    /\ UNCHANGED <<os, current, broken, copy, staging, marker, core, updater, proven, crashes>>

\* Unix: hard-link the anchor; else copy it, and only look that a file is there,
\* which may be a part of it or the last update's.  Windows: move the running file
\* aside.
Anchor(a) ==
    /\ At(a, "anchor")
    /\ \/ /\ old' = current /\ Works /\ To(a, "install")
          /\ current' = IF os = "windows" THEN None ELSE current
          /\ UNCHANGED accidents
       \/ /\ os = "unix" /\ Fails
          /\ \/ old = None /\ To(a, "done") /\ UNCHANGED <<old, accidents>>
             \/ old # None /\ To(a, "install") /\ UNCHANGED <<old, accidents>>
             \/ old' = Torn /\ To(a, "install") /\ Mishap("tornAnchor")
          /\ UNCHANGED current
       \/ /\ os = "windows" /\ Fails /\ To(a, "defer")
          /\ UNCHANGED <<old, current, accidents>>
    /\ UNCHANGED <<os, broken, copy, staging, marker, core, updater, proven, crashes>>

\* Windows puts the file that was moved aside back, if it will go; n operations
\* have failed before that.
TakeBack(n) ==
    \/ Costs(n) /\ current' = old /\ old' = None /\ UNCHANGED accidents
    \/ Costs(n + 1) /\ current' = None /\ Mishap("notRestored") /\ UNCHANGED old

\* Mutant: a failed install leaves the running file aside.
InstallUnrestored(a) ==
    LET v == apply[a].version IN
    /\ At(a, "install")
    /\ \/ /\ staged[v] # None /\ Works
          /\ current' = staged[v] /\ staged' = [staged EXCEPT ![v] = None]
          /\ To(a, IF os = "unix" THEN "chmod" ELSE "mark") /\ UNCHANGED <<old, accidents>>
       \/ /\ os = "unix" /\ Fails /\ To(a, "done")
          /\ UNCHANGED <<current, old, staged, accidents>>
       \/ /\ os = "windows" /\ Fails /\ To(a, "defer")
          /\ UNCHANGED <<current, old, staged, accidents>>
    /\ UNCHANGED <<os, broken, copy, tmp, marker, core, updater, proven, crashes>>

\* The staged binary takes its place.  When that fails, Windows leaves the swap to
\* the updater.
Install(a) ==
    LET v == apply[a].version
        n == IF staged[v] = None THEN 0 ELSE 1 IN
    /\ At(a, "install")
    /\ \/ /\ staged[v] # None /\ Works
          /\ current' = staged[v] /\ staged' = [staged EXCEPT ![v] = None]
          /\ To(a, IF os = "unix" THEN "chmod" ELSE "mark") /\ UNCHANGED <<old, accidents>>
       \/ /\ os = "unix" /\ Costs(n)
          /\ To(a, "done") /\ UNCHANGED <<current, old, staged, accidents>>
       \/ /\ os = "windows" /\ TakeBack(n)
          /\ To(a, "defer") /\ UNCHANGED staged
    /\ UNCHANGED <<os, broken, copy, tmp, marker, core, updater, proven, crashes>>

\* Unix: chmod, of a file that downloadAndVerify made executable already.
MakeExecutable(a) ==
    /\ At(a, "chmod")
    /\ \/ Works /\ To(a, "mark") /\ UNCHANGED accidents
       \/ Fails /\ To(a, "done") /\ Mishap("unmarked")
    /\ UNCHANGED <<os, files, staging, marker, core, updater, proven, crashes>>

\* Mutant: the two versions in the marker change places.
MarkSwapped(a) ==
    /\ \E pc \in {"mark", "defer"} :
          /\ At(a, pc)
          /\ \/ /\ Works
                /\ marker' = [version |-> core.version, prev |-> apply[a].version,
                              attempts |-> 0]
                /\ To(a, IF pc = "mark" THEN "restart" ELSE "restartDeferred")
                /\ UNCHANGED accidents
             \/ /\ Fails /\ To(a, "done") /\ UNCHANGED marker
                /\ IF pc = "mark" THEN Mishap("unmarked") ELSE UNCHANGED accidents
    /\ UNCHANGED <<os, files, staging, core, updater, proven, crashes>>

\* writeUpdateMarker, after the swap.  "defer": the updater is to swap.
Mark(a) ==
    /\ \E pc \in {"mark", "defer"} :
          /\ At(a, pc)
          /\ \/ /\ Works
                /\ marker' = [version |-> apply[a].version, prev |-> core.version,
                              attempts |-> 0]
                /\ To(a, IF pc = "mark" THEN "restart" ELSE "restartDeferred")
                /\ UNCHANGED accidents
             \/ /\ Fails /\ To(a, "done") /\ UNCHANGED marker
                /\ IF pc = "mark" THEN Mishap("unmarked") ELSE UNCHANGED accidents
    /\ UNCHANGED <<os, files, staging, core, updater, proven, crashes>>

\* Spawn the updater where one is needed, then exit; every request dies with it.
Exit(a) ==
    /\ \E pc \in {"restart", "restartDeferred"} :
          /\ At(a, pc)
          /\ \/ /\ core' = [core EXCEPT !.pc = "down"] /\ Works
                /\ apply' = [b \in Applies |->
                               IF apply[b].pc = "none" THEN apply[b]
                               ELSE [apply[b] EXCEPT !.pc = "done"]]
                /\ updater' = IF pc = "restart" THEN updater
                              ELSE [pc |-> "wait", version |-> apply[a].version]
             \/ Fails /\ To(a, "done") /\ UNCHANGED <<core, updater>>
    /\ UNCHANGED <<os, files, staging, marker, proven, accidents, crashes>>

-----------------------------------------------------------------------------
(* tomat-core-updater with --staged (Windows): perform_swap                *)

\* The old anchor is removed, if it will go, and the binary moved aside.
UpdaterAside ==
    LET n == IF current = None THEN 0 ELSE 1 IN
    /\ updater.pc = "wait" /\ core.pc = "down"
    /\ \/ /\ current # None /\ Works
          /\ old' = current /\ current' = None
          /\ updater' = [updater EXCEPT !.pc = "install"]
       \/ /\ \/ Costs(n) /\ old' = None
             \/ Costs(n + 1) /\ old # None /\ UNCHANGED old
          /\ updater' = [updater EXCEPT !.pc = "idle"]
          /\ UNCHANGED current
    /\ UNCHANGED <<os, broken, copy, staging, marker, core, apply, proven, accidents, crashes>>

\* The staged binary takes its place, or is not there to take it.  Without a
\* supervisor the updater starts it, and takes it back when it does not even start.
UpdaterInstall ==
    LET new == staged[updater.version]
        moved == [staged EXCEPT ![updater.version] = None] IN
    /\ updater.pc = "install"
    /\ updater' = [updater EXCEPT !.pc = "idle"]
    /\ \/ /\ new # None /\ Works
          /\ current' = new /\ staged' = moved /\ UNCHANGED <<old, accidents>>
       \/ TakeBack(IF new = None THEN 0 ELSE 1) /\ UNCHANGED staged
       \/ new # None /\ TakeBack(IF new = Torn THEN 0 ELSE 1) /\ staged' = moved
    /\ UNCHANGED <<os, broken, copy, tmp, marker, core, apply, proven, crashes>>

-----------------------------------------------------------------------------
(* Boot: handleUpdateMarkerOnBoot, performRollback, commitUpdate           *)

\* A supervisor, the updater or the client starts core again.
Launch ==
    /\ core.pc = "down" /\ updater.pc = "idle" /\ current \in Versions
    /\ core' = [core EXCEPT !.pc = "boot", !.version = current]
    /\ UNCHANGED <<os, files, staging, marker, apply, updater, proven, accidents, faults,
                   crashes>>

\* Mutant: an interrupted first boot counts as the last one.
CheckMarkerEager ==
    /\ core.pc = "boot"
    /\ \/ /\ marker.version # core.version /\ marker' = NoMarker
          /\ core' = [core EXCEPT !.pc = "starting"]
       \/ /\ marker.version = core.version /\ marker.attempts + 1 >= MaxBootAttempts
          /\ core' = [core EXCEPT !.pc = "rollback"] /\ UNCHANGED marker
       \/ /\ marker.version = core.version /\ marker.attempts + 1 < MaxBootAttempts
          /\ core' = [core EXCEPT !.pc = "starting"]
          /\ marker' = [marker EXCEPT !.attempts = @ + 1]
    /\ UNCHANGED <<os, files, staging, apply, updater, proven, accidents, faults, crashes>>

\* Mutant: the attempt is not recorded.
CheckMarkerUncounted ==
    /\ core.pc = "boot"
    /\ \/ /\ marker.version # core.version /\ marker' = NoMarker
          /\ core' = [core EXCEPT !.pc = "starting"]
       \/ /\ marker.version = core.version /\ marker.attempts >= MaxBootAttempts
          /\ core' = [core EXCEPT !.pc = "rollback"] /\ UNCHANGED marker
       \/ /\ marker.version = core.version /\ marker.attempts < MaxBootAttempts
          /\ core' = [core EXCEPT !.pc = "starting"] /\ UNCHANGED marker
    /\ UNCHANGED <<os, files, staging, apply, updater, proven, accidents, faults, crashes>>

CheckMarker ==
    /\ core.pc = "boot"
    /\ \/ /\ marker.version # core.version /\ marker' = NoMarker
          /\ core' = [core EXCEPT !.pc = "starting"]
       \/ /\ marker.version = core.version /\ marker.attempts >= MaxBootAttempts
          /\ core' = [core EXCEPT !.pc = "rollback"] /\ UNCHANGED marker
       \/ /\ marker.version = core.version /\ marker.attempts < MaxBootAttempts
          /\ core' = [core EXCEPT !.pc = "starting"]
          /\ marker' = [marker EXCEPT !.attempts = @ + 1]
    /\ UNCHANGED <<os, files, staging, apply, updater, proven, accidents, faults, crashes>>

\* Mutant: a copy that failed half way is installed.
CopyAnchorTrusting ==
    /\ core.pc = "rollback"
    /\ \/ /\ old = None /\ Works
          /\ core' = [core EXCEPT !.pc = "starting"]
          /\ marker' = NoMarker /\ Mishap("gaveUp") /\ UNCHANGED <<broken, copy>>
       \/ /\ old # None /\ Works
          /\ core' = [core EXCEPT !.pc = "aside", !.src = "copy"]
          /\ broken' = None /\ copy' = old /\ UNCHANGED <<marker, accidents>>
       \/ /\ old # None /\ Fails
          /\ core' = [core EXCEPT !.pc = "aside", !.src = "copy"]
          /\ broken' = None /\ copy' = Torn /\ UNCHANGED <<marker, accidents>>
    /\ UNCHANGED <<os, current, old, staging, apply, updater, proven, crashes>>

\* performRollback clears its own leftovers and copies the anchor; it gives up
\* when there is none, and does without the copy when that fails.
CopyAnchor ==
    /\ core.pc = "rollback"
    /\ \/ /\ old = None /\ Works
          /\ core' = [core EXCEPT !.pc = "starting"]
          /\ marker' = NoMarker /\ Mishap("gaveUp") /\ UNCHANGED <<broken, copy>>
       \/ /\ old # None /\ Works
          /\ core' = [core EXCEPT !.pc = "aside", !.src = "copy"]
          /\ broken' = None /\ copy' = old /\ UNCHANGED <<marker, accidents>>
       \/ /\ old # None /\ Fails
          /\ core' = [core EXCEPT !.pc = "aside", !.src = "old"]
          /\ broken' = None /\ copy' = Torn /\ UNCHANGED <<marker, accidents>>
    /\ UNCHANGED <<os, current, old, staging, apply, updater, proven, crashes>>

\* rename(<bin>, <bin>.broken); a failure ends the rollback, and the boot goes on.
MoveAside ==
    /\ core.pc = "aside"
    /\ \/ /\ broken' = current /\ current' = None /\ Works
          /\ core' = [core EXCEPT !.pc = "restore"]
          /\ UNCHANGED <<copy, marker, accidents>>
       \/ /\ Fails /\ core' = [core EXCEPT !.pc = "starting"]
          /\ copy' = IF core.src = "copy" THEN None ELSE copy
          /\ marker' = NoMarker /\ Mishap("gaveUp") /\ UNCHANGED <<current, broken>>
    /\ UNCHANGED <<os, old, staging, apply, updater, proven, crashes>>

\* rename(src, <bin>); on failure <bin>.broken goes back, if it will.
Restore ==
    /\ core.pc = "restore"
    /\ \/ /\ Works
          /\ IF core.src = "copy" THEN current' = copy /\ copy' = None /\ UNCHANGED old
                                  ELSE current' = old /\ old' = None /\ UNCHANGED copy
          /\ core' = [core EXCEPT !.pc = IF core.src = "copy" THEN "drop" ELSE "clear"]
          /\ UNCHANGED <<broken, marker, accidents>>
       \/ /\ \/ Fails /\ current' = broken /\ broken' = None
             \/ /\ faults + 1 < MaxFaults /\ faults' = faults + 2
                /\ UNCHANGED <<current, broken>>
          /\ core' = [core EXCEPT !.pc = "starting"]
          /\ copy' = IF core.src = "copy" THEN None ELSE copy
          /\ marker' = NoMarker /\ Mishap("gaveUp") /\ UNCHANGED old
    /\ UNCHANGED <<os, staging, apply, updater, proven, crashes>>

\* Best effort: the anchor is no longer needed.
DropOld ==
    /\ core.pc = "drop"
    /\ \/ old' = None /\ Works
       \/ UNCHANGED old /\ Fails
    /\ core' = [core EXCEPT !.pc = "clear"]
    /\ UNCHANGED <<os, current, broken, copy, staging, marker, apply, updater, proven,
                   accidents, crashes>>

\* The marker goes, and core exits for its supervisor to start the old version.
RolledBack ==
    /\ core.pc = "clear"
    /\ marker' = NoMarker /\ core' = [core EXCEPT !.pc = "down"]
    /\ UNCHANGED <<os, files, staging, apply, updater, proven, accidents, faults, crashes>>

\* A broken version dies somewhere between the marker and the checkpoint.
Dies ==
    /\ core.pc = "starting" /\ core.version \in Broken
    /\ core' = [core EXCEPT !.pc = "down"]
    /\ UNCHANGED <<os, files, staging, marker, apply, updater, proven, accidents, faults,
                   crashes>>

\* The listener is bound: commitUpdate.
Healthy ==
    /\ core.pc = "starting" /\ core.version \notin Broken
    /\ proven' = proven \union {core.version}
    /\ core' = [core EXCEPT !.pc = IF marker = NoMarker THEN "up" ELSE "commit"]
    /\ UNCHANGED <<os, files, staging, marker, apply, updater, accidents, faults, crashes>>

CommitAnchor ==
    /\ core.pc = "commit"
    /\ \/ old' = None /\ Works
       \/ UNCHANGED old /\ Fails
    /\ core' = [core EXCEPT !.pc = "committed"]
    /\ UNCHANGED <<os, current, broken, copy, staging, marker, apply, updater, proven,
                   accidents, crashes>>

CommitMarker ==
    /\ core.pc = "committed"
    /\ marker' = NoMarker /\ core' = [core EXCEPT !.pc = "up"]
    /\ UNCHANGED <<os, files, staging, apply, updater, proven, accidents, faults, crashes>>

-----------------------------------------------------------------------------
(* Faults                                                                  *)

\* The power fails, or someone kills core: between the swap and its marker the
\* new binary is left unmarked, and between two renames there is none at all.
Crash ==
    /\ core.pc # "down" \/ updater.pc # "idle"
    /\ crashes < MaxCrashes /\ crashes' = crashes + 1
    /\ core' = [core EXCEPT !.pc = "down"]
    /\ apply' = [b \in Applies |-> IF apply[b].pc = "none" THEN apply[b]
                                   ELSE [apply[b] EXCEPT !.pc = "done"]]
    /\ updater' = [updater EXCEPT !.pc = "idle"]
    /\ accidents' = accidents
         \union (IF current = None THEN {"severed"} ELSE {})
         \union (IF \E a \in Applies : At(a, "chmod") \/ At(a, "mark") THEN {"unmarked"} ELSE {})
    /\ UNCHANGED <<os, files, staging, marker, proven, faults>>

ApplyStep(a) == Open(a) \/ Verified(a) \/ DropAnchor(a) \/ Anchor(a) \/ Install(a)
                \/ MakeExecutable(a) \/ Mark(a) \/ Exit(a)
Rollback == CopyAnchor \/ MoveAside \/ Restore \/ DropOld \/ RolledBack
Boot == CheckMarker \/ Dies \/ Healthy \/ CommitAnchor \/ CommitMarker

Next ==
    \/ \E a \in Applies, v \in Versions : Request(a, v)
    \/ \E a \in Applies : ApplyStep(a)
    \/ UpdaterAside \/ UpdaterInstall
    \/ Launch \/ Boot \/ Rollback \/ Crash

Spec == Init /\ [][Next]_vars
        /\ WF_vars(Launch) /\ WF_vars(Boot) /\ WF_vars(Rollback)
        /\ WF_vars(UpdaterAside \/ UpdaterInstall)

-----------------------------------------------------------------------------
(* Properties                                                              *)

TypeOK ==
    /\ {current, old, broken, copy} \subseteq Versions \union {None, Torn}
    /\ tmp \in [Versions -> SUBSET Applies]
    /\ staged \in [Versions -> Versions \union {None, Torn}]
    /\ marker.version \in Versions \union {None} /\ marker.attempts \in Nat
    /\ core.pc \in {"up", "down", "boot", "starting", "rollback", "aside", "restore", "drop",
                    "clear", "commit", "committed"}
    /\ core.version \in Versions /\ proven \subseteq Versions
    /\ \A a \in Applies : apply[a].version \in Versions \union {None}
    /\ updater.pc \in {"idle", "wait", "install"}

\* Somewhere on disk there is a binary that has reached the healthy checkpoint,
\* whatever fails and whenever the power does.
KeepsGoodBinary == proven \intersect {current, old, copy} # {}

\* The same, unless two requests overlapped, a request swapped over a binary that
\* an earlier one of the same process had put there, a partial copy became the
\* anchor, or Windows could neither install the new file nor put the old one back.
KeepsGoodBinaryOtherwise ==
    accidents \intersect {"overlap", "reapplied", "tornAnchor", "notRestored"} = {}
        => KeepsGoodBinary

\* There is something to launch, except inside a swap that moves the file
\* aside; unless the power failed inside one, a rollback or a Windows swap could
\* not put the file back, or two requests wrote one download.
Bootable ==
    \/ current \in Versions
    \/ core.pc = "restore" \/ updater.pc = "install"
    \/ \E a \in Applies : apply[a].pc = "install"
    \/ accidents \intersect {"severed", "gaveUp", "notRestored", "overlap",
                             "tornAnchor"} # {}

\* A version that has never reached the checkpoint boots only under a marker
\* that names it, with a proven binary beside it to go back to.
UnprovenIsGuarded ==
    /\ TypeOK
    /\ core.pc \in {"boot", "starting", "rollback"} /\ core.version \notin proven
        => \/ marker.version = core.version /\ old \in proven
           \/ accidents # {}

\* A boot that was interrupted is not a failed binary: a version that works is
\* put aside only after MAX_BOOT_ATTEMPTS boots of it were cut short.
RollbackJustified ==
    [][broken' # broken /\ broken' # None /\ core.version \notin Broken
         => crashes >= MaxBootAttempts]_vars

\* A broken version that boots ends in a good one serving again, unless one of
\* the accidents came in between.
BrokenIsUndone ==
    (core.pc = "boot" /\ core.version \in Broken)
        ~> ((core.pc = "up" /\ core.version \in proven) \/ accidents # {})

=============================================================================
