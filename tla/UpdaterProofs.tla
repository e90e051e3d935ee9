---------------------------- MODULE UpdaterProofs ----------------------------
(***************************************************************************)
(* Proofs about Updater, for every set of versions and of requests and for *)
(* any number of faults and power failures: a binary that has reached the  *)
(* healthy checkpoint is kept, there is something to launch, an unproven   *)
(* version boots only under guard, and a working one is not rolled back    *)
(* before it was cut short often enough.                                   *)
(***************************************************************************)
EXTENDS Updater, TLAPS

Files == Versions \cup {None, Torn}

ApplyPcs == {"none", "cleared", "writing", "ready", "anchor", "install", "chmod", "mark",
             "defer", "restart", "restartDeferred", "done"}
CorePcs == {"up", "down", "boot", "starting", "rollback", "aside", "restore", "drop",
            "clear", "commit", "committed"}

Requests == [pc : ApplyPcs, version : Versions \cup {None}]

\* The types, in full.
Types ==
    /\ os \in {"unix", "windows"}
    /\ current \in Files /\ old \in Files /\ broken \in Files /\ copy \in Files
    /\ tmp \in [Versions -> SUBSET Applies]
    /\ staged \in [Versions -> Files]
    /\ marker \in [version : Versions \cup {None}, prev : Versions \cup {None},
                   attempts : Nat]
    /\ core \in [pc : CorePcs, version : Versions, src : {"copy", "old"}]
    /\ apply \in [Applies -> Requests]
    /\ updater \in [pc : {"idle", "wait", "install"}, version : Versions \cup {None}]
    /\ proven \subseteq Versions
    /\ accidents \subseteq {"overlap", "reapplied", "tornAnchor", "notRestored",
                            "unmarked", "gaveUp", "severed"}
    /\ faults \in Nat /\ crashes \in Nat

Active(a) == apply[a].pc \notin {"none", "done"}

\* Who may touch the files: a request only inside a serving core, the updater
\* only after core has gone.
Actors ==
    /\ \A a \in Applies : Active(a) => core.pc = "up" /\ apply[a].version \in Versions
    /\ updater.pc # "idle" => core.pc = "down" /\ updater.version \in Versions
    /\ "overlap" \notin accidents =>
         \A a, b \in Applies : Active(a) /\ Active(b) => a = b

\* A core that boots runs the file it was launched from; one that serves has
\* reached the checkpoint.
Launched ==
    /\ core.pc \in {"boot", "rollback", "aside", "commit"} => current = core.version
    /\ core.pc = "starting" => \/ marker = NoMarker
                               \/ marker.version = core.version /\ current = core.version
    /\ core.pc = "restore" => current = None
    /\ core.pc \in {"up", "commit", "committed"} => core.version \in proven

\* The attempts a marker counts, but for the boot under way, were cut short.
Counted ==
    /\ core.pc = "up" => marker.attempts = 0
    /\ marker.version \in Versions \ Broken =>
         /\ marker.attempts <= crashes + 1
         /\ core.pc \in {"down", "boot", "rollback", "aside", "restore", "drop", "clear"}
              => marker.attempts <= crashes
    /\ core.pc \in {"rollback", "aside"} /\ core.version \notin Broken
         => crashes >= MaxBootAttempts

\* Downloads that did not overlap hold what they should.
Downloaded ==
    "overlap" \notin accidents =>
        /\ \A a \in Applies : apply[a].pc = "writing" => tmp[apply[a].version] = {a}
        /\ \A v \in Versions : staged[v] \in {None, v}

Clean == accidents \cap {"overlap", "reapplied", "tornAnchor", "notRestored"} = {}

\* The running version's file is at <bin> or is the anchor, all through a swap;
\* an anchor is always a proven version, and a rollback starts from one.
Kept ==
    Clean =>
        /\ old \in proven \cup {None}
        /\ old \in proven \/ current \in proven
        /\ \A a \in Applies :
             /\ apply[a].pc \in {"anchor", "defer", "restartDeferred"}
                  => current = core.version
             /\ apply[a].pc \in {"install", "chmod", "mark", "restart"} => old \in proven
             /\ os = "windows" /\ apply[a].pc = "install" => old = core.version
        /\ updater.pc = "wait" => current \in proven
        /\ updater.pc = "install" => old \in proven
        /\ core.pc \in {"aside", "restore"} =>
             old \in proven /\ (core.src = "copy" => copy = old)
        /\ core.pc \in {"drop", "committed"} => current \in proven

\* Accidents that may leave nothing to launch.
Whole == accidents \cap {"severed", "gaveUp", "notRestored", "overlap", "tornAnchor"} = {}

\* What a swap or a rollback would put back at <bin> is a binary.
Complete ==
    Whole =>
        /\ current \in Versions \cup {None} /\ old \in Versions \cup {None}
        /\ current \in Versions \/ core.pc = "restore" \/ updater.pc = "install"
             \/ \E a \in Applies : apply[a].pc = "install"
        /\ \A a \in Applies : apply[a].pc = "install" =>
             old \in Versions /\ (os = "unix" => current \in Versions)
        /\ updater.pc = "install" => old \in Versions
        /\ core.pc \in {"aside", "restore"} =>
             (IF core.src = "copy" THEN copy ELSE old) \in Versions

\* An unproven version at <bin> is marked, with an anchor to go back to; but for
\* the moment between the swap and its marker.
Guarded ==
    accidents = {} =>
        /\ current \in Versions \ proven =>
             \/ marker.version = current /\ old \in proven
             \/ \E a \in Applies : apply[a].pc \in {"chmod", "mark"}
        /\ \A a \in Applies :
             /\ apply[a].pc \in {"restart", "restartDeferred"}
                  => marker.version = apply[a].version
             /\ apply[a].pc \in {"chmod", "mark", "restart"} => current = apply[a].version
             /\ os = "unix" /\ apply[a].pc = "install" => current = core.version
        /\ updater.pc \in {"wait", "install"} => marker.version = updater.version
        /\ core.pc = "starting" => current = core.version
        /\ core.pc = "clear" => current \in proven

IInv == /\ Types /\ Actors /\ Launched /\ Counted /\ Downloaded
        /\ Kept /\ Complete /\ Guarded

-----------------------------------------------------------------------------
(* Lemmas                                                                  *)

\* A request that moves on moves alone and keeps its version.
LEMMA ToMoves ==
    ASSUME apply \in [Applies -> Requests], NEW a \in Applies, NEW pc \in ApplyPcs, To(a, pc)
    PROVE  /\ apply' \in [Applies -> Requests]
           /\ apply'[a].pc = pc /\ apply'[a].version = apply[a].version
           /\ \A b \in Applies \ {a} : apply'[b] = apply[b]
  BY DEF To, Requests

\* A rollback that finds an anchor goes on; one that finds none drops the marker.
LEMMA CopyAnchorEffect ==
    ASSUME Types, CopyAnchor
    PROVE  /\ core.pc = "rollback" /\ core'.version = core.version
           /\ \/ core'.pc = "starting" /\ marker' = NoMarker
              \/ core'.pc = "aside" /\ marker' = marker
           /\ UNCHANGED <<current, old, apply, updater, proven, crashes>>
  <1>1. core \in [pc : CorePcs, version : Versions, src : {"copy", "old"}]
    BY DEF Types
  <1>2. \/ core' = [core EXCEPT !.pc = "starting"] /\ marker' = NoMarker
        \/ /\ marker' = marker
           /\ \E s \in {"copy", "old"} : core' = [core EXCEPT !.pc = "aside", !.src = s]
    BY Zenon DEF CopyAnchor
  <1>3. core.pc = "rollback" /\ UNCHANGED <<current, old, apply, updater, proven, crashes>>
    BY Zenon DEF CopyAnchor
  <1>4. /\ core'.version = core.version
        /\ \/ core'.pc = "starting" /\ marker' = NoMarker
           \/ core'.pc = "aside" /\ marker' = marker
    <2>1. CASE core' = [core EXCEPT !.pc = "starting"] /\ marker' = NoMarker
      BY <1>1, <2>1
    <2>2. ASSUME NEW s, core' = [core EXCEPT !.pc = "aside", !.src = s], marker' = marker
          PROVE  core'.version = core.version /\ core'.pc = "aside"
      BY <1>1, <2>2
    <2>3. QED  BY <1>2, <2>1, <2>2, Zenon
  <1>5. QED  BY <1>3, <1>4, Zenon

\* A crash ends every process, moves no file, and records what it cut short.
LEMMA CrashEffect ==
    ASSUME Types, Crash
    PROVE  /\ core'.pc = "down" /\ updater'.pc = "idle"
           /\ \A b \in Applies : apply'[b].pc \in {"none", "done"}
           /\ accidents \subseteq accidents'
           /\ current = None => "severed" \in accidents'
           /\ (\E b \in Applies : At(b, "chmod") \/ At(b, "mark")) => "unmarked" \in accidents'
           /\ UNCHANGED <<os, current, old, copy, marker, proven>>
  <1>1. /\ core \in [pc : CorePcs, version : Versions, src : {"copy", "old"}]
        /\ updater \in [pc : {"idle", "wait", "install"}, version : Versions \cup {None}]
        /\ apply \in [Applies -> Requests]
    BY DEF Types
  <1>2. core'.pc = "down" /\ updater'.pc = "idle"
    BY <1>1 DEF Crash
  <1>3. \A b \in Applies : apply'[b].pc \in {"none", "done"}
    BY <1>1 DEF Crash, Requests
  <1>4. UNCHANGED <<os, current, old, copy, marker, proven>>
    BY DEF Crash, files
  <1>5. /\ accidents \subseteq accidents'
        /\ current = None => "severed" \in accidents'
        /\ (\E b \in Applies : At(b, "chmod") \/ At(b, "mark")) => "unmarked" \in accidents'
    BY DEF Crash
  <1>6. QED  BY <1>2, <1>3, <1>4, <1>5

\* Every step keeps the types.
LEMMA TypesStep == IInv /\ [Next]_vars => Types'
  <1> SUFFICES ASSUME IInv, [Next]_vars PROVE Types'  OBVIOUS
  <1> USE UpdaterAssumption DEF IInv, Types, Requests, Actors, Active, Files, ApplyPcs, CorePcs
  <1>1. ASSUME NEW a \in Applies, NEW v \in Versions, Request(a, v) PROVE Types'
    <2>1. apply' \in [Applies -> Requests]
      BY <1>1 DEF Request
    <2>2. /\ tmp' \in [Versions -> SUBSET Applies]
          /\ staged' \in [Versions -> Files]
      BY <1>1 DEF Request
    <2>3. accidents' \in {accidents, accidents \cup {"overlap"}}
      BY <1>1 DEF Request, Mishap
    <2>4. UNCHANGED <<os, files, marker, core, updater, proven, faults, crashes>>
      BY <1>1 DEF Request
    <2>5. QED  BY <2>1, <2>2, <2>3, <2>4 DEF files
  <1>2. ASSUME NEW a \in Applies, Open(a) PROVE Types'
    BY <1>2 DEF Open, At, To, files, staging
  <1>3. ASSUME NEW a \in Applies, Verified(a) PROVE Types'
    <2>1. apply[a].version \in Versions /\ apply' \in [Applies -> Requests]
      BY <1>3, ToMoves DEF Verified, At
    <2>2. staged' \in [Versions -> Files] /\ tmp' \in [Versions -> SUBSET Applies]
      BY <1>3, <2>1 DEF Verified, staging, Files
    <2>3. faults' \in Nat
      BY <1>3 DEF Verified, Works
    <2>4. QED  BY <1>3, <2>1, <2>2, <2>3 DEF Verified, files
  <1>4. ASSUME NEW a \in Applies, DropAnchor(a) PROVE Types'
    BY <1>4 DEF DropAnchor, At, To, Works, Fails, Costs, Mishap, files, staging
  <1>5. ASSUME NEW a \in Applies, Anchor(a) PROVE Types'
    BY <1>5 DEF Anchor, At, To, Works, Fails, Costs, Mishap, files, staging
  <1>6. ASSUME NEW a \in Applies, Install(a) PROVE Types'
    <2>1. apply[a].version \in Versions /\ apply' \in [Applies -> Requests]
      BY <1>6, ToMoves DEF Install, At
    <2>2. staged' \in [Versions -> Files]
      BY <1>6, <2>1 DEF Install
    <2>3. /\ current' \in {current, old, None, staged[apply[a].version]}
          /\ old' \in {old, None}
      BY <1>6, Zenon DEF Install, TakeBack
    <2>4. /\ faults' \in Nat
          /\ UNCHANGED <<os, broken, copy, tmp, marker, core, updater, proven, crashes>>
      BY <1>6 DEF Install, TakeBack, Works, Costs
    <2>5. accidents' \in {accidents, accidents \cup {"notRestored"}}
      BY <1>6 DEF Install, TakeBack, Mishap
    <2>6. staged[apply[a].version] \in Files
      BY <2>1
    <2>7. current' \in Files /\ old' \in Files
      BY <2>3, <2>6
    <2>8. QED  BY <2>1, <2>2, <2>4, <2>5, <2>7
  <1>7. ASSUME NEW a \in Applies, Mark(a) PROVE Types'
    BY <1>7 DEF Mark, At, To, Works, Fails, Costs, Mishap, files, staging
  <1>8. ASSUME NEW a \in Applies, Exit(a) PROVE Types'
    BY <1>8 DEF Exit, At, To, Works, Fails, Costs, files, staging
  <1>9. CASE UpdaterAside  BY <1>9 DEF UpdaterAside, Works, Costs, files, staging
  <1>10. CASE UpdaterInstall
    BY <1>10 DEF UpdaterInstall, TakeBack, Works, Costs, Mishap, files, staging
  <1>11. CASE Launch  BY <1>11 DEF Launch, files, staging
  <1>12. CASE CheckMarker  BY <1>12 DEF CheckMarker, NoMarker, files, staging
  <1>13. CASE CopyAnchor
    <2>1. broken' \in Files /\ copy' \in Files
      BY <1>13 DEF CopyAnchor, Files
    <2>6. faults' \in Nat
      BY <1>13 DEF CopyAnchor, Works, Fails, Costs
    <2>2. core' \in [pc : CorePcs, version : Versions, src : {"copy", "old"}]
      <3>1. \/ core' = [core EXCEPT !.pc = "starting"]
            \/ \E s \in {"copy", "old"} : core' = [core EXCEPT !.pc = "aside", !.src = s]
        BY <1>13, Zenon DEF CopyAnchor
      <3>2. QED  BY <3>1
    <2>3. /\ marker' \in {marker, NoMarker}
          /\ accidents' \in {accidents, accidents \cup {"gaveUp"}}
      BY <1>13 DEF CopyAnchor, Mishap
    <2>4. UNCHANGED <<os, current, old, staging, apply, updater, proven, crashes>>
      BY <1>13 DEF CopyAnchor
    <2>5. QED  BY <2>1, <2>2, <2>3, <2>4, <2>6 DEF NoMarker, staging
  <1>14. CASE MoveAside
    BY <1>14 DEF MoveAside, Works, Fails, Costs, Mishap, NoMarker, files, staging
  <1>15. CASE Restore
    BY <1>15 DEF Restore, Works, Fails, Costs, Mishap, NoMarker, files, staging
  <1>16. CASE DropOld  BY <1>16 DEF DropOld, Works, Fails, Costs, files, staging
  <1>17. CASE RolledBack  BY <1>17 DEF RolledBack, NoMarker, files, staging
  <1>18. CASE Dies  BY <1>18 DEF Dies, files, staging
  <1>19. CASE Healthy  BY <1>19 DEF Healthy, files, staging
  <1>20. CASE CommitAnchor
    BY <1>20 DEF CommitAnchor, Works, Fails, Costs, files, staging
  <1>21. CASE CommitMarker  BY <1>21 DEF CommitMarker, NoMarker, files, staging
  <1>22. CASE Crash  BY <1>22 DEF Crash, At, files, staging
  <1>24. ASSUME NEW a \in Applies, MakeExecutable(a) PROVE Types'
    BY <1>24 DEF MakeExecutable, At, To, Works, Fails, Costs, Mishap, files, staging
  <1>23. CASE UNCHANGED vars  BY <1>23 DEF vars, files, staging
  <1>25. QED
    BY <1>1, <1>2, <1>3, <1>4, <1>5, <1>6, <1>7, <1>8, <1>9, <1>10, <1>11, <1>12, <1>13,
       <1>14, <1>15, <1>16, <1>17, <1>18, <1>19, <1>20, <1>21, <1>22, <1>23, <1>24 DEF Next,
       ApplyStep, Rollback, Boot

\* Every step leaves the files to one request at a time, or to an updater whose
\* core has gone; Request records the overlap when it does not.
LEMMA ActorsStep == IInv /\ [Next]_vars => Actors'
  <1> SUFFICES ASSUME IInv, [Next]_vars PROVE Actors'  OBVIOUS
  <1> USE UpdaterAssumption DEF IInv, Types, Requests, Actors, Active, ApplyPcs, CorePcs
  <1>1. ASSUME NEW a \in Applies, NEW v \in Versions, Request(a, v) PROVE Actors'
    BY <1>1 DEF Request, Mishap, files, staging
  <1>2. ASSUME NEW a \in Applies, Open(a) PROVE Actors'
    BY <1>2 DEF Open, At, To, files, staging
  <1>3. ASSUME NEW a \in Applies, Verified(a) PROVE Actors'
    BY <1>3 DEF Verified, At, To, Works, staging, files
  <1>4. ASSUME NEW a \in Applies, DropAnchor(a) PROVE Actors'
    BY <1>4 DEF DropAnchor, At, To, Works, Fails, Costs, Mishap, files, staging
  <1>5. ASSUME NEW a \in Applies, Anchor(a) PROVE Actors'
    BY <1>5 DEF Anchor, At, To, Works, Fails, Costs, Mishap, files, staging
  <1>6. ASSUME NEW a \in Applies, Install(a) PROVE Actors'
    BY <1>6 DEF Install, TakeBack, At, To, Works, Costs, Mishap, files, staging
  <1>7. ASSUME NEW a \in Applies, Mark(a) PROVE Actors'
    <2>1. /\ Active(a) /\ apply' \in [Applies -> Requests]
          /\ apply'[a].version = apply[a].version
          /\ \A b \in Applies \ {a} : apply'[b] = apply[b]
      BY <1>7, ToMoves DEF Mark, At
    <2>2. accidents' \in {accidents, accidents \cup {"unmarked"}}
      BY <1>7 DEF Mark, Mishap
    <2>3. UNCHANGED <<core, updater>>
      BY <1>7 DEF Mark
    <2>4. QED  BY <2>1, <2>2, <2>3
  <1>8. ASSUME NEW a \in Applies, Exit(a) PROVE Actors'
    BY <1>8 DEF Exit, At, To, Works, Fails, Costs, files, staging
  <1>9. CASE UpdaterAside  BY <1>9 DEF UpdaterAside, Works, Costs, files, staging
  <1>10. CASE UpdaterInstall
    BY <1>10 DEF UpdaterInstall, TakeBack, Works, Costs, Mishap, files, staging
  <1>11. CASE Launch  BY <1>11 DEF Launch, files, staging
  <1>12. CASE CheckMarker  BY <1>12 DEF CheckMarker, NoMarker, files, staging
  <1>13. CASE CopyAnchor
    BY <1>13 DEF CopyAnchor, Works, Fails, Costs, Mishap, NoMarker, files, staging
  <1>14. CASE MoveAside
    BY <1>14 DEF MoveAside, Works, Fails, Costs, Mishap, NoMarker, files, staging
  <1>15. CASE Restore
    BY <1>15 DEF Restore, Works, Fails, Costs, Mishap, NoMarker, files, staging
  <1>16. CASE DropOld  BY <1>16 DEF DropOld, Works, Fails, Costs, files, staging
  <1>17. CASE RolledBack  BY <1>17 DEF RolledBack, NoMarker, files, staging
  <1>18. CASE Dies  BY <1>18 DEF Dies, files, staging
  <1>19. CASE Healthy  BY <1>19 DEF Healthy, files, staging
  <1>20. CASE CommitAnchor
    BY <1>20 DEF CommitAnchor, Works, Fails, Costs, files, staging
  <1>21. CASE CommitMarker  BY <1>21 DEF CommitMarker, NoMarker, files, staging
  <1>22. CASE Crash  BY <1>22 DEF Crash, At, files, staging
  <1>24. ASSUME NEW a \in Applies, MakeExecutable(a) PROVE Actors'
    BY <1>24 DEF MakeExecutable, At, To, Works, Fails, Costs, Mishap, files, staging
  <1>23. CASE UNCHANGED vars  BY <1>23 DEF vars, files, staging
  <1>25. QED
    BY <1>1, <1>2, <1>3, <1>4, <1>5, <1>6, <1>7, <1>8, <1>9, <1>10, <1>11, <1>12, <1>13,
       <1>14, <1>15, <1>16, <1>17, <1>18, <1>19, <1>20, <1>21, <1>22, <1>23, <1>24 DEF Next,
       ApplyStep, Rollback, Boot

\* Every step leaves a booting core the file it was launched from.
LEMMA LaunchedStep == IInv /\ [Next]_vars => Launched'
  <1> SUFFICES ASSUME IInv, [Next]_vars PROVE Launched'  OBVIOUS
  <1> USE UpdaterAssumption DEF IInv, Types, Requests, Actors, Active, Launched, ApplyPcs, CorePcs
  <1>1. ASSUME NEW a \in Applies, NEW v \in Versions, Request(a, v) PROVE Launched'
    BY <1>1 DEF Request, Mishap, NoMarker, files, staging
  <1>2. ASSUME NEW a \in Applies, Open(a) PROVE Launched'
    BY <1>2 DEF Open, At, To, NoMarker, files, staging
  <1>3. ASSUME NEW a \in Applies, Verified(a) PROVE Launched'
    BY <1>3 DEF Verified, At, To, Works, staging, NoMarker, files
  <1>4. ASSUME NEW a \in Applies, DropAnchor(a) PROVE Launched'
    BY <1>4 DEF DropAnchor, At, To, Works, Fails, Costs, Mishap, NoMarker, files, staging
  <1>5. ASSUME NEW a \in Applies, Anchor(a) PROVE Launched'
    BY <1>5 DEF Anchor, At, To, Works, Fails, Costs, Mishap, NoMarker, files, staging
  <1>6. ASSUME NEW a \in Applies, Install(a) PROVE Launched'
    BY <1>6 DEF Install, TakeBack, At, To, Works, Costs, Mishap, NoMarker, files, staging
  <1>7. ASSUME NEW a \in Applies, Mark(a) PROVE Launched'
    BY <1>7 DEF Mark, At, To, Works, Fails, Costs, Mishap, NoMarker, files, staging
  <1>8. ASSUME NEW a \in Applies, Exit(a) PROVE Launched'
    BY <1>8 DEF Exit, At, To, Works, Fails, Costs, NoMarker, files, staging
  <1>9. CASE UpdaterAside
    BY <1>9 DEF UpdaterAside, Works, Costs, NoMarker, files, staging
  <1>10. CASE UpdaterInstall
    <2>1. updater.pc # "idle" /\ UNCHANGED <<core, marker, proven>>
      BY <1>10 DEF UpdaterInstall
    <2>2. core'.pc = "down"
      BY <2>1
    <2>3. QED  BY <2>2
  <1>11. CASE Launch  BY <1>11 DEF Launch, NoMarker, files, staging
  <1>12. CASE CheckMarker  BY <1>12 DEF CheckMarker, NoMarker, files, staging
  <1>13. CASE CopyAnchor
    BY <1>13, CopyAnchorEffect
  <1>14. CASE MoveAside
    BY <1>14 DEF MoveAside, Works, Fails, Costs, Mishap, NoMarker, files, staging
  <1>15. CASE Restore
    BY <1>15 DEF Restore, Works, Fails, Costs, Mishap, NoMarker, files, staging
  <1>16. CASE DropOld
    BY <1>16 DEF DropOld, Works, Fails, Costs, NoMarker, files, staging
  <1>17. CASE RolledBack  BY <1>17 DEF RolledBack, NoMarker, files, staging
  <1>18. CASE Dies  BY <1>18 DEF Dies, NoMarker, files, staging
  <1>19. CASE Healthy  BY <1>19 DEF Healthy, NoMarker, files, staging
  <1>20. CASE CommitAnchor
    BY <1>20 DEF CommitAnchor, Works, Fails, Costs, NoMarker, files, staging
  <1>21. CASE CommitMarker
    BY <1>21 DEF CommitMarker, NoMarker, files, staging
  <1>22. CASE Crash  BY <1>22 DEF Crash, At, NoMarker, files, staging
  <1>24. ASSUME NEW a \in Applies, MakeExecutable(a) PROVE Launched'
    BY <1>24 DEF MakeExecutable, At, To, Works, Fails, Costs, Mishap, files, staging,
       NoMarker
  <1>23. CASE UNCHANGED vars  BY <1>23 DEF vars, files, staging
  <1>25. QED
    BY <1>1, <1>2, <1>3, <1>4, <1>5, <1>6, <1>7, <1>8, <1>9, <1>10, <1>11, <1>12, <1>13,
       <1>14, <1>15, <1>16, <1>17, <1>18, <1>19, <1>20, <1>21, <1>22, <1>23, <1>24 DEF Next,
       ApplyStep, Rollback, Boot

\* Every step counts a boot before it is made, and only those cut short add up.
LEMMA CountedStep == IInv /\ [Next]_vars => Counted'
  <1> SUFFICES ASSUME IInv, [Next]_vars PROVE Counted'  OBVIOUS
  <1> USE UpdaterAssumption DEF IInv, Types, Requests, Actors, Active, Launched, Counted, ApplyPcs, CorePcs, NoMarker
  <1>1. ASSUME NEW a \in Applies, NEW v \in Versions, Request(a, v) PROVE Counted'
    BY <1>1 DEF Request, Mishap, files, staging
  <1>2. ASSUME NEW a \in Applies, Open(a) PROVE Counted'
    BY <1>2 DEF Open, At, To, files, staging
  <1>3. ASSUME NEW a \in Applies, Verified(a) PROVE Counted'
    BY <1>3 DEF Verified, At, To, Works, staging, files
  <1>4. ASSUME NEW a \in Applies, DropAnchor(a) PROVE Counted'
    BY <1>4 DEF DropAnchor, At, To, Works, Fails, Costs, Mishap, files, staging
  <1>5. ASSUME NEW a \in Applies, Anchor(a) PROVE Counted'
    BY <1>5 DEF Anchor, At, To, Works, Fails, Costs, Mishap, files, staging
  <1>6. ASSUME NEW a \in Applies, Install(a) PROVE Counted'
    BY <1>6 DEF Install, TakeBack, At, To, Works, Costs, Mishap, files, staging
  <1>7. ASSUME NEW a \in Applies, Mark(a) PROVE Counted'
    BY <1>7 DEF Mark, At, To, Works, Fails, Costs, Mishap, files, staging
  <1>8. ASSUME NEW a \in Applies, Exit(a) PROVE Counted'
    BY <1>8 DEF Exit, At, To, Works, Fails, Costs, files, staging
  <1>9. CASE UpdaterAside  BY <1>9 DEF UpdaterAside, Works, Costs, files, staging
  <1>10. CASE UpdaterInstall
    BY <1>10 DEF UpdaterInstall, TakeBack, Works, Costs, Mishap, files, staging
  <1>11. CASE Launch  BY <1>11 DEF Launch, files, staging
  <1>12. CASE CheckMarker  BY <1>12 DEF CheckMarker, NoMarker, files, staging
  <1>13. CASE CopyAnchor
    BY <1>13, CopyAnchorEffect
  <1>14. CASE MoveAside
    BY <1>14 DEF MoveAside, Works, Fails, Costs, Mishap, NoMarker, files, staging
  <1>15. CASE Restore
    BY <1>15 DEF Restore, Works, Fails, Costs, Mishap, NoMarker, files, staging
  <1>16. CASE DropOld  BY <1>16 DEF DropOld, Works, Fails, Costs, files, staging
  <1>17. CASE RolledBack  BY <1>17 DEF RolledBack, NoMarker, files, staging
  <1>18. CASE Dies  BY <1>18 DEF Dies, files, staging
  <1>19. CASE Healthy  BY <1>19 DEF Healthy, files, staging
  <1>20. CASE CommitAnchor
    BY <1>20 DEF CommitAnchor, Works, Fails, Costs, files, staging
  <1>21. CASE CommitMarker  BY <1>21 DEF CommitMarker, NoMarker, files, staging
  <1>22. CASE Crash  BY <1>22 DEF Crash, At, files, staging
  <1>24. ASSUME NEW a \in Applies, MakeExecutable(a) PROVE Counted'
    BY <1>24 DEF MakeExecutable, At, To, Works, Fails, Costs, Mishap, files, staging
  <1>23. CASE UNCHANGED vars  BY <1>23 DEF vars, files, staging
  <1>25. QED
    BY <1>1, <1>2, <1>3, <1>4, <1>5, <1>6, <1>7, <1>8, <1>9, <1>10, <1>11, <1>12, <1>13,
       <1>14, <1>15, <1>16, <1>17, <1>18, <1>19, <1>20, <1>21, <1>22, <1>23, <1>24 DEF Next,
       ApplyStep, Rollback, Boot

\* Every step keeps what a request staged apart from other downloads.
LEMMA DownloadedStep == IInv /\ [Next]_vars => Downloaded'
  <1> SUFFICES ASSUME IInv, [Next]_vars PROVE Downloaded'  OBVIOUS
  <1> USE UpdaterAssumption DEF IInv, Types, Requests, Actors, Active, Downloaded, ApplyPcs
  <1>1. ASSUME NEW a \in Applies, NEW v \in Versions, Request(a, v) PROVE Downloaded'
    BY <1>1 DEF Request, Mishap, files, staging
  <1>2. ASSUME NEW a \in Applies, Open(a) PROVE Downloaded'
    BY <1>2 DEF Open, At, To, files, staging
  <1>3. ASSUME NEW a \in Applies, Verified(a) PROVE Downloaded'
    BY <1>3 DEF Verified, At, To, Works, staging, files
  <1>4. ASSUME NEW a \in Applies, DropAnchor(a) PROVE Downloaded'
    BY <1>4 DEF DropAnchor, At, To, Works, Fails, Costs, Mishap, files, staging
  <1>5. ASSUME NEW a \in Applies, Anchor(a) PROVE Downloaded'
    BY <1>5 DEF Anchor, At, To, Works, Fails, Costs, Mishap, files, staging
  <1>6. ASSUME NEW a \in Applies, Install(a) PROVE Downloaded'
    BY <1>6 DEF Install, TakeBack, At, To, Works, Costs, Mishap, files, staging
  <1>7. ASSUME NEW a \in Applies, Mark(a) PROVE Downloaded'
    BY <1>7 DEF Mark, At, To, Works, Fails, Costs, Mishap, files, staging
  <1>8. ASSUME NEW a \in Applies, Exit(a) PROVE Downloaded'
    BY <1>8 DEF Exit, At, To, Works, Fails, Costs, files, staging
  <1>9. CASE UpdaterAside  BY <1>9 DEF UpdaterAside, Works, Costs, files, staging
  <1>10. CASE UpdaterInstall
    BY <1>10 DEF UpdaterInstall, TakeBack, Works, Costs, Mishap, files, staging
  <1>11. CASE Launch  BY <1>11 DEF Launch, files, staging
  <1>12. CASE CheckMarker  BY <1>12 DEF CheckMarker, NoMarker, files, staging
  <1>13. CASE CopyAnchor
    BY <1>13 DEF CopyAnchor, Works, Fails, Costs, Mishap, NoMarker, files, staging
  <1>14. CASE MoveAside
    BY <1>14 DEF MoveAside, Works, Fails, Costs, Mishap, NoMarker, files, staging
  <1>15. CASE Restore
    BY <1>15 DEF Restore, Works, Fails, Costs, Mishap, NoMarker, files, staging
  <1>16. CASE DropOld  BY <1>16 DEF DropOld, Works, Fails, Costs, files, staging
  <1>17. CASE RolledBack  BY <1>17 DEF RolledBack, NoMarker, files, staging
  <1>18. CASE Dies  BY <1>18 DEF Dies, files, staging
  <1>19. CASE Healthy  BY <1>19 DEF Healthy, files, staging
  <1>20. CASE CommitAnchor
    BY <1>20 DEF CommitAnchor, Works, Fails, Costs, files, staging
  <1>21. CASE CommitMarker  BY <1>21 DEF CommitMarker, NoMarker, files, staging
  <1>22. CASE Crash  BY <1>22 DEF Crash, At, files, staging
  <1>24. ASSUME NEW a \in Applies, MakeExecutable(a) PROVE Downloaded'
    BY <1>24 DEF MakeExecutable, At, To, Works, Fails, Costs, Mishap, files, staging
  <1>23. CASE UNCHANGED vars  BY <1>23 DEF vars, files, staging
  <1>25. QED
    BY <1>1, <1>2, <1>3, <1>4, <1>5, <1>6, <1>7, <1>8, <1>9, <1>10, <1>11, <1>12, <1>13,
       <1>14, <1>15, <1>16, <1>17, <1>18, <1>19, <1>20, <1>21, <1>22, <1>23, <1>24 DEF Next,
       ApplyStep, Rollback, Boot

\* Every step that overwrites the running file has a proven one beside it.
LEMMA KeptStep == IInv /\ [Next]_vars => Kept'
  <1> SUFFICES ASSUME IInv, [Next]_vars PROVE Kept'  OBVIOUS
  <1> USE UpdaterAssumption DEF IInv, Types, Requests, Actors, Active, Launched, Kept, Clean, ApplyPcs, CorePcs
  <1>1. ASSUME NEW a \in Applies, NEW v \in Versions, Request(a, v) PROVE Kept'
    BY <1>1 DEF Request, Mishap, files, staging
  <1>2. ASSUME NEW a \in Applies, Open(a) PROVE Kept'
    BY <1>2 DEF Open, At, To, files, staging
  <1>3. ASSUME NEW a \in Applies, Verified(a) PROVE Kept'
    BY <1>3 DEF Verified, At, To, Works, staging, files
  <1>4. ASSUME NEW a \in Applies, DropAnchor(a) PROVE Kept'
    <2> SUFFICES ASSUME Clean' PROVE Kept'
      BY DEF Kept
    <2>1. Clean /\ current = core.version
      BY <1>4 DEF DropAnchor, Mishap
    <2>2. /\ Active(a) /\ core.pc = "up" /\ updater.pc = "idle"
          /\ core.version \in proven
          /\ \A b \in Applies \ {a} : ~Active(b)
      BY <1>4, <2>1 DEF DropAnchor, At
    <2>3. /\ apply' \in [Applies -> Requests] /\ apply'[a].pc = "anchor"
          /\ \A b \in Applies \ {a} : apply'[b] = apply[b]
      BY <1>4, ToMoves DEF DropAnchor
    <2>4. old' \in {None, old} /\ UNCHANGED <<os, current, core, updater, proven>>
      BY <1>4 DEF DropAnchor
    <2>5. QED  BY <2>1, <2>2, <2>3, <2>4
  <1>5. ASSUME NEW a \in Applies, Anchor(a) PROVE Kept'
    <2> SUFFICES ASSUME Clean' PROVE Kept'
      BY DEF Kept
    <2>1. Clean
      BY <1>5 DEF Anchor, Mishap
    <2>2. /\ Active(a) /\ core.pc = "up" /\ updater.pc = "idle"
          /\ \A b \in Applies \ {a} : ~Active(b)
      BY <1>5, <2>1 DEF Anchor, At
    <2>3. current = core.version /\ core.version \in proven
      BY <1>5, <2>1, <2>2 DEF Anchor, At
    <2>4. /\ apply' \in [Applies -> Requests]
          /\ \A b \in Applies \ {a} : apply'[b] = apply[b]
      BY <1>5, ToMoves DEF Anchor
    <2>5. \/ apply'[a].pc = "install" /\ old' = core.version
          \/ os = "unix" /\ apply'[a].pc = "install" /\ old' = old /\ old # None
               /\ current' = current
          \/ apply'[a].pc = "done" /\ UNCHANGED <<current, old>>
          \/ apply'[a].pc = "defer" /\ UNCHANGED <<current, old>>
      BY <1>5, <2>1, <2>2, <2>3, ToMoves DEF Anchor, Mishap
    <2>6. UNCHANGED <<os, core, updater, proven>>
      BY <1>5 DEF Anchor
    <2>7. QED  BY <2>1, <2>2, <2>3, <2>4, <2>5, <2>6
  <1>6. ASSUME NEW a \in Applies, Install(a) PROVE Kept'
    <2> SUFFICES ASSUME Clean' PROVE Kept'
      BY DEF Kept
    <2>1. Clean
      BY <1>6 DEF Install, TakeBack, Mishap
    <2>2. /\ Active(a) /\ core.pc = "up" /\ updater.pc = "idle"
          /\ \A b \in Applies \ {a} : ~Active(b)
      BY <1>6, <2>1 DEF Install, At
    <2>3. old \in proven /\ (os = "windows" => old = core.version)
      BY <1>6, <2>1, <2>2 DEF Install, At
    <2>4. /\ apply' \in [Applies -> Requests]
          /\ \A b \in Applies \ {a} : apply'[b] = apply[b]
      BY <1>6, ToMoves DEF Install
    <2>5. \/ apply'[a].pc \in {"chmod", "mark"} /\ old' = old
          \/ apply'[a].pc = "done" /\ UNCHANGED <<current, old>>
          \/ apply'[a].pc = "defer" /\ os = "windows" /\ current' = old /\ old' = None
      BY <1>6, <2>1, <2>2, <2>3, ToMoves DEF Install, TakeBack, Mishap
    <2>6. UNCHANGED <<os, core, updater, proven>>
      BY <1>6 DEF Install
    <2>7. QED  BY <2>1, <2>2, <2>3, <2>4, <2>5, <2>6
  <1>7. ASSUME NEW a \in Applies, Mark(a) PROVE Kept'
    BY <1>7 DEF Mark, At, To, Works, Fails, Costs, Mishap, files, staging
  <1>8. ASSUME NEW a \in Applies, Exit(a) PROVE Kept'
    BY <1>8 DEF Exit, At, To, Works, Fails, Costs, files, staging
  <1>9. CASE UpdaterAside  BY <1>9 DEF UpdaterAside, Works, Costs, files, staging
  <1>10. CASE UpdaterInstall
    BY <1>10 DEF UpdaterInstall, TakeBack, Works, Costs, Mishap, files, staging
  <1>11. CASE Launch  BY <1>11 DEF Launch, files, staging
  <1>12. CASE CheckMarker  BY <1>12 DEF CheckMarker, NoMarker, files, staging
  <1>13. CASE CopyAnchor
    BY <1>13 DEF CopyAnchor, Works, Fails, Costs, Mishap, NoMarker, files, staging
  <1>14. CASE MoveAside
    BY <1>14 DEF MoveAside, Works, Fails, Costs, Mishap, NoMarker, files, staging
  <1>15. CASE Restore
    BY <1>15 DEF Restore, Works, Fails, Costs, Mishap, NoMarker, files, staging
  <1>16. CASE DropOld  BY <1>16 DEF DropOld, Works, Fails, Costs, files, staging
  <1>17. CASE RolledBack  BY <1>17 DEF RolledBack, NoMarker, files, staging
  <1>18. CASE Dies  BY <1>18 DEF Dies, files, staging
  <1>19. CASE Healthy  BY <1>19 DEF Healthy, files, staging
  <1>20. CASE CommitAnchor
    BY <1>20 DEF CommitAnchor, Works, Fails, Costs, files, staging
  <1>21. CASE CommitMarker  BY <1>21 DEF CommitMarker, NoMarker, files, staging
  <1>22. CASE Crash  BY <1>22 DEF Crash, At, files, staging
  <1>24. ASSUME NEW a \in Applies, MakeExecutable(a) PROVE Kept'
    BY <1>24 DEF MakeExecutable, At, To, Works, Fails, Costs, Mishap, files, staging
  <1>23. CASE UNCHANGED vars  BY <1>23 DEF vars, files, staging
  <1>25. QED
    BY <1>1, <1>2, <1>3, <1>4, <1>5, <1>6, <1>7, <1>8, <1>9, <1>10, <1>11, <1>12, <1>13,
       <1>14, <1>15, <1>16, <1>17, <1>18, <1>19, <1>20, <1>21, <1>22, <1>23, <1>24 DEF Next,
       ApplyStep, Rollback, Boot

\* Every step that takes the file away has a whole binary to put in its place.
LEMMA CompleteStep == IInv /\ [Next]_vars => Complete'
  <1> SUFFICES ASSUME IInv, [Next]_vars PROVE Complete'  OBVIOUS
  <1> USE UpdaterAssumption DEF IInv, Types, Requests, Actors, Active, Launched, Downloaded, Complete, Whole, ApplyPcs, CorePcs
  <1>1. ASSUME NEW a \in Applies, NEW v \in Versions, Request(a, v) PROVE Complete'
    BY <1>1 DEF Request, Mishap, files, staging
  <1>2. ASSUME NEW a \in Applies, Open(a) PROVE Complete'
    BY <1>2 DEF Open, At, To, files, staging
  <1>3. ASSUME NEW a \in Applies, Verified(a) PROVE Complete'
    BY <1>3 DEF Verified, At, To, Works, staging, files
  <1>4. ASSUME NEW a \in Applies, DropAnchor(a) PROVE Complete'
    BY <1>4 DEF DropAnchor, At, To, Works, Fails, Costs, Mishap, files, staging
  <1>5. ASSUME NEW a \in Applies, Anchor(a) PROVE Complete'
    <2> SUFFICES ASSUME Whole' PROVE Complete'
      BY DEF Complete
    <2>1. Whole
      BY <1>5 DEF Anchor, Mishap
    <2>2. /\ Active(a) /\ core.pc = "up" /\ updater.pc = "idle"
          /\ \A b \in Applies \ {a} : ~Active(b)
      BY <1>5, <2>1 DEF Anchor, At
    <2>3. current \in Versions
      BY <1>5, <2>1, <2>2 DEF Anchor, At
    <2>4. /\ apply' \in [Applies -> Requests]
          /\ \A b \in Applies \ {a} : apply'[b] = apply[b]
      BY <1>5, ToMoves DEF Anchor
    <2>5. \/ apply'[a].pc = "install" /\ old' = current /\ current' \in {current, None}
               /\ (os = "unix" => current' = current)
          \/ apply'[a].pc = "install" /\ UNCHANGED <<current, old>> /\ old # None
          \/ apply'[a].pc = "done" /\ UNCHANGED <<current, old>>
          \/ apply'[a].pc = "defer" /\ UNCHANGED <<current, old>>
      BY <1>5, <2>1, <2>2, <2>3, ToMoves DEF Anchor, Mishap
    <2>6. UNCHANGED <<os, core, updater, proven>>
      BY <1>5 DEF Anchor
    <2>7. QED  BY <2>1, <2>2, <2>3, <2>4, <2>5, <2>6
  <1>6. ASSUME NEW a \in Applies, Install(a) PROVE Complete'
    <2> SUFFICES ASSUME Whole' PROVE Complete'
      BY DEF Complete
    <2>1. Whole
      BY <1>6 DEF Install, TakeBack, Mishap
    <2>2. /\ Active(a) /\ core.pc = "up" /\ updater.pc = "idle"
          /\ \A b \in Applies \ {a} : ~Active(b)
      BY <1>6, <2>1 DEF Install, At
    <2>3. old \in Versions /\ (os = "unix" => current \in Versions)
      BY <1>6, <2>1, <2>2 DEF Install, At
    <2>4. /\ apply' \in [Applies -> Requests]
          /\ \A b \in Applies \ {a} : apply'[b] = apply[b]
      BY <1>6, ToMoves DEF Install
    <2>5. \/ /\ apply'[a].pc \in {"chmod", "mark"}
             /\ current' = apply[a].version /\ old' = old
          \/ os = "unix" /\ apply'[a].pc = "done" /\ UNCHANGED <<current, old>>
          \/ apply'[a].pc = "defer" /\ current' = old /\ old' = None
      BY <1>6, <2>1, <2>2, <2>3, ToMoves DEF Install, TakeBack, Mishap
    <2>6. UNCHANGED <<os, core, updater, proven>>
      BY <1>6 DEF Install
    <2>7. QED  BY <2>1, <2>2, <2>3, <2>4, <2>5, <2>6
  <1>7. ASSUME NEW a \in Applies, Mark(a) PROVE Complete'
    BY <1>7 DEF Mark, At, To, Works, Fails, Costs, Mishap, files, staging
  <1>8. ASSUME NEW a \in Applies, Exit(a) PROVE Complete'
    BY <1>8 DEF Exit, At, To, Works, Fails, Costs, files, staging
  <1>9. CASE UpdaterAside  BY <1>9 DEF UpdaterAside, Works, Costs, files, staging
  <1>10. CASE UpdaterInstall
    BY <1>10 DEF UpdaterInstall, TakeBack, Works, Costs, Mishap, files, staging
  <1>11. CASE Launch  BY <1>11 DEF Launch, files, staging
  <1>12. CASE CheckMarker  BY <1>12 DEF CheckMarker, NoMarker, files, staging
  <1>13. CASE CopyAnchor
    BY <1>13 DEF CopyAnchor, Works, Fails, Costs, Mishap, NoMarker, files, staging
  <1>14. CASE MoveAside
    BY <1>14 DEF MoveAside, Works, Fails, Costs, Mishap, NoMarker, files, staging
  <1>15. CASE Restore
    BY <1>15 DEF Restore, Works, Fails, Costs, Mishap, NoMarker, files, staging
  <1>16. CASE DropOld  BY <1>16 DEF DropOld, Works, Fails, Costs, files, staging
  <1>17. CASE RolledBack  BY <1>17 DEF RolledBack, NoMarker, files, staging
  <1>18. CASE Dies  BY <1>18 DEF Dies, files, staging
  <1>19. CASE Healthy  BY <1>19 DEF Healthy, files, staging
  <1>20. CASE CommitAnchor
    BY <1>20 DEF CommitAnchor, Works, Fails, Costs, files, staging
  <1>21. CASE CommitMarker  BY <1>21 DEF CommitMarker, NoMarker, files, staging
  <1>22. CASE Crash  BY <1>22, CrashEffect
  <1>24. ASSUME NEW a \in Applies, MakeExecutable(a) PROVE Complete'
    BY <1>24 DEF MakeExecutable, At, To, Works, Fails, Costs, Mishap, files, staging
  <1>23. CASE UNCHANGED vars  BY <1>23 DEF vars, files, staging
  <1>25. QED
    BY <1>1, <1>2, <1>3, <1>4, <1>5, <1>6, <1>7, <1>8, <1>9, <1>10, <1>11, <1>12, <1>13,
       <1>14, <1>15, <1>16, <1>17, <1>18, <1>19, <1>20, <1>21, <1>22, <1>23, <1>24 DEF Next,
       ApplyStep, Rollback, Boot

\* Every step leaves an unproven file under a marker, with a proven anchor.
LEMMA GuardedStep == IInv /\ [Next]_vars => Guarded'
  <1> SUFFICES ASSUME IInv, [Next]_vars PROVE Guarded'  OBVIOUS
  <1> USE UpdaterAssumption DEF IInv, Types, Requests, Actors, Active, Launched, Downloaded, Kept, Clean, Complete, Whole, Guarded, ApplyPcs, CorePcs
  <1>1. ASSUME NEW a \in Applies, NEW v \in Versions, Request(a, v) PROVE Guarded'
    BY <1>1 DEF Request, Mishap, files, staging
  <1>2. ASSUME NEW a \in Applies, Open(a) PROVE Guarded'
    BY <1>2 DEF Open, At, To, files, staging
  <1>3. ASSUME NEW a \in Applies, Verified(a) PROVE Guarded'
    BY <1>3 DEF Verified, At, To, Works, staging, files
  <1>4. ASSUME NEW a \in Applies, DropAnchor(a) PROVE Guarded'
    BY <1>4 DEF DropAnchor, At, To, Works, Fails, Costs, Mishap, files, staging
  <1>5. ASSUME NEW a \in Applies, Anchor(a) PROVE Guarded'
    BY <1>5 DEF Anchor, At, To, Works, Fails, Costs, Mishap, files, staging
  <1>6. ASSUME NEW a \in Applies, Install(a) PROVE Guarded'
    <2> SUFFICES ASSUME accidents' = {} PROVE Guarded'
      BY DEF Guarded
    <2>1. accidents = {}
      BY <1>6 DEF Install, TakeBack, Mishap
    <2>2. /\ Active(a) /\ core.pc = "up" /\ updater.pc = "idle"
          /\ apply[a].version \in Versions /\ core.version \in proven
          /\ \A b \in Applies \ {a} : ~Active(b)
      BY <1>6, <2>1 DEF Install, At
    <2>3. /\ old \in proven /\ (os = "windows" => old = core.version)
          /\ os = "unix" => current = core.version
      BY <1>6, <2>1, <2>2 DEF Install, At
    <2>4. /\ apply' \in [Applies -> Requests] /\ apply'[a].version = apply[a].version
          /\ \A b \in Applies \ {a} : apply'[b] = apply[b]
      BY <1>6, ToMoves DEF Install
    <2>5. \/ /\ apply'[a].pc \in {"chmod", "mark"}
             /\ current' = apply[a].version /\ old' = old
          \/ os = "unix" /\ apply'[a].pc = "done" /\ UNCHANGED <<current, old>>
          \/ apply'[a].pc = "defer" /\ current' = old /\ old' = None
      BY <1>6, <2>1, <2>2, <2>3, ToMoves DEF Install, TakeBack, Mishap
    <2>6. UNCHANGED <<os, core, marker, updater, proven>>
      BY <1>6 DEF Install
    <2>7. QED  BY <2>1, <2>2, <2>3, <2>4, <2>5, <2>6
  <1>7. ASSUME NEW a \in Applies, Mark(a) PROVE Guarded'
    <2> SUFFICES ASSUME accidents' = {} PROVE Guarded'
      BY DEF Guarded
    <2>1. accidents = {}
      BY <1>7 DEF Mark, Mishap
    <2>2. /\ Active(a) /\ core.pc = "up" /\ updater.pc = "idle"
          /\ apply[a].version \in Versions /\ core.version \in proven
          /\ \A b \in Applies \ {a} : ~Active(b)
      BY <1>7, <2>1 DEF Mark, At
    <2>3. /\ apply[a].pc = "mark" => current = apply[a].version /\ old \in proven
          /\ apply[a].pc = "defer" => current \in proven
      BY <2>1, <2>2
    <2>4. /\ apply' \in [Applies -> Requests] /\ apply'[a].version = apply[a].version
          /\ \A b \in Applies \ {a} : apply'[b] = apply[b]
      BY <1>7, ToMoves DEF Mark
    <2>5. \/ /\ apply[a].pc = "mark" /\ apply'[a].pc = "restart"
             /\ marker'.version = apply[a].version
          \/ /\ apply[a].pc = "defer" /\ apply'[a].pc = "restartDeferred"
             /\ marker'.version = apply[a].version
          \/ apply[a].pc = "defer" /\ apply'[a].pc = "done" /\ marker' = marker
      <3>1. PICK pc \in {"mark", "defer"} :
              /\ apply[a].pc = pc
              /\ \/ /\ marker'.version = apply[a].version
                    /\ To(a, IF pc = "mark" THEN "restart" ELSE "restartDeferred")
                 \/ To(a, "done") /\ marker' = marker /\ pc = "defer"
        BY <1>7, <2>1 DEF Mark, At, Mishap
      <3>2. QED  BY <3>1, ToMoves
    <2>6. UNCHANGED <<os, files, core, updater, proven>>
      BY <1>7 DEF Mark
    <2>7. QED  BY <2>1, <2>2, <2>3, <2>4, <2>5, <2>6 DEF files
  <1>8. ASSUME NEW a \in Applies, Exit(a) PROVE Guarded'
    BY <1>8 DEF Exit, At, To, Works, Fails, Costs, files, staging
  <1>9. CASE UpdaterAside  BY <1>9 DEF UpdaterAside, Works, Costs, files, staging
  <1>10. CASE UpdaterInstall
    BY <1>10 DEF UpdaterInstall, TakeBack, Works, Costs, Mishap, files, staging
  <1>11. CASE Launch  BY <1>11 DEF Launch, files, staging
  <1>12. CASE CheckMarker  BY <1>12 DEF CheckMarker, NoMarker, files, staging
  <1>13. CASE CopyAnchor
    BY <1>13 DEF CopyAnchor, Works, Fails, Costs, Mishap, NoMarker, files, staging
  <1>14. CASE MoveAside
    BY <1>14 DEF MoveAside, Works, Fails, Costs, Mishap, NoMarker, files, staging
  <1>15. CASE Restore
    BY <1>15 DEF Restore, Works, Fails, Costs, Mishap, NoMarker, files, staging
  <1>16. CASE DropOld  BY <1>16 DEF DropOld, Works, Fails, Costs, files, staging
  <1>17. CASE RolledBack  BY <1>17 DEF RolledBack, NoMarker, files, staging
  <1>18. CASE Dies  BY <1>18 DEF Dies, files, staging
  <1>19. CASE Healthy  BY <1>19 DEF Healthy, files, staging
  <1>20. CASE CommitAnchor
    <2>1. /\ core.pc = "commit" /\ core'.pc = "committed" /\ current \in proven
          /\ UNCHANGED <<os, current, marker, apply, updater, proven, accidents>>
      BY <1>20 DEF CommitAnchor
    <2>2. updater.pc = "idle" /\ \A a \in Applies : ~Active(a)
      BY <2>1
    <2>3. QED  BY <2>1, <2>2
  <1>21. CASE CommitMarker
    <2> SUFFICES ASSUME accidents' = {} PROVE Guarded'
      BY DEF Guarded
    <2>1. /\ core.pc = "committed" /\ core'.pc = "up" /\ accidents = {}
          /\ UNCHANGED <<os, current, old, apply, updater, proven, accidents>>
      BY <1>21 DEF CommitMarker, files
    <2>2. /\ current \in proven /\ updater.pc = "idle"
          /\ \A a \in Applies : ~Active(a)
      BY <2>1
    <2>3. QED  BY <2>1, <2>2
  <1>22. CASE Crash
    <2> SUFFICES ASSUME accidents' = {} PROVE Guarded'
      BY DEF Guarded
    <2>1. accidents = {} /\ ~ \E a \in Applies : At(a, "chmod") \/ At(a, "mark")
      BY <1>22, CrashEffect
    <2>2. ~ \E a \in Applies : apply[a].pc \in {"chmod", "mark"}
      BY <2>1 DEF At
    <2>3. QED  BY <1>22, <2>1, <2>2, CrashEffect
  <1>24. ASSUME NEW a \in Applies, MakeExecutable(a) PROVE Guarded'
    BY <1>24 DEF MakeExecutable, At, To, Works, Fails, Costs, Mishap, files, staging
  <1>23. CASE UNCHANGED vars  BY <1>23 DEF vars, files, staging
  <1>25. QED
    BY <1>1, <1>2, <1>3, <1>4, <1>5, <1>6, <1>7, <1>8, <1>9, <1>10, <1>11, <1>12, <1>13,
       <1>14, <1>15, <1>16, <1>17, <1>18, <1>19, <1>20, <1>21, <1>22, <1>23, <1>24 DEF Next,
       ApplyStep, Rollback, Boot

-----------------------------------------------------------------------------
(* Theorems                                                                *)

\* A fresh installation satisfies the invariant.
LEMMA InitIInv == Init => IInv
  <1> SUFFICES ASSUME Init PROVE IInv  OBVIOUS
  <1> USE UpdaterAssumption DEF Init, NoMarker, NoApply
  <1>1. Types  BY DEF Types, Requests, Files, ApplyPcs, CorePcs
  <1>2. Actors /\ Launched /\ Counted /\ Downloaded
    BY DEF Actors, Active, Launched, Counted, Downloaded
  <1>3. Kept /\ Complete /\ Guarded
    BY DEF Kept, Clean, Complete, Whole, Guarded
  <1>4. QED  BY <1>1, <1>2, <1>3 DEF IInv

\* The invariant holds throughout.
LEMMA Invariance == Spec => []IInv
  <1>1. IInv /\ [Next]_vars => IInv'
    BY TypesStep, ActorsStep, LaunchedStep, CountedStep, DownloadedStep, KeptStep,
       CompleteStep, GuardedStep DEF IInv
  <1>2. QED  BY <1>1, InitIInv, PTL DEF Spec

\* Whatever fails and whenever the power does, a binary that has reached the
\* healthy checkpoint is at <bin> or is the anchor, unless two requests
\* overlapped, one came over another's file, a partial copy became the anchor,
\* or Windows could not put the running file back.
THEOREM GoodBinaryKept == Spec => []KeepsGoodBinaryOtherwise
  <1>1. IInv => KeepsGoodBinaryOtherwise
    BY DEF IInv, Kept, Clean, KeepsGoodBinaryOtherwise, KeepsGoodBinary
  <1>2. QED  BY <1>1, Invariance, PTL

\* There is a binary to launch outside the moves that put one aside, but for
\* the accidents that Bootable names.
THEOREM AlwaysBootable == Spec => []Bootable
  <1>1. IInv => Bootable
    BY DEF IInv, Complete, Whole, Bootable
  <1>2. QED  BY <1>1, Invariance, PTL

\* A version that has not reached the checkpoint boots under a marker that names
\* it, with a proven anchor, as long as no accident came before; the state has
\* its types.
THEOREM UnprovenGuarded == Spec => []UnprovenIsGuarded
  <1>1. IInv => TypeOK
    BY DEF IInv, Types, Requests, Actors, Files, ApplyPcs, CorePcs, TypeOK
  <1>2. ASSUME IInv, accidents = {}, core.version \notin proven,
               core.pc \in {"boot", "starting", "rollback"}
        PROVE  marker.version = core.version /\ old \in proven
    <2>1. current = core.version
      BY <1>2 DEF IInv, Launched, Guarded
    <2>2. \A a \in Applies : apply[a].pc \notin {"chmod", "mark"}
      BY <1>2 DEF IInv, Actors, Active
    <2>3. QED  BY <1>2, <2>1, <2>2 DEF IInv, Types, Guarded
  <1>3. IInv => UnprovenIsGuarded
    BY <1>1, <1>2 DEF UnprovenIsGuarded
  <1>4. QED  BY <1>3, Invariance, PTL

\* A version that works is put aside only after MaxBootAttempts of its boots
\* were cut short: performRollback moves a file aside in MoveAside alone.
THEOREM RollbacksJustified == Spec => RollbackJustified
  <1>1. IInv /\ [Next]_vars =>
          (broken' # broken /\ broken' # None /\ core.version \notin Broken
             => crashes >= MaxBootAttempts)
    <2> SUFFICES ASSUME IInv, [Next]_vars, broken' # broken, broken' # None,
                        core.version \notin Broken
                 PROVE  crashes >= MaxBootAttempts
      OBVIOUS
    <2>1. core.pc = "aside"
      BY DEF Next, vars, files, Request, ApplyStep, Open, Verified, DropAnchor, Anchor,
         Install, TakeBack, MakeExecutable, Mark, Exit, UpdaterAside, UpdaterInstall, Launch, Rollback, CopyAnchor,
         MoveAside, Restore, DropOld, RolledBack, Boot, CheckMarker, Dies, Healthy,
         CommitAnchor, CommitMarker, Crash
    <2>2. QED  BY <2>1 DEF IInv, Counted
  <1>2. QED  BY <1>1, Invariance, PTL DEF Spec, RollbackJustified
=============================================================================
