----------------------------- MODULE LatestLink -----------------------------
(***************************************************************************)
(* The link runs/latest, which every run points at its own directory       *)
(* before it starts (updateLatestRunSymlink), when several runs start at   *)
(* once: Lstat, Remove and Symlink are three calls that nothing holds      *)
(* together.  `lab webrtc p2p` sets the link before it opens its event     *)
(* log, `lab scenario run` after.  A run has the id of its directory.      *)
(***************************************************************************)
EXTENDS Integers

CONSTANTS
    Runs,        \* the runs that start
    Earlier,     \* a run of the past, the link may point at it
    MaxFaults,   \* how many calls fail for a reason of their own
    MaxCrashes   \* how many runs may be killed

ASSUME LatestAssumption ==
    /\ Earlier \notin Runs
    /\ \A r \in Runs \cup {Earlier} : r \notin {"none", "directory"}
    /\ MaxFaults \in Nat /\ MaxCrashes \in Nat

VARIABLES
    latest,   \* what runs/latest is: nothing, a directory, or a link to a run
    dirs,     \* the runs that have a directory
    kind,     \* the command of each run
    step,     \* what each run does next, or how far it came
    faults, crashes,
    last,     \* history: the run whose Symlink succeeded last
    disturbed \* history: the runs whose update met a change by another run

vars == <<latest, dirs, kind, step, faults, crashes, last, disturbed>>

Linked == Runs \cup {Earlier}

\* Between Lstat and the end of updateLatestRunSymlink.
Updating == {"remove", "symlink"}

\* A run ends its preparations started, refused because of what it found at
\* the link, or failed because of another error.
Steps == {"mkdir", "open", "signal", "lstat"} \cup Updating
           \cup {"started", "refused", "failed", "killed"}

Init ==
    /\ latest \in {"none", "directory", Earlier}
    /\ dirs = {Earlier}
    /\ kind \in [Runs -> {"p2p", "scenario"}]
    /\ step = [r \in Runs |-> "mkdir"]
    /\ faults = MaxFaults
    /\ crashes = MaxCrashes
    /\ last = latest
    /\ disturbed = {}

-----------------------------------------------------------------------------

Goto(r, s) == step' = [step EXCEPT ![r] = s]

Fault(r) == faults > 0 /\ faults' = faults - 1 /\ Goto(r, "failed")

\* The step that the command has after the one it has done.
Following(r, s) ==
    LET p2p == kind[r] = "p2p"
    IN  CASE s = "mkdir"   -> IF p2p THEN "lstat" ELSE "open"
          [] s = "symlink" -> IF p2p THEN "open" ELSE "started"
          [] s = "open"    -> IF p2p THEN "started" ELSE "signal"
          [] s = "signal"  -> "lstat"

Advance(r) == Goto(r, Following(r, step[r]))

\* Mutant: nobody looks at the error.
MkdirUnchecked(r) ==
    /\ step[r] = "mkdir"
    /\ \/ dirs' = dirs \cup {r} /\ UNCHANGED faults
       \/ faults > 0 /\ faults' = faults - 1 /\ UNCHANGED dirs
    /\ Advance(r)
    /\ UNCHANGED <<latest, kind, crashes, last, disturbed>>

\* The directory of the run, with that of the signals or without.
Mkdir(r) ==
    /\ step[r] = "mkdir"
    /\ \/ dirs' = dirs \cup {r} /\ Advance(r) /\ UNCHANGED faults
       \/ Fault(r) /\ UNCHANGED dirs
    /\ UNCHANGED <<latest, kind, crashes, last, disturbed>>

\* The event log; in a scenario the directory of the signals after it.
Open(r) ==
    /\ step[r] \in {"open", "signal"}
    /\ \/ Advance(r) /\ UNCHANGED faults
       \/ Fault(r)
    /\ UNCHANGED <<latest, dirs, kind, crashes, last, disturbed>>

\* Mutant: a link is left for Symlink to replace.
LstatLeavesLink(r) ==
    /\ step[r] = "lstat"
    /\ Goto(r, IF latest = "directory" THEN "refused" ELSE "symlink")
    /\ UNCHANGED <<latest, dirs, kind, faults, crashes, last, disturbed>>

Lstat(r) ==
    /\ step[r] = "lstat"
    /\ \/ /\ CASE latest = "none"      -> Goto(r, "symlink")
               [] latest = "directory" -> Goto(r, "refused")
               [] OTHER                -> Goto(r, "remove")
          /\ UNCHANGED faults
       \/ Fault(r)
    /\ UNCHANGED <<latest, dirs, kind, crashes, last, disturbed>>

\* Mutant: the target is a path from where the command runs, not from the link.
RelinkByPath(r, l) ==
    /\ latest' = IF l = "none" THEN l ELSE "elsewhere"
    /\ disturbed' = disturbed \cup {q \in Runs \ {r} : step[q] \in Updating}

\* The link becomes l, under the eyes of the others that are updating it.
Relink(r, l) ==
    /\ latest' = l
    /\ disturbed' = disturbed \cup {q \in Runs \ {r} : step[q] \in Updating}

\* Removes the link that is there now, be it another one than Lstat has seen.
Remove(r) ==
    /\ step[r] = "remove"
    /\ \/ latest # "none" /\ Relink(r, "none") /\ Goto(r, "symlink") /\ UNCHANGED faults
       \/ latest = "none" /\ Goto(r, "refused") /\ UNCHANGED <<latest, faults, disturbed>>
       \/ Fault(r) /\ UNCHANGED <<latest, disturbed>>
    /\ UNCHANGED <<dirs, kind, crashes, last>>

\* Mutant: a run that cannot make the link removes what is in its way.
SymlinkClears(r) ==
    /\ step[r] = "symlink"
    /\ \/ /\ latest = "none" /\ Relink(r, r) /\ last' = r
          /\ Advance(r) /\ UNCHANGED faults
       \/ /\ latest # "none" /\ Relink(r, "none") /\ Goto(r, "refused")
          /\ UNCHANGED <<faults, last>>
    /\ UNCHANGED <<dirs, kind, crashes>>

Symlink(r) ==
    /\ step[r] = "symlink"
    /\ \/ /\ latest = "none" /\ Relink(r, r) /\ last' = r
          /\ Advance(r) /\ UNCHANGED faults
       \/ /\ latest # "none" /\ Goto(r, "refused")
          /\ UNCHANGED <<latest, faults, last, disturbed>>
       \/ Fault(r) /\ UNCHANGED <<latest, last, disturbed>>
    /\ UNCHANGED <<dirs, kind, crashes>>

Crash(r) ==
    /\ step[r] \notin {"started", "refused", "failed", "killed"}
    /\ crashes > 0 /\ crashes' = crashes - 1
    /\ Goto(r, "killed")
    /\ UNCHANGED <<latest, dirs, kind, faults, last, disturbed>>

Over ==
    /\ \A r \in Runs : step[r] \in {"started", "refused", "failed", "killed"}
    /\ UNCHANGED vars

Next ==
    \/ \E r \in Runs :
        Mkdir(r) \/ Open(r) \/ Lstat(r) \/ Remove(r) \/ Symlink(r) \/ Crash(r)
    \/ Over

Spec == Init /\ [][Next]_vars

-----------------------------------------------------------------------------
(* Correctness.                                                            *)

TypeOK ==
    /\ latest \in {"none", "directory"} \cup Linked
    /\ dirs \subseteq Linked
    /\ kind \in [Runs -> {"p2p", "scenario"}]
    /\ step \in [Runs -> Steps]
    /\ faults \in 0..MaxFaults /\ crashes \in 0..MaxCrashes
    /\ last \in {"none", "directory"} \cup Linked
    /\ disturbed \subseteq Runs

\* Whoever follows the link finds the directory of a run, at every moment and
\* whichever run fails: no run links before it has made its directory.
NeverDangles == latest \in Linked => latest \in dirs

\* A run is turned away at the link only if somebody else changed it in the
\* middle of the update, or if it is a directory: what a killed run has left,
\* a link removed and not made again, stops nobody.
RefusedOnlyIfDisturbed ==
    \A r \in Runs : step[r] = "refused" => latest = "directory" \/ r \in disturbed

\* When nobody is updating it the link shows the run that was the last to
\* succeed, and some run did if any was turned away: runs that start together
\* never refuse one another all, or remove a link and leave none.  Only one
\* that was killed or failed for a reason of its own may leave no link at all.
LinkOfLast ==
    (\A r \in Runs : step[r] \notin Updating) =>
        /\ latest \in {last, "none"}
        /\ faults + crashes = MaxFaults + MaxCrashes =>
            /\ latest = last
            /\ latest # "directory" /\ (\E r \in Runs : step[r] = "refused") => last \in Runs

=============================================================================
