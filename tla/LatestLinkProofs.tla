-------------------------- MODULE LatestLinkProofs --------------------------
(***************************************************************************)
(* Proofs about module LatestLink, for any set of runs and any number of   *)
(* faults and kills.                                                       *)
(***************************************************************************)
EXTENDS LatestLink, TLAPS

-----------------------------------------------------------------------------
(* The inductive invariant.                                                *)

\* A run that is past its first step, and goes on, has its directory.
DirectoryFirst ==
    /\ Earlier \in dirs
    /\ \A r \in Runs : step[r] \in {"open", "signal", "lstat"} \cup Updating => r \in dirs

\* What a run that updates the link has seen of it holds still, or somebody
\* has changed it under its eyes; a directory is never updated.
SeenOrDisturbed ==
    \A r \in Runs :
        /\ step[r] = "remove" => latest # "none" \/ r \in disturbed
        /\ step[r] = "symlink" => latest = "none" \/ r \in disturbed
        /\ step[r] \in Updating => latest # "directory"

\* The link is that of the last run, or removed.
OnlyLast == latest \in {last, "none"}

Undisturbed == faults = MaxFaults /\ crashes = MaxCrashes

SomebodyLinks == \E r \in Runs : step[r] = "symlink"

\* Whoever is to make a link has seen, or has left, no link, and who is to
\* remove one has seen one: a link that is there by now is that of a run.
LinksAreNew ==
    \A r \in Runs :
        /\ step[r] = "symlink" => latest \in Runs \cup {"none"}
        /\ step[r] = "remove" => last # "none"

\* While nothing has failed, a link that is missing is about to be made, and a
\* run that was turned away has lost against one that linked, or is about to.
SomebodySucceeds ==
    Undisturbed =>
        /\ latest = "none" => last = "none" \/ SomebodyLinks
        /\ latest # "directory" /\ (\E r \in Runs : step[r] = "refused")
              => last \in Runs \/ SomebodyLinks

LinkInv ==
    /\ TypeOK /\ DirectoryFirst /\ NeverDangles
    /\ SeenOrDisturbed /\ RefusedOnlyIfDisturbed
    /\ OnlyLast /\ LinksAreNew /\ SomebodySucceeds

-----------------------------------------------------------------------------
(* Each action keeps it.                                                   *)

\* Where a step can go; what p and q are makes no difference to it.
LEMMA FollowingType ==
    ASSUME TypeOK, NEW r \in Runs, step[r] \in {"mkdir", "open", "signal", "symlink"}
    PROVE  /\ Following(r, step[r]) \in Steps \ {"remove", "symlink", "refused"}
           /\ step[r] \in {"mkdir", "open", "signal"} =>
                 Following(r, step[r]) \in {"open", "signal", "lstat", "started"}
  BY DEF Following, TypeOK, Steps, Updating

LEMMA InitLink == Init => LinkInv
  BY LatestAssumption
  DEF Init, LinkInv, TypeOK, DirectoryFirst, NeverDangles, SeenOrDisturbed, RefusedOnlyIfDisturbed,
      OnlyLast, LinksAreNew, SomebodySucceeds, SomebodyLinks, Undisturbed, Linked, Updating, Steps

\* Every step keeps it; the names follow Next.
LEMMA LinkStep == LinkInv /\ [Next]_vars => LinkInv'
<1> SUFFICES ASSUME LinkInv, [Next]_vars PROVE LinkInv'
  OBVIOUS
<1> USE LatestAssumption, FollowingType
    DEF TypeOK, Steps, Updating, Linked, Goto, Fault, Advance, Relink
<1>0. /\ TypeOK /\ DirectoryFirst /\ NeverDangles
      /\ SeenOrDisturbed /\ RefusedOnlyIfDisturbed
      /\ OnlyLast /\ LinksAreNew /\ SomebodySucceeds
  BY DEF LinkInv
<1>1. ASSUME NEW r \in Runs, Mkdir(r) PROVE LinkInv'
  <2>1. TypeOK'
    BY <1>0, <1>1 DEF Mkdir
  <2>2. DirectoryFirst'
    BY <1>0, <1>1 DEF Mkdir, DirectoryFirst
  <2>3. NeverDangles'
    BY <1>0, <1>1 DEF Mkdir, NeverDangles
  <2>4. SeenOrDisturbed'
    BY <1>0, <1>1 DEF Mkdir, SeenOrDisturbed
  <2>5. RefusedOnlyIfDisturbed'
    BY <1>0, <1>1 DEF Mkdir, RefusedOnlyIfDisturbed
  <2>6. OnlyLast'
    BY <1>0, <1>1 DEF Mkdir, OnlyLast
  <2>7. LinksAreNew'
    BY <1>0, <1>1 DEF Mkdir, LinksAreNew
  <2>8. SomebodySucceeds'
    BY <1>0, <1>1 DEF Mkdir, SomebodySucceeds, SomebodyLinks, Undisturbed
  <2> QED
    BY <2>1, <2>2, <2>3, <2>4, <2>5, <2>6, <2>7, <2>8 DEF LinkInv
<1>2. ASSUME NEW r \in Runs, Open(r) PROVE LinkInv'
  <2>1. TypeOK'
    BY <1>0, <1>2 DEF Open
  <2>2. DirectoryFirst'
    BY <1>0, <1>2 DEF Open, DirectoryFirst
  <2>3. NeverDangles'
    BY <1>0, <1>2 DEF Open, NeverDangles
  <2>4. SeenOrDisturbed'
    BY <1>0, <1>2 DEF Open, SeenOrDisturbed
  <2>5. RefusedOnlyIfDisturbed'
    BY <1>0, <1>2 DEF Open, RefusedOnlyIfDisturbed
  <2>6. OnlyLast'
    BY <1>0, <1>2 DEF Open, OnlyLast
  <2>7. LinksAreNew'
    BY <1>0, <1>2 DEF Open, LinksAreNew
  <2>8. SomebodySucceeds'
    BY <1>0, <1>2 DEF Open, SomebodySucceeds, SomebodyLinks, Undisturbed
  <2> QED
    BY <2>1, <2>2, <2>3, <2>4, <2>5, <2>6, <2>7, <2>8 DEF LinkInv
<1>3. ASSUME NEW r \in Runs, Lstat(r) PROVE LinkInv'
  <2>1. TypeOK'
    BY <1>0, <1>3 DEF Lstat
  <2>2. DirectoryFirst'
    BY <1>0, <1>3 DEF Lstat, DirectoryFirst
  <2>3. NeverDangles'
    BY <1>0, <1>3 DEF Lstat, NeverDangles
  <2>4. SeenOrDisturbed'
    BY <1>0, <1>3 DEF Lstat, SeenOrDisturbed
  <2>5. RefusedOnlyIfDisturbed'
    BY <1>0, <1>3 DEF Lstat, RefusedOnlyIfDisturbed
  <2>6. OnlyLast'
    BY <1>0, <1>3 DEF Lstat, OnlyLast
  <2>7. LinksAreNew'
    BY <1>0, <1>3 DEF Lstat, OnlyLast, LinksAreNew
  <2>8. SomebodySucceeds'
    BY <1>0, <1>3 DEF Lstat, SeenOrDisturbed, SomebodySucceeds, SomebodyLinks, Undisturbed
  <2> QED
    BY <2>1, <2>2, <2>3, <2>4, <2>5, <2>6, <2>7, <2>8 DEF LinkInv
<1>4. ASSUME NEW r \in Runs, Remove(r) PROVE LinkInv'
  <2>1. TypeOK'
    BY <1>0, <1>4 DEF Remove
  <2>2. DirectoryFirst'
    BY <1>0, <1>4 DEF Remove, DirectoryFirst
  <2>3. NeverDangles'
    BY <1>0, <1>4 DEF Remove, NeverDangles
  <2>4. SeenOrDisturbed'
    BY <1>0, <1>4 DEF Remove, SeenOrDisturbed
  <2>5. RefusedOnlyIfDisturbed'
    BY <1>0, <1>4 DEF Remove, SeenOrDisturbed, RefusedOnlyIfDisturbed
  <2>6. OnlyLast'
    BY <1>0, <1>4 DEF Remove, OnlyLast
  <2>7. LinksAreNew'
    BY <1>0, <1>4 DEF Remove, LinksAreNew
  <2>8. SomebodySucceeds'
    BY <1>0, <1>4 DEF Remove, LinksAreNew, SomebodySucceeds, SomebodyLinks, Undisturbed
  <2> QED
    BY <2>1, <2>2, <2>3, <2>4, <2>5, <2>6, <2>7, <2>8 DEF LinkInv
<1>5. ASSUME NEW r \in Runs, Symlink(r) PROVE LinkInv'
  <2>1. TypeOK'
    BY <1>0, <1>5 DEF Symlink
  <2>2. DirectoryFirst'
    BY <1>0, <1>5 DEF Symlink, DirectoryFirst
  <2>3. NeverDangles'
    BY <1>0, <1>5 DEF Symlink, DirectoryFirst, NeverDangles
  <2>4. SeenOrDisturbed'
    BY <1>0, <1>5 DEF Symlink, SeenOrDisturbed
  <2>5. RefusedOnlyIfDisturbed'
    BY <1>0, <1>5 DEF Symlink, SeenOrDisturbed, RefusedOnlyIfDisturbed
  <2>6. OnlyLast'
    BY <1>0, <1>5 DEF Symlink, OnlyLast
  <2>7. LinksAreNew'
    BY <1>0, <1>5 DEF Symlink, OnlyLast, LinksAreNew
  <2>8. SomebodySucceeds'
    BY <1>0, <1>5 DEF Symlink, LinksAreNew, OnlyLast, SomebodySucceeds, SomebodyLinks, Undisturbed
  <2> QED
    BY <2>1, <2>2, <2>3, <2>4, <2>5, <2>6, <2>7, <2>8 DEF LinkInv
<1>6. ASSUME NEW r \in Runs, Crash(r) PROVE LinkInv'
  <2>1. TypeOK'
    BY <1>0, <1>6 DEF Crash
  <2>2. DirectoryFirst'
    BY <1>0, <1>6 DEF Crash, DirectoryFirst
  <2>3. NeverDangles'
    BY <1>0, <1>6 DEF Crash, NeverDangles
  <2>4. SeenOrDisturbed'
    BY <1>0, <1>6 DEF Crash, SeenOrDisturbed
  <2>5. RefusedOnlyIfDisturbed'
    BY <1>0, <1>6 DEF Crash, RefusedOnlyIfDisturbed
  <2>6. OnlyLast'
    BY <1>0, <1>6 DEF Crash, OnlyLast
  <2>7. LinksAreNew'
    BY <1>0, <1>6 DEF Crash, LinksAreNew
  <2>8. SomebodySucceeds'
    BY <1>0, <1>6 DEF Crash, SomebodySucceeds, SomebodyLinks, Undisturbed
  <2> QED
    BY <2>1, <2>2, <2>3, <2>4, <2>5, <2>6, <2>7, <2>8 DEF LinkInv
<1>7. CASE UNCHANGED vars
  BY <1>0, <1>7
  DEF vars, LinkInv, DirectoryFirst, NeverDangles, SeenOrDisturbed, RefusedOnlyIfDisturbed,
      OnlyLast, LinksAreNew, SomebodySucceeds, SomebodyLinks, Undisturbed
<1> QED
  BY <1>1, <1>2, <1>3, <1>4, <1>5, <1>6, <1>7 DEF Next, Over

LEMMA LinkInvariant == Spec => []LinkInv
  BY InitLink, LinkStep, PTL DEF Spec

-----------------------------------------------------------------------------
(* The properties.                                                         *)

\* Type correctness of every instance of LatestLink.
THEOREM LinkTypeCorrect == Spec => []TypeOK
<1>1. LinkInv => TypeOK
  BY DEF LinkInv
<1> QED
  BY <1>1, LinkInvariant, PTL

\* However many runs start at once, and whichever of them fail or are killed,
\* runs/latest never leads to a run that has no directory.
THEOREM NeverDanglesCorrect == Spec => []NeverDangles
<1>1. LinkInv => NeverDangles
  BY DEF LinkInv
<1> QED
  BY <1>1, LinkInvariant, PTL

\* A run that updates the link alone is never refused, whatever killed runs
\* have left there, unless what is there is a directory.
THEOREM RefusalIsExplained == Spec => []RefusedOnlyIfDisturbed
<1>1. LinkInv => RefusedOnlyIfDisturbed
  BY DEF LinkInv
<1> QED
  BY <1>1, LinkInvariant, PTL

\* Runs that update the link together leave the link of the one that was last,
\* and at least one of them gets through, unless one was killed or failed.
THEOREM LinkShowsLast == Spec => []LinkOfLast
<1>1. LinkInv => LinkOfLast
  <2> SUFFICES ASSUME LinkInv, \A r \in Runs : step[r] \notin Updating
               PROVE  /\ latest \in {last, "none"}
                      /\ faults + crashes = MaxFaults + MaxCrashes =>
                            /\ latest = last
                            /\ latest # "directory" /\ (\E r \in Runs : step[r] = "refused")
                                  => last \in Runs
    BY DEF LinkOfLast
  <2>1. latest \in {last, "none"}
    BY DEF LinkInv, OnlyLast
  <2>2. ~SomebodyLinks
    BY DEF SomebodyLinks, Updating
  <2>3. ASSUME faults + crashes = MaxFaults + MaxCrashes PROVE Undisturbed
    BY <2>3, LatestAssumption DEF LinkInv, TypeOK, Undisturbed
  <2> QED
    BY <2>1, <2>2, <2>3 DEF LinkInv, SomebodySucceeds
<1> QED
  BY <1>1, LinkInvariant, PTL

=============================================================================
