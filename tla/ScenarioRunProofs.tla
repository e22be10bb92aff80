------------------------- MODULE ScenarioRunProofs -------------------------
(***************************************************************************)
(* Proofs about module ScenarioRun, for any number of samples, faults and  *)
(* kills, any impairments and any other processes.                         *)
(*                                                                         *)
(* The first half is about the run and its peers, whatever its calls of    *)
(* apply and clear, and the others, do to the host: of a step of module Lab *)
(* it uses no more than that it fails, or leaves the number of faults alone. *)
(* The second half is about the lab of the run.  Of a step of Lab it uses  *)
(* that nobody builds (Less), and that a call for the node of the run fails, *)
(* goes on, or leaves on that node what it says (ImpairEffect).            *)
(***************************************************************************)
EXTENDS ScenarioRun, RunsProofs

-----------------------------------------------------------------------------
(* The inductive invariant.                                                *)

BeforePeers == {"validate", "namespaces", "prepare", "launch"}
Phased == {"apply", "impaired", "clear", "recovery", "skip", "cleanup", "cleaned", "wait"}
Ending == {"merge", "close"}

\* Where the run is tells where its peers are.
PeersOfRun ==
    /\ run \in BeforePeers => \A r \in Roles : stage[r] = "none"
    /\ run = "ready" => \A r \in Roles : stage[r] # "none"
    /\ ~runErr /\ run \in Phased \cup {"baseline"} => \A r \in Roles : stage[r] # "none"
    /\ run \in Ending \/ Returned => WaitedFor

\* What is merged are the final logs.
MergedInv ==
    /\ run \notin {"close"} \cup RunEnds => merged = NotMerged
    /\ merged.state = "whole" =>
        \A r \in Roles :
            /\ stage[r] \in Ended /\ stats[r].state = "whole"
            /\ merged.n[r] = stats[r].n

\* How many phases are over where the run is, and the place of each phase.
Expected(l) ==
    CASE l \in {"apply", "impaired"}                              -> 1
      [] l \in {"clear", "recovery", "skip"}                      -> 2
      [] l \in {"cleanup", "cleaned"}                             -> 3
      [] l \in {"wait", "merge", "close", "returned", "crashed"}  -> 4
      [] OTHER                                                    -> 0

Place(phase) ==
    CASE phase = "baseline" -> 1
      [] phase = "impaired" -> 2
      [] phase = "recovery" -> 3
      [] OTHER              -> 4

\* The phases are recorded in their order, and none before it is due.
OrderInv ==
    /\ Len(events) <= Expected(run)
    /\ \A k \in 1..Len(events) : Place(events[k][1]) <= Expected(run)
    /\ \A j, k \in 1..Len(events) : j < k => Place(events[j][1]) < Place(events[k][1])

\* Each phase that is over is recorded, or its record could not be written.
Settled(l) ==
    \A phase \in Phases :
        Place(phase) <= Expected(l) => Recorded(phase) \/ phase \in unwritten

\* Past the baseline, which is recorded, nothing else is missing.
MissingInv ==
    /\ run \in Phased \cup Ending => Recorded("baseline")
    /\ run \in Phased \cup Ending \/ Returned => Settled(run)

\* The k-th record of a run without an error.
Good(k) ==
    IF k = 1 THEN {<<"baseline", "ok">>}
    ELSE IF k = 2 THEN {<<"impaired", "ok">>}
    ELSE {"recovery", "cleanup"} \X {"cleared", "absent"}

\* What a run without an error has achieved where it is.
OutcomeInv ==
    ~runErr =>
        /\ run \notin {"abort", "skip"}
        /\ run # "crashed" => Len(events) = Expected(run)
        /\ \A k \in 1..Len(events) : events[k] \in Good(k)
        /\ run = "baseline" \/ Recorded("baseline") => BothConnected
        /\ run \in Ending \cup {"returned"} => \A r \in Roles : stage[r] = "ok"
        /\ run \in {"close", "returned"} => merged.state = "whole"

RunTypes ==
    /\ run \in RunLabels \cup RunEnds
    /\ runErr \in BOOLEAN
    /\ events \in Seq(Phases \X Statuses)
    /\ unwritten \subseteq Phases
    /\ merged.state \in {"none", "torn", "whole"}
    /\ merged.n \in [Roles -> 0..MaxSamples]

ScenarioInv ==
    /\ PeersInv /\ RunTypes
    /\ PeersOfRun /\ MergedInv /\ OrderInv /\ MissingInv /\ OutcomeInv

-----------------------------------------------------------------------------
(* It holds at first.                                                      *)

LEMMA ExpectedIs ==
    /\ \A l \in {"validate", "namespaces", "prepare", "launch", "ready", "baseline", "abort"} :
        Expected(l) = 0
    /\ \A l \in {"apply", "impaired"} : Expected(l) = 1
    /\ \A l \in {"clear", "recovery", "skip"} : Expected(l) = 2
    /\ \A l \in {"cleanup", "cleaned"} : Expected(l) = 3
    /\ \A l \in {"wait", "merge", "close", "returned", "crashed"} : Expected(l) = 4
  BY DEF Expected

LEMMA PlaceIs ==
    /\ Place("baseline") = 1 /\ Place("impaired") = 2
    /\ Place("recovery") = 3 /\ Place("cleanup") = 4
  BY DEF Place

LEMMA InitScenario == Init => ScenarioInv
<1> SUFFICES ASSUME Init PROVE ScenarioInv
  OBVIOUS
<1> USE PeersAssumption DEF Init, RunsInit
<1>1. PeersInv
  BY InitPeers
<1>2. RunTypes
  <2>1. NotMerged.state = "none" /\ NotMerged.n \in [Roles -> 0..MaxSamples]
    BY DEF NotMerged
  <2>2. <<>> \in Seq(Phases \X Statuses)
    OBVIOUS
  <2> QED
    BY <2>1, <2>2 DEF RunTypes, RunLabels
<1>3. PeersOfRun
  BY DEF PeersInit, PeersOfRun, Phased, Ending, Returned
<1>4. MergedInv
  BY DEF MergedInv, NotMerged
<1>5. OrderInv /\ MissingInv /\ OutcomeInv
  BY ExpectedIs DEF OrderInv, MissingInv, OutcomeInv, Phased, Ending, Returned, Recorded
<1> QED
  BY <1>1, <1>2, <1>3, <1>4, <1>5 DEF ScenarioInv

-----------------------------------------------------------------------------
(* Steps that are not the run's.                                           *)

\* A step of a peer, of the goroutine beside it, or of the network.
LEMMA PeersKeepScenario ==
    ASSUME ScenarioInv, NEW r \in Roles, Still,
           \/ PeerStep(r) \/ Timeout(r) \/ SdpUnreadable(r) \/ Hear(r) \/ Handshake
           \/ Spawn(r, TRUE) \/ Spawn(r, FALSE) \/ Kill(r) \/ Reap(r)
    PROVE  ScenarioInv'
<1> USE DEF ScenarioInv, Still, runVars
<1>1. PeersInv' /\ Onward
  BY PeerStepKeeps, OtherStepsKeep
<1>2. RunTypes'
  BY DEF RunTypes
<1>3. \A phase : Recorded(phase)' <=> Recorded(phase)
  BY DEF Recorded
<1>4. PeersOfRun'
  BY <1>1, <1>3 DEF PeersOfRun, Onward, WaitedFor, Returned
<1>5. MergedInv'
  BY <1>1 DEF MergedInv, Onward
<1>6. OrderInv'
  BY DEF OrderInv, Expected
<1>7. MissingInv'
  <2>1. Settled(run) => Settled(run)'
    BY <1>3 DEF Settled, Expected
  <2> QED
    BY <1>3, <2>1 DEF MissingInv, Returned
<1>8. OutcomeInv'
  <2>1. BothConnected => BothConnected'
    <3> HIDE DEF ScenarioInv, Still, runVars
    <3>1. \A q \in Roles : heard[q] \subseteq heard'[q] /\ heard'[q] \subseteq Callbacks
      BY <1>1 DEF Onward, PeersInv, PeersTypeOK
    <3> QED
      BY <3>1 DEF BothConnected
  <2>2. (\A q \in Roles : stage[q] = "ok") => \A q \in Roles : stage'[q] = "ok"
    BY <1>1 DEF Onward, Ended
  <2> QED
    BY <1>3, <2>1, <2>2 DEF OutcomeInv, Expected, Good
<1> QED
  BY <1>1, <1>2, <1>4, <1>5, <1>6, <1>7, <1>8

\* A step of an invocation of module Lab fails or not.
LEMMA LabFaults ==
    ASSUME NEW p, L!Step(p)
    PROVE  faults' = faults \/ Fault
<1> USE DEF L!Fault, Fault
<1>1. CASE L!CreateStep(p)
  <2>1. CASE \/ L!CreateLoad(p) \/ L!CreateBridgeExists(p) \/ L!CreateListNamespaces(p)
             \/ L!EnsureRule(p)
    BY <2>1 DEF L!CreateLoad, L!CreateBridgeExists, L!CreateListNamespaces, L!EnsureRule, L!Ask
  <2>2. CASE \/ L!AddBridge(p) \/ L!SetBridge(p) \/ L!EnableForward(p) \/ L!AddNetns(p)
             \/ L!AddVeth(p) \/ L!MoveVeth(p) \/ L!EnslavePeer(p) \/ L!RenameVeth(p)
             \/ L!PingBridge(p)
    BY <2>2 DEF L!AddBridge, L!SetBridge, L!EnableForward, L!AddNetns, L!AddVeth, L!MoveVeth,
                L!EnslavePeer, L!RenameVeth, L!PingBridge, L!Run
  <2>3. CASE L!ReadForward(p) \/ L!AddRule(p) \/ L!SaveState(p) \/ L!Rollback(p)
    BY <2>3 DEF L!ReadForward, L!AddRule, L!SaveState, L!Rollback
  <2> QED
    BY <1>1, <2>1, <2>2, <2>3 DEF L!CreateStep
<1>2. CASE L!DestroyStep(p)
  <2>1. CASE \/ L!DestroyBridgeExists(p) \/ L!FallbackBridgeExists(p) \/ L!CheckRule(p)
    BY <2>1 DEF L!DestroyBridgeExists, L!FallbackBridgeExists, L!CheckRule, L!Ask
  <2>2. CASE \/ L!DeleteNode(p) \/ L!DeletePeer(p) \/ L!BridgeDown(p) \/ L!DeleteBridge(p)
             \/ L!RestoreForward(p)
    BY <2>2 DEF L!DeleteNode, L!DeletePeer, L!BridgeDown, L!DeleteBridge, L!RestoreForward, L!Run
  <2>3. CASE L!DestroyLoad(p) \/ L!ListMembers(p) \/ L!DeleteRule(p) \/ L!DeleteStateFile(p)
    BY <2>3 DEF L!DestroyLoad, L!ListMembers, L!DeleteRule, L!DeleteStateFile
  <2> QED
    BY <1>2, <2>1, <2>2, <2>3 DEF L!DestroyStep
<1>3. CASE L!ImpairStep(p)
  BY <1>3 DEF L!ImpairStep, L!ImpairLoad, L!ImpairNamespace, L!ApplyNetem, L!ClearNetem, L!Ask,
              L!Run
<1> QED
  BY <1>1, <1>2, <1>3 DEF L!Step

-----------------------------------------------------------------------------
(* Steps of the run.                                                       *)

\* A step that starts no peer, records no phase, and merges no log.
LEMMA QuietKeeps ==
    ASSUME ScenarioInv, UNCHANGED <<OtherThanCancel, events, unwritten, merged>>,
           cancelled' \in BOOLEAN, late' \in BOOLEAN, runErr' \in BOOLEAN, runErr => runErr',
           faults' = faults \/ Fault,
           \/ run' = run /\ runErr' = runErr
           \/ /\ <<run, run'>> \in {<<"validate", "namespaces">>, <<"namespaces", "prepare">>,
                                    <<"prepare", "launch">>, <<"apply", "impaired">>,
                                    <<"clear", "recovery">>, <<"cleanup", "cleaned">>}
              /\ runErr' = runErr
           \/ run \in BeforePeers \ {"launch"} /\ run' = "returned" /\ runErr'
           \/ run \in {"launch", "ready"} /\ run' = "baseline" /\ runErr'
           \/ run = "ready" /\ run' = "baseline" /\ BothConnected
           \/ run = "abort" /\ run' = "returned"
           \/ run = "merge" /\ run' = "close" /\ runErr'
           \/ run = "close" /\ run' = "returned"
           \/ run \notin RunEnds /\ run' = "crashed"
    PROVE  ScenarioInv'
<1> USE DEF ScenarioInv, OtherThanCancel, BeforePeers, Phased, Ending, RunEnds, RunLabels
<1>0. /\ Len(events) \in Nat /\ events \in Seq(Phases \X Statuses)
      /\ faults \in 0..MaxFaults /\ faults' \in 0..MaxFaults /\ faults' <= faults
      /\ MaxFaults \in Nat
  BY PeersAssumption DEF RunTypes, PeersInv, PeersTypeOK, Fault
<1>1. PeersInv'
  BY PeersLeftAlone
<1>2. RunTypes'
  BY DEF RunTypes
<1>3. (\A phase : Recorded(phase)' <=> Recorded(phase)) /\ (BothConnected' <=> BothConnected)
  BY DEF Recorded, BothConnected
<1>4. Expected(run) = 0 => ~Recorded("baseline")
  BY <1>0 DEF OrderInv, Recorded
<1>5. PeersOfRun'
  BY <1>3, <1>4, ExpectedIs DEF PeersOfRun, Returned, WaitedFor, RunTypes
<1>6. MergedInv'
  BY DEF MergedInv, RunTypes
<1>7. Expected(run) \in 0..4 /\ Expected(run') \in 0..4 /\ Expected(run) <= Expected(run')
  BY ExpectedIs DEF RunTypes
<1>8. OrderInv'
  <2>1. \A k \in 1..Len(events) : Place(events[k][1]) \in 1..4
    BY DEF Place
  <2> QED
    BY <1>0, <1>7, <2>1 DEF OrderInv
<1>9. MissingInv'
  <2>1. Expected(run') = Expected(run) /\ Settled(run) => Settled(run)'
    BY <1>3 DEF Settled
  <2> QED
    BY <1>3, <1>4, <2>1, ExpectedIs DEF MissingInv, Returned, RunTypes
<1>10. OutcomeInv'
  BY <1>0, <1>3, ExpectedIs DEF OutcomeInv, Good, RunTypes
<1> QED
  BY <1>1, <1>2, <1>5, <1>6, <1>8, <1>9, <1>10

\* A phase is recorded, or cannot be.
Records(phase, status, ok, err) ==
    /\ unwritten' = IF events' = events THEN unwritten \cup {phase} ELSE unwritten
    /\ \/ /\ events' = Append(events, <<phase, status>>) /\ UNCHANGED faults
          /\ run' = ok /\ runErr' \in BOOLEAN /\ (runErr => runErr')
       \/ Fault /\ run' = err /\ runErr' = TRUE /\ UNCHANGED events
    /\ UNCHANGED <<OtherThanCancel, late, merged>> /\ cancelled' \in BOOLEAN

LEMMA PhaseKeeps ==
    ASSUME ScenarioInv, NEW phase \in Phases, NEW status \in Statuses,
           NEW ok \in Phased, NEW err \in Phased \cup {"abort"},
           Records(phase, status, ok, err),
           run \in (Phased \ {"wait"}) \cup {"baseline"},
           Place(phase) = Expected(run) + 1, Expected(ok) = Expected(run) + 1,
           phase = "baseline" <=> run = "baseline",
           IF run = "baseline" THEN err = "abort" ELSE err = ok,
           run' = ok /\ ~runErr' => ok # "skip" /\ <<phase, status>> \in Good(Expected(ok))
    PROVE  ScenarioInv'
<1> USE DEF ScenarioInv, Records, OtherThanCancel, Phased, Ending, RunEnds, RunLabels
<1>0. /\ Len(events) \in Nat /\ events \in Seq(Phases \X Statuses)
      /\ faults \in 0..MaxFaults /\ MaxFaults \in Nat /\ runErr \in BOOLEAN
      /\ UNCHANGED <<stage, heard, stats, reaped, late, merged>>
  BY PeersAssumption DEF RunTypes, PeersInv, PeersTypeOK
<1>1. PeersInv'
  <2>1. UNCHANGED OtherThanCancel /\ late' \in BOOLEAN
    BY <1>0 DEF PeersInv, PeersTypeOK
  <2>2. faults' = faults \/ Fault
    OBVIOUS
  <2> QED
    BY <2>1, <2>2, PeersLeftAlone
<1>settled. /\ \A other \in Phases :
                  Place(other) <= Expected(run) + 1 =>
                      other = phase \/ Recorded(other) \/ other \in unwritten
            /\ unwritten \subseteq unwritten' /\ unwritten' \subseteq Phases
  <2>1. /\ run # "baseline" => Settled(run)
        /\ run = "baseline" => Expected(run) = 0
    BY ExpectedIs DEF MissingInv
  <2>2. Expected(run) \in 0..4
    BY ExpectedIs
  <2>3. ASSUME NEW other \in Phases, Place(other) <= Expected(run) + 1, other # phase
        PROVE  Place(other) <= Expected(run) /\ run # "baseline"
    BY <2>1, <2>2, <2>3, PlaceIs DEF Phases
  <2> QED
    BY <2>1, <2>3 DEF Settled, RunTypes
<1>missing. run # "baseline" => Recorded("baseline")
  BY DEF MissingInv
<1>2. CASE /\ events' = Append(events, <<phase, status>>) /\ UNCHANGED faults
           /\ run' = ok /\ runErr' \in BOOLEAN /\ (runErr => runErr')
  <2>1. /\ events' \in Seq(Phases \X Statuses)
        /\ Len(events') = Len(events) + 1
        /\ events'[Len(events) + 1] = <<phase, status>>
        /\ \A k \in 1..Len(events) : events'[k] = events[k]
    BY <1>0, <1>2, EventsGrow
  <2>2. /\ run' = ok /\ runErr' \in BOOLEAN /\ (runErr => runErr')
        /\ Expected(run) \in 0..4 /\ Expected(run') = Expected(run) + 1
    BY <1>2, ExpectedIs
  <2>3. RunTypes'
    BY <1>0, <1>settled, <2>1, <2>2 DEF RunTypes
  <2>4. /\ Recorded("baseline")' <=> Recorded("baseline") \/ phase = "baseline"
        /\ BothConnected' <=> BothConnected
    <3>1. CASE phase = "baseline"
      <4>1. Len(events') \in 1..Len(events') /\ events'[Len(events')][1] = "baseline"
        BY <1>0, <2>1, <3>1
      <4> QED
        BY <1>0, <3>1, <4>1 DEF Recorded, BothConnected
    <3>2. CASE phase # "baseline"
      <4>1. Recorded("baseline")' => Recorded("baseline")
        BY <1>0, <1>2, <3>2, EventsGrow
      <4>2. ASSUME Recorded("baseline") PROVE Recorded("baseline")'
        <5>1. PICK k \in 1..Len(events) : events[k][1] = "baseline"
          BY <4>2 DEF Recorded
        <5>2. k \in 1..Len(events') /\ events'[k][1] = "baseline"
          BY <1>0, <2>1, <5>1
        <5> QED
          BY <5>2 DEF Recorded
      <4> QED
        BY <1>0, <3>2, <4>1, <4>2 DEF BothConnected
    <3> QED
      BY <3>1, <3>2
  <2>5. PeersOfRun'
    BY <1>0, <2>2 DEF PeersOfRun, Returned, BeforePeers
  <2>6. MergedInv'
    BY <1>0, <2>2 DEF MergedInv
  <2>7. OrderInv'
    <3>1. Len(events') <= Expected(run')
      BY <1>0, <2>1, <2>2 DEF OrderInv
    <3>2. ASSUME NEW k \in 1..Len(events')
          PROVE  Place(events'[k][1]) <= Expected(run')
      <4>1. CASE k = Len(events) + 1
        BY <2>1, <2>2, <4>1
      <4>2. CASE k \in 1..Len(events)
        <5>1. Place(events[k][1]) \in 1..4
          BY DEF Place
        <5>2. Place(events[k][1]) <= Expected(run)
          BY <4>2 DEF OrderInv
        <5> QED
          BY <2>1, <2>2, <4>2, <5>1, <5>2
      <4> QED
        BY <1>0, <2>1, <4>1, <4>2
    <3>3. ASSUME NEW j \in 1..Len(events'), NEW k \in 1..Len(events'), j < k
          PROVE  Place(events'[j][1]) < Place(events'[k][1])
      <4>1. j \in 1..Len(events) /\ events'[j] = events[j]
        BY <1>0, <2>1, <3>3
      <4>2. CASE k = Len(events) + 1
        <5>1. Place(events[j][1]) \in 1..4 /\ Place(events[j][1]) <= Expected(run)
          BY <4>1 DEF Place, OrderInv
        <5> QED
          BY <2>1, <2>2, <4>1, <4>2, <5>1
      <4>3. CASE k \in 1..Len(events)
        BY <2>1, <3>3, <4>1, <4>3 DEF OrderInv
      <4> QED
        BY <1>0, <2>1, <4>2, <4>3
    <3> QED
      BY <3>1, <3>2, <3>3 DEF OrderInv
  <2>8. MissingInv'
    <3>1. Recorded(phase)'
      <4>1. Len(events') \in 1..Len(events') /\ events'[Len(events')][1] = phase
        BY <1>0, <2>1
      <4> QED
        BY <4>1 DEF Recorded
    <3>2. ASSUME NEW other, Recorded(other) PROVE Recorded(other)'
      <4>1. PICK k \in 1..Len(events) : events[k][1] = other
        BY <3>2 DEF Recorded
      <4>2. k \in 1..Len(events') /\ events'[k][1] = other
        BY <1>0, <2>1, <4>1
      <4> QED
        BY <4>2 DEF Recorded
    <3>3. Settled(run)'
      BY <1>settled, <2>2, <3>1, <3>2 DEF Settled
    <3> QED
      BY <1>missing, <2>2, <2>4, <3>2, <3>3, ExpectedIs DEF MissingInv, Returned
  <2>9. OutcomeInv'
    <3> SUFFICES ASSUME ~runErr' PROVE OutcomeInv'
      BY DEF OutcomeInv
    <3>1. ~runErr /\ ok # "skip" /\ <<phase, status>> \in Good(Expected(ok))
      BY <1>0, <2>2
    <3>2. Len(events') = Expected(run')
      BY <1>0, <2>1, <2>2, <3>1 DEF OutcomeInv
    <3>3. ASSUME NEW k \in 1..Len(events') PROVE events'[k] \in Good(k)
      <4>1. CASE k = Len(events) + 1
        BY <2>1, <2>2, <3>1, <3>2, <4>1
      <4>2. CASE k \in 1..Len(events)
        BY <2>1, <3>1, <4>2 DEF OutcomeInv
      <4> QED
        BY <1>0, <2>1, <4>1, <4>2
    <3>4. Recorded("baseline")' => BothConnected'
      BY <2>4, <3>1 DEF OutcomeInv
    <3> QED
      BY <2>2, <3>1, <3>2, <3>3, <3>4 DEF OutcomeInv, Good
  <2> QED
    BY <1>1, <2>3, <2>5, <2>6, <2>7, <2>8, <2>9
<1>3. CASE Fault /\ run' = err /\ runErr' = TRUE /\ UNCHANGED events
  <2>1. run' = err /\ runErr' = TRUE /\ faults' = faults - 1 /\ faults > 0
    BY <1>0, <1>3 DEF Fault
  <2>2. /\ Expected(run) \in 0..4 /\ Expected(run') \in 0..4
        /\ run = "baseline" => Expected(run) = 0 /\ Expected(run') = 0
        /\ run # "baseline" => Expected(run') = Expected(run) + 1
    BY <2>1, ExpectedIs
  <2>3. RunTypes'
    BY <1>0, <1>settled, <1>3, <2>1 DEF RunTypes
  <2>4. \A other : Recorded(other)' <=> Recorded(other)
    BY <1>3 DEF Recorded
  <2>5. PeersOfRun' /\ MergedInv' /\ OutcomeInv'
    BY <1>0, <2>1 DEF PeersOfRun, MergedInv, OutcomeInv, Returned, BeforePeers
  <2>6. OrderInv'
    <3>1. \A k \in 1..Len(events) : Place(events[k][1]) \in 1..4
      BY DEF Place
    <3>2. Expected(run) <= Expected(run')
      BY <2>2
    <3> QED
      BY <1>0, <1>3, <2>2, <3>1, <3>2 DEF OrderInv
  <2>7. MissingInv'
    <3>1. phase \in unwritten'
      BY <1>3
    <3>2. run # "baseline" => Settled(run)'
      BY <1>settled, <2>2, <2>4, <3>1 DEF Settled
    <3>3. run = "baseline" => run' = "abort" /\ ~Recorded("baseline")'
      BY <1>0, <2>1, <2>2, <2>4 DEF OrderInv, Recorded
    <3> QED
      BY <1>missing, <2>1, <2>4, <3>2, <3>3 DEF MissingInv, Returned
  <2> QED
    BY <1>1, <2>3, <2>5, <2>6, <2>7
<1> QED
  BY <1>2, <1>3

\* The steps that QuietKeeps is about.
LEMMA QuietSteps ==
    ASSUME ScenarioInv, UNCHANGED unwritten,
           \/ Validate \/ ValidateNamespaces \/ CallStep \/ Abort \/ Apply \/ Clear \/ Cleanup
           \/ Prepare("launch") \/ Ready("baseline") \/ CloseEvents
           \/ ReadyTimeout("baseline") \/ MarkerUnreadable("baseline") \/ Crash
    PROVE  ScenarioInv'
<1> USE DEF At, To, ToWith, OtherThanCancel, peerVars, runVars, BeforePeers
<1>0. /\ cancelled \in BOOLEAN /\ late \in BOOLEAN /\ runErr \in BOOLEAN
      /\ \A f \in BOOLEAN : (runErr \/ f) \in BOOLEAN
  BY DEF ScenarioInv, RunTypes, PeersInv, PeersTypeOK
<1>1. CASE Validate
  <2>1. /\ run = "validate"
        /\ (run' = "namespaces" /\ runErr' = runErr) \/ (run' = "returned" /\ runErr' = TRUE)
        /\ UNCHANGED faults \/ Fault
        /\ UNCHANGED <<OtherThanCancel, cancelled, late, events, merged>>
    BY <1>0, <1>1 DEF Validate
  <2>2. CASE run' = "namespaces" /\ runErr' = runErr
    BY <1>0, <2>1, <2>2, QuietKeeps
  <2>3. CASE run' = "returned" /\ runErr' = TRUE
    BY <1>0, <2>1, <2>3, QuietKeeps
  <2> QED
    BY <2>1, <2>2, <2>3
<1>2. CASE ValidateNamespaces
  <2>1. /\ run = "namespaces"
        /\ (run' = "prepare" /\ runErr' = runErr) \/ (run' = "returned" /\ runErr' = TRUE)
        /\ UNCHANGED faults \/ Fault
        /\ UNCHANGED <<OtherThanCancel, cancelled, late, events, merged>>
    BY <1>0, <1>2 DEF ValidateNamespaces
  <2>2. CASE run' = "prepare" /\ runErr' = runErr
    BY <1>0, <2>1, <2>2, QuietKeeps
  <2>3. CASE run' = "returned" /\ runErr' = TRUE
    BY <1>0, <2>1, <2>3, QuietKeeps
  <2> QED
    BY <2>1, <2>2, <2>3
<1>3. CASE CallStep
  BY <1>0, <1>3, LabFaults, QuietKeeps DEF CallStep
<1>4. CASE Abort
  BY <1>0, <1>4, QuietKeeps DEF Abort
<1>5. CASE Apply \/ Clear \/ Cleanup
  <2>1. PICK op, flags, next :
          /\ Call(op, flags, next)
          /\ <<run, next>> \in {<<"apply", "impaired">>, <<"clear", "recovery">>,
                               <<"cleanup", "cleaned">>}
    BY <1>5 DEF Apply, Clear, Cleanup
  <2> QED
    BY <1>0, <2>1, QuietKeeps DEF Call, L!Start
<1>6. CASE Prepare("launch")
  BY <1>0, <1>6, QuietKeeps DEF Prepare
<1>7. CASE Ready("baseline")
  <2>1. BothConnected
    BY <1>7 DEF Ready, BothConnected, ScenarioInv, PeersInv, HeardInv
  <2> QED
    BY <1>0, <1>7, <2>1, QuietKeeps DEF Ready
<1>8. CASE ReadyTimeout("baseline") \/ MarkerUnreadable("baseline")
  BY <1>0, <1>8, QuietKeeps DEF ReadyTimeout, MarkerUnreadable, GiveUp
<1>9. CASE CloseEvents
  BY <1>0, <1>9, QuietKeeps DEF CloseEvents
<1>10. CASE Crash
  BY <1>0, <1>10, QuietKeeps DEF Crash, Alive
<1> QED
  BY <1>1, <1>2, <1>3, <1>4, <1>5, <1>6, <1>7, <1>8, <1>9, <1>10

\* The steps that PhaseKeeps is about.
LEMMA PhaseSteps ==
    ASSUME ScenarioInv, Baseline \/ Impaired \/ Recovery \/ Skip \/ Cleaned
    PROVE  ScenarioInv'
<1> USE DEF At, Called, Phased, Phases, Statuses
<1>0. /\ cancelled \in BOOLEAN /\ \A f \in BOOLEAN : (cancelled \/ f) \in BOOLEAN
      /\ runErr \in BOOLEAN /\ (run = "skip" => runErr)
  BY DEF ScenarioInv, RunTypes, PeersInv, PeersTypeOK, OutcomeInv
<1> USE ExpectedIs, PlaceIs
<1>1. CASE Baseline
  <2>1. run = "baseline" /\ Records("baseline", "ok", "apply", "abort")
    BY <1>0, <1>1 DEF Baseline, Phase, Record, Records, ToWith
  <2>2. <<"baseline", "ok">> \in Good(Expected("apply"))
    BY DEF Good
  <2> QED
    BY <2>1, <2>2, PhaseKeeps
<1>2. CASE Impaired
  <2>1. run = "impaired"
    BY <1>2 DEF Impaired
  <2>2. CASE result[Me] = "applied"
    <3>1. Records("impaired", "ok", "clear", "clear")
      BY <1>0, <1>2, <2>2 DEF Impaired, Phase, Record, Records, ToWith
    <3>2. <<"impaired", "ok">> \in Good(Expected("clear"))
      BY DEF Good
    <3> QED
      BY <2>1, <3>1, <3>2, PhaseKeeps
  <2>3. CASE result[Me] # "applied"
    <3>1. Records("impaired", "error", "skip", "skip") /\ runErr'
      BY <1>0, <1>2, <2>3 DEF Impaired, Phase, Record, Records, ToWith
    <3> QED
      BY <2>1, <3>1, PhaseKeeps
  <2> QED
    BY <2>2, <2>3
<1>3. CASE Recovery \/ Cleaned
  <2>1. PICK status \in {"cleared", "absent", "error"} : ClearStatus = status
    BY DEF ClearStatus
  <2>2. status # "error" => /\ <<"recovery", status>> \in Good(Expected("cleanup"))
                            /\ <<"cleanup", status>> \in Good(Expected("wait"))
    BY <2>1 DEF Good
  <2>3. status \in Statuses
    OBVIOUS
  <2>4. CASE Recovery
    <3>1. run = "recovery" /\ Records("recovery", status, "cleanup", "cleanup")
      BY <1>0, <2>1, <2>4 DEF Recovery, Phase, Record, Records, ToWith
    <3>2. status = "error" => runErr'
      BY <1>0, <2>1, <2>4 DEF Recovery, Phase, Record, ToWith
    <3> QED
      BY <2>2, <2>3, <3>1, <3>2, PhaseKeeps
  <2>5. CASE Cleaned
    <3>1. run = "cleaned" /\ Records("cleanup", status, "wait", "wait")
      BY <1>0, <2>1, <2>5 DEF Cleaned, Phase, Record, Records, ToWith
    <3>2. status = "error" => runErr'
      BY <1>0, <2>1, <2>5 DEF Cleaned, Phase, Record, ToWith
    <3> QED
      BY <2>2, <2>3, <3>1, <3>2, PhaseKeeps
  <2> QED
    BY <1>3, <2>4, <2>5
<1>4. CASE Skip
  <2>1. run = "skip" /\ Records("recovery", "skipped", "cleanup", "cleanup") /\ runErr'
    BY <1>0, <1>4 DEF Skip, Phase, Record, Records, ToWith
  <2> QED
    BY <2>1, PhaseKeeps
<1> QED
  BY <1>1, <1>2, <1>3, <1>4

LEMMA LaunchKeeps == ScenarioInv /\ Launch("ready", "baseline") /\ UNCHANGED unwritten => ScenarioInv'
<1> SUFFICES ASSUME ScenarioInv, Launch("ready", "baseline"), UNCHANGED unwritten PROVE ScenarioInv'
  OBVIOUS
<1> USE DEF ScenarioInv, At, To, ToWith, OtherThanCancel, BeforePeers, Phased, Ending, RunEnds,
            RunLabels
<1>0. /\ Len(events) \in Nat /\ events \in Seq(Phases \X Statuses)
      /\ cancelled \in BOOLEAN /\ late \in BOOLEAN /\ runErr \in BOOLEAN
  BY DEF RunTypes, PeersInv, PeersTypeOK
<1>1. CASE Fault /\ ToWith("baseline", TRUE) /\ UNCHANGED stage
  BY <1>0, <1>1, QuietKeeps DEF Launch
<1>2. CASE stage' = [r \in Roles |-> "spawn"] /\ To("ready") /\ UNCHANGED faults
  <2>1. PeersInv'
    BY <1>2, LaunchKeepsPeers DEF Launch, PeersOfRun
  <2>2. run = "launch" /\ run' = "ready" /\ UNCHANGED <<runErr, stats, heard, events, merged>>
    BY <1>2 DEF Launch
  <2>3. ~Recorded("baseline") /\ ~Recorded("baseline")'
    BY <1>0, <2>2, ExpectedIs DEF OrderInv, Recorded
  <2>4. RunTypes' /\ PeersOfRun' /\ MergedInv'
    BY <1>2, <2>2, <2>3
    DEF RunTypes, PeersOfRun, MergedInv, NotMerged, Returned
  <2>5. OrderInv' /\ MissingInv' /\ OutcomeInv'
    BY <2>2, <2>3, ExpectedIs DEF OrderInv, MissingInv, OutcomeInv, Returned, Good
  <2> QED
    BY <2>1, <2>4, <2>5
<1> QED
  BY <1>1, <1>2 DEF Launch

LEMMA WaitKeeps == ScenarioInv /\ Wait /\ UNCHANGED unwritten => ScenarioInv'
<1> SUFFICES ASSUME ScenarioInv, Wait, UNCHANGED unwritten PROVE ScenarioInv'
  OBVIOUS
<1> USE DEF ScenarioInv, At, ToWith, OtherThanCancel, BeforePeers, Phased, Ending, RunEnds,
            RunLabels
<1>1. /\ run = "wait" /\ run' = "merge" /\ UNCHANGED <<OtherThanCancel, faults, events, merged>>
      /\ runErr' = (runErr \/ \E r \in Roles : reaped[r] = "error")
      /\ runErr \in BOOLEAN /\ late' \in BOOLEAN /\ cancelled' \in BOOLEAN
      /\ WaitedFor /\ WaitedFor'
  BY DEF Wait, WaitedFor, RunTypes, PeersInv, PeersTypeOK
<1>2. PeersInv'
  BY <1>1, PeersLeftAlone
<1>3. RunTypes' /\ PeersOfRun' /\ MergedInv'
  BY <1>1 DEF RunTypes, PeersOfRun, MergedInv, Returned
<1>4. (\A phase : Recorded(phase)' <=> Recorded(phase)) /\ (BothConnected' <=> BothConnected)
  BY <1>1 DEF Recorded, BothConnected
<1>5. OrderInv' /\ MissingInv'
  BY <1>1, <1>4, ExpectedIs DEF OrderInv, MissingInv, Settled, Returned
<1>6. OutcomeInv'
  <2>1. ~runErr' => \A r \in Roles : stage[r] = "ok"
    BY <1>1 DEF WaitedFor, PeersOfRun, PeersInv, PeersTypeOK, ReapInv
  <2> QED
    BY <1>1, <1>4, <2>1, ExpectedIs DEF OutcomeInv, Good
<1> QED
  BY <1>2, <1>3, <1>5, <1>6

LEMMA MergeKeeps == ScenarioInv /\ Merge("close") /\ UNCHANGED unwritten => ScenarioInv'
<1> SUFFICES ASSUME ScenarioInv, Merge("close"), UNCHANGED unwritten PROVE ScenarioInv'
  OBVIOUS
<1> USE DEF ScenarioInv, At, To, ToWith, OtherThanCancel, BeforePeers, Phased, Ending, RunEnds,
            RunLabels
<1>0. /\ run = "merge" /\ run' = "close" /\ merged = NotMerged
      /\ UNCHANGED <<OtherThanCancel, cancelled, late, events>>
      /\ cancelled \in BOOLEAN /\ late \in BOOLEAN /\ runErr \in BOOLEAN
      /\ faults \in 0..MaxFaults /\ MaxFaults \in Nat
      /\ Len(events) \in Nat
  BY PeersAssumption DEF Merge, MergedInv, RunTypes, PeersInv, PeersTypeOK
<1>1. CASE runErr' = TRUE /\ (UNCHANGED faults \/ Fault) /\ UNCHANGED merged
  BY <1>0, <1>1, QuietKeeps
<1>2. CASE \/ /\ merged' = [state |-> "whole", n |-> [r \in Roles |-> stats[r].n]]
              /\ \A r \in Roles : stats[r].state = "whole"
              /\ UNCHANGED <<runErr, faults>>
           \/ Fault /\ merged' = [NotMerged EXCEPT !.state = "torn"] /\ runErr' = TRUE
  <2>1. /\ faults' <= faults /\ faults' \in 0..MaxFaults
        /\ runErr' \in BOOLEAN /\ (runErr => runErr')
    <3>1. (faults' = faults \/ Fault) /\ (runErr' = runErr \/ runErr' = TRUE)
      BY <1>2
    <3>2. faults' <= faults /\ faults' \in 0..MaxFaults
      BY <1>0, <3>1 DEF Fault
    <3>3. runErr' \in BOOLEAN /\ (runErr => runErr')
      <4>1. runErr \in BOOLEAN
        BY <1>0
      <4>2. CASE runErr' = runErr
        BY <4>1, <4>2
      <4>3. CASE runErr' = TRUE
        BY <4>3
      <4> QED
        BY <3>1, <4>2, <4>3
    <3> QED
      BY <3>2, <3>3
  <2>2. PeersInv'
    <3>1. faults' = faults \/ Fault
      BY <1>2
    <3> QED
      BY <1>0, <3>1, PeersLeftAlone
  <2>3. merged'.state \in {"torn", "whole"} /\ merged'.n \in [Roles -> 0..MaxSamples]
    BY <1>2, PeersAssumption DEF NotMerged, PeersInv, PeersTypeOK, Logs
  <2>4. RunTypes'
    BY <1>0, <2>1, <2>3 DEF RunTypes
  <2>5. PeersOfRun'
    BY <1>0 DEF PeersOfRun, WaitedFor, Returned
  <2>6. MergedInv'
    <3>1. merged'.state = "whole" =>
            merged'.n = [r \in Roles |-> stats[r].n] /\ \A r \in Roles : stats[r].state = "whole"
      BY <1>2 DEF NotMerged
    <3>2. \A r \in Roles : stats[r].state = "whole" => stage[r] # "none"
      BY DEF PeersInv, LogInv, NoLog, Ended
    <3>3. \A r \in Roles : stage[r] # "none" => stage[r] \in Ended
      BY <1>0 DEF PeersOfRun, WaitedFor, PeersInv, ReapInv
    <3> QED
      BY <1>0, <3>1, <3>2, <3>3 DEF MergedInv
  <2>7. (\A phase : Recorded(phase)' <=> Recorded(phase)) /\ (BothConnected' <=> BothConnected)
    BY <1>0 DEF Recorded, BothConnected
  <2>8. OrderInv'
    BY <1>0, ExpectedIs DEF OrderInv
  <2>9. MissingInv'
    BY <1>0, <2>7, ExpectedIs DEF MissingInv, Settled, Returned
  <2>10. OutcomeInv'
    <3>1. ~runErr' => merged'.state = "whole"
      BY <1>2
    <3> QED
      BY <1>0, <2>1, <2>7, <3>1, ExpectedIs DEF OutcomeInv, Good
  <2> QED
    BY <2>2, <2>4, <2>5, <2>6, <2>8, <2>9, <2>10
<1> QED
  <2>1. ToWith("close", TRUE) => runErr' = TRUE
    BY <1>0
  <2>2. \/ UNCHANGED <<runErr, faults>>
        \/ runErr' = TRUE /\ (UNCHANGED faults \/ Fault)
    BY <2>1 DEF Merge
  <2> QED
    BY <1>1, <1>2, <2>1, <2>2 DEF Merge

-----------------------------------------------------------------------------
(* Every step keeps it.                                                    *)

LEMMA StepKeepsScenario == ScenarioInv /\ [Next]_vars => ScenarioInv'
<1> SUFFICES ASSUME ScenarioInv, [Next]_vars PROVE ScenarioInv'
  OBVIOUS
<1>0. cancelled \in BOOLEAN /\ late \in BOOLEAN /\ runErr \in BOOLEAN
  BY DEF ScenarioInv, RunTypes, PeersInv, PeersTypeOK
<1>1. CASE RunStep \/ Timer \/ Crash \/ (MarkerUnreadable("baseline") /\ OnlyRun)
  <2>1. CASE Baseline \/ Impaired \/ Recovery \/ Skip \/ Cleaned
    BY <2>1, PhaseSteps
  <2>2. CASE ~(Baseline \/ Impaired \/ Recovery \/ Skip \/ Cleaned)
    <3>1. UNCHANGED unwritten
      BY <1>1, <2>2 DEF RunStep, Timer, Crash, OnlyRun, Validate, ValidateNamespaces, CallStep,
         Abort, Apply, Clear, Cleanup, Call
    <3> QED
      BY <1>1, <2>2, <3>1, QuietSteps, LaunchKeeps, WaitKeeps, MergeKeeps DEF RunStep, Timer
  <2> QED
    BY <2>1, <2>2
<1>2. CASE Network
  BY <1>2, PeersKeepScenario DEF Network, Roles
<1>3. ASSUME NEW r \in Roles, PeerNext(r) \/ Supervise(r)
      PROVE  ScenarioInv'
  <2>1. Present(r) \in BOOLEAN
    BY DEF Present
  <2>2. Spawn(r, Present(r)) => Spawn(r, TRUE) \/ Spawn(r, FALSE)
    BY <2>1 DEF Spawn
  <2> QED
    BY <1>3, <2>2, PeersKeepScenario DEF PeerNext, PeerTimer, Supervise
<1>4. ASSUME UNCHANGED <<OtherThanCancel, cancelled, late, runVars, unwritten>>,
             faults' = faults \/ Fault
      PROVE  ScenarioInv'
  BY <1>0, <1>4, QuietKeeps DEF runVars
<1>5. CASE Drain
  BY <1>4, <1>5 DEF Drain, L!Drain
<1>6. ASSUME NEW p \in Others, Elsewhere(p)
      PROVE  ScenarioInv'
  <2>1. CASE L!Step(p)
    BY <1>4, <1>6, <2>1, LabFaults DEF Elsewhere
  <2>2. CASE L!StartApply(p) \/ L!StartClear(p) \/ L!StartDestroy(p)
    BY <1>4, <1>6, <2>2 DEF Elsewhere, L!StartApply, L!StartClear, L!StartDestroy, L!Start
  <2> QED
    BY <1>6, <2>1, <2>2 DEF Elsewhere
<1>7. CASE Over \/ UNCHANGED vars
  BY <1>4, <1>7 DEF Over, vars, peerVars, runVars, OtherThanCancel
<1> QED
  BY <1>1, <1>2, <1>3, <1>5, <1>6, <1>7 DEF Next

LEMMA ScenarioInvariant == Spec => []ScenarioInv
  BY InitScenario, StepKeepsScenario, PTL DEF Spec

\* A run that has recorded its baseline leaves no peer behind, whatever fails
\* and whoever takes the lab away meanwhile.
THEOREM ScenarioLeavesNoPeer == Spec => []NoPeerOutlivesRun
<1>1. ScenarioInv => NoPeerOutlivesRun
  BY DEF ScenarioInv, PeersInv, ReapInv, PeersOfRun, WaitedFor, NoPeerOutlivesRun
<1> QED
  BY <1>1, ScenarioInvariant, PTL

\* A run goes through all its phases in order once it has recorded the first,
\* whatever fails: a phase is missing only where its own record could not be
\* written.
THEOREM ScenarioAllPhases == Spec => []AllPhases
<1>1. ScenarioInv => AllPhases
  <2> SUFFICES ASSUME ScenarioInv PROVE AllPhases
    OBVIOUS
  <2> USE DEF ScenarioInv
  <2>1. Returned => \A phase \in Phases : Recorded(phase) \/ phase \in unwritten
    BY ExpectedIs, PlaceIs DEF MissingInv, Settled, Returned, Phases
  <2>2. ASSUME NEW j \in 1..Len(events), NEW k \in 1..Len(events), j < k
        PROVE  <<events[j][1], events[k][1]>> \in
                  {"baseline"} \X {"impaired", "recovery", "cleanup"}
                    \cup {"impaired"} \X {"recovery", "cleanup"}
                    \cup {<<"recovery", "cleanup">>}
    <3>1. events[j][1] \in Phases /\ events[k][1] \in Phases
      BY DEF RunTypes
    <3>2. Place(events[j][1]) < Place(events[k][1])
      BY <2>2 DEF OrderInv
    <3>3. PICK a \in Phases, b \in Phases : a = events[j][1] /\ b = events[k][1]
      BY <3>1
    <3>4. Place(a) < Place(b)
      BY <3>2, <3>3
    <3>5. <<a, b>> \in {"baseline"} \X {"impaired", "recovery", "cleanup"}
                        \cup {"impaired"} \X {"recovery", "cleanup"}
                        \cup {<<"recovery", "cleanup">>}
      BY <3>4, PlaceIs DEF Phases
    <3> QED
      BY <3>3, <3>5
  <2> QED
    BY <2>1, <2>2 DEF AllPhases
<1> QED
  BY <1>1, ScenarioInvariant, PTL

\* A run that reports no error is complete.
THEOREM ScenarioSuccessIsComplete == Spec => []SuccessIsComplete
<1>1. ScenarioInv => SuccessIsComplete
  <2> SUFFICES ASSUME ScenarioInv, ~runErr
               PROVE  /\ Recorded("baseline") => BothConnected
                      /\ run \in {"wait", "merge", "close", "returned"} =>
                          /\ Len(events) = 4 /\ events[2] = <<"impaired", "ok">>
                          /\ \A k \in {3, 4} : events[k][2] \in {"cleared", "absent"}
                      /\ run = "returned" =>
                          /\ merged.state = "whole"
                          /\ \A r \in Roles : stage[r] = "ok" /\ merged.n[r] > 1
    BY DEF SuccessIsComplete
  <2> USE DEF ScenarioInv
  <2>1. Recorded("baseline") => BothConnected
    BY DEF OutcomeInv
  <2>2. ASSUME run \in {"wait", "merge", "close", "returned"}
        PROVE  /\ Len(events) = 4 /\ events[2] = <<"impaired", "ok">>
               /\ \A k \in {3, 4} : events[k][2] \in {"cleared", "absent"}
    <3>1. Len(events) = 4 /\ \A k \in 1..4 : events[k] \in Good(k)
      BY <2>2, ExpectedIs DEF OutcomeInv
    <3> QED
      BY <3>1 DEF Good
  <2>3. ASSUME run = "returned"
        PROVE  merged.state = "whole" /\ \A r \in Roles : stage[r] = "ok" /\ merged.n[r] > 1
    BY <2>3 DEF OutcomeInv, MergedInv, PeersInv, LogInv
  <2> QED
    BY <2>1, <2>2, <2>3
<1> QED
  BY <1>1, ScenarioInvariant, PTL

\* stats.jsonl has all that the peers have logged.
THEOREM ScenarioMergedIsFinal == Spec => []MergedIsFinal
<1>1. ScenarioInv => MergedIsFinal
  BY DEF ScenarioInv, MergedInv, MergedIsFinal
<1> QED
  BY <1>1, ScenarioInvariant, PTL

-----------------------------------------------------------------------------
(* The run keeps the promise of Experiment.                                *)

LEMMA InitImplements == Init => Promise!Init
<1> SUFFICES ASSUME Init PROVE Promise!Init
  OBVIOUS
<1>1. \A r \in Roles : Part(r) = "none" /\ stats[r].n = 0
  BY DEF Init, RunsInit, PeersInit, Part, NoLog
<1>2. Verdict = "none"
  BY DEF Init, RunsInit, Verdict, Alive, RunEnds
<1>3. merged.state = "none" /\ merged.n = [r \in Roles |-> 0]
  BY DEF Init, RunsInit, NotMerged
<1> QED
  BY <1>1, <1>2, <1>3 DEF Promise!Init, Promise!Nothing

LEMMA RunImplements ==
    ASSUME ScenarioInv, ScenarioInv', RunStep \/ Timer \/ Crash \/ MarkerUnreadable("baseline")
    PROVE  [Promise!Next]_(Promise!experiment)
<1> USE DEF Alive, RunEnds
<1>1. ASSUME Alive, UNCHANGED <<stage, stats, merged>>
      PROVE  [Promise!Next]_(Promise!experiment)
  <2>1. CASE Alive'
    BY <1>1, <2>1, StutterImplements
  <2>2. CASE ~Alive'
    <3>1. run' = "returned" /\ ~runErr' =>
            merged'.state = "whole" /\ \A r \in Roles : stage'[r] = "ok"
      BY DEF ScenarioInv, OutcomeInv
    <3> QED
      BY <1>1, <2>2, <3>1, ReturnImplements
  <2> QED
    BY <2>1, <2>2
<1>2. CASE CallStep
  BY <1>2, StutterImplements DEF CallStep, OtherThanCancel, runVars
<1>3. CASE Launch("ready", "baseline")
  <2>1. Alive /\ Alive' /\ UNCHANGED <<stats, merged>> /\ \A r \in Roles : stage[r] = "none"
    BY <1>3 DEF Launch, At, To, ToWith, ScenarioInv, PeersOfRun, BeforePeers
  <2> QED
    BY <1>1, <1>3, <2>1, LaunchImplements DEF Launch
<1>4. CASE Merge("close")
  <2>1. Alive /\ Alive' /\ UNCHANGED <<stage, stats>> /\ merged = NotMerged
    BY <1>4 DEF Merge, At, To, ToWith, OtherThanCancel, ScenarioInv, MergedInv
  <2>2. CASE merged' = [state |-> "whole", n |-> [r \in Roles |-> stats[r].n]]
    <3>1. \A r \in Roles : stage[r] \in Ended
      BY <2>1, <2>2 DEF ScenarioInv, MergedInv
    <3> QED
      BY <2>1, <2>2, <3>1, MergeImplements
  <2>3. CASE merged' = merged \/ merged' = [NotMerged EXCEPT !.state = "torn"]
    BY <2>1, <2>3, StutterImplements
  <2> QED
    BY <1>4, <2>2, <2>3 DEF Merge
<1>5. CASE \/ Validate \/ ValidateNamespaces \/ Baseline \/ Abort \/ Apply \/ Impaired
           \/ Clear \/ Recovery \/ Skip \/ Cleanup \/ Cleaned
           \/ Prepare("launch") \/ Ready("baseline") \/ Wait \/ CloseEvents
  <2>1. Alive /\ UNCHANGED <<stage, stats, merged>>
    BY <1>5
    DEF Validate, ValidateNamespaces, Baseline, Abort, Apply, Impaired, Clear, Recovery, Skip,
        Cleanup, Cleaned, Called, Call, Phase, Prepare, Ready, Wait, CloseEvents, At,
        OtherThanCancel, peerVars
  <2> QED
    BY <1>1, <2>1
<1>6. CASE Timer \/ Crash \/ MarkerUnreadable("baseline")
  <2>1. Alive /\ UNCHANGED <<stage, stats, merged>>
    BY <1>6 DEF Timer, ReadyTimeout, Crash, MarkerUnreadable, GiveUp, At, OtherThanCancel,
                peerVars
  <2> QED
    BY <1>1, <2>1
<1> QED
  BY <1>2, <1>3, <1>4, <1>5, <1>6 DEF RunStep

LEMMA StepImplements ==
    ScenarioInv /\ ScenarioInv' /\ [Next]_vars => [Promise!Next]_(Promise!experiment)
<1> SUFFICES ASSUME ScenarioInv, ScenarioInv', [Next]_vars
             PROVE  [Promise!Next]_(Promise!experiment)
  OBVIOUS
<1>1. CASE RunStep \/ Timer \/ Crash \/ MarkerUnreadable("baseline")
  BY <1>1, RunImplements
<1>2. CASE Network
  BY <1>2, PeersImplement DEF Network, Still, Roles, ScenarioInv
<1>3. ASSUME NEW r \in Roles, PeerNext(r) \/ Supervise(r)
      PROVE  [Promise!Next]_(Promise!experiment)
  <2>1. Spawn(r, Present(r)) => Spawn(r, TRUE) \/ Spawn(r, FALSE)
    BY DEF Spawn
  <2> QED
    BY <1>3, <2>1, PeersImplement DEF PeerNext, PeerTimer, Supervise, Still, ScenarioInv
<1>4. CASE Drain \/ (\E p \in Others : Elsewhere(p)) \/ Over \/ UNCHANGED vars
  <2>1. UNCHANGED <<stage, stats, runVars>>
    BY <1>4 DEF Drain, Elsewhere, Over, vars, peerVars, OtherThanCancel
  <2> QED
    BY <2>1, StutterImplements DEF runVars, Alive
<1> QED
  BY <1>1, <1>2, <1>3, <1>4 DEF Next

\* Whatever the calls and the others do to the lab, and whatever fails or is
\* killed, a scenario run is one of Experiment.
THEOREM ScenarioImplementsExperiment == Spec => ImplementsExperiment
<1>1. Init => Promise!Init
  BY InitImplements
<1>2. ScenarioInv /\ ScenarioInv' /\ [Next]_vars => [Promise!Next]_(Promise!experiment)
  BY StepImplements
<1> QED
  BY <1>1, <1>2, ScenarioInvariant, PTL DEF Spec, ImplementsExperiment, Promise!Spec
-----------------------------------------------------------------------------
(* The lab of the run: what its own calls and the others do to it.         *)

Everyone == {Me} \cup Others
TheRecord == [nodes |-> 2, forward |-> 0]

\* Everything in a namespace goes with it.
Sound(h) ==
    /\ h.eth0 \subseteq h.netns
    /\ h.qdisc[Node] # {} => Node \in h.eth0

\* Nobody builds: what there is becomes less.
Less(g, h) ==
    /\ g.netns \subseteq h.netns /\ g.eth0 \subseteq h.eth0
    /\ g.qdisc[Node] \in {h.qdisc[Node], {}}

CallLabels == {"idle"} \cup L!DestroyLabels \cup L!ImpairLabels

\* The locals v of a process at label l.
Arguments(l, v) ==
    /\ v.seen \in {NoState, TheRecord}
    /\ l \in L!ImpairLabels => v.op \in {"apply", "clear"} /\ v.n \in {1, 2}
    /\ l = "dLoad" => v.at = 1
    /\ l = "dNode" => v.at \in {1, 2}
    /\ l \in L!RecordedLabels => v.seen = TheRecord
    /\ l \in L!FallbackLabels => v.seen = NoState

\* A destroy that has deleted the namespaces it found in the record.
Past(l, v) ==
    \/ l = "dNode" /\ v.at = 2
    \/ l \in {"dBridge", "dForward", "dForget"}
    \/ l \in {"dDown", "dDel", "dRuleCheck", "dRuleDel"} /\ v.seen # NoState

LabTypes ==
    /\ host \in L!HostStates
    /\ stateFile \in {NoState, TheRecord}
    /\ pc \in [Everyone -> CallLabels]
    /\ undo = [p \in Everyone |-> <<>>]
    /\ loc \in [Everyone -> L!Locals]
    /\ result \in [Everyone -> L!Results]
    /\ crashes \in 0..MaxCrashes

\* The node's namespace goes before the record of it.
LabInv ==
    /\ LabTypes
    /\ \A p \in Everyone :
        /\ Arguments(pc[p], loc[p])
        /\ Past(pc[p], loc[p]) => Node \notin host.netns
    /\ Sound(host)
    /\ stateFile = NoState => Node \notin host.netns

LEMMA Changed ==
    ASSUME NEW S, NEW V, NEW f \in [S -> V], NEW i, NEW v, i \in S => v \in V
    PROVE  /\ [f EXCEPT ![i] = v] \in [S -> V]
           /\ \A j \in S : [f EXCEPT ![i] = v][j] = IF j = i THEN v ELSE f[j]
  OBVIOUS

LEMMA HostCommands ==
    ASSUME NEW h \in L!HostStates, Sound(h), NEW i \in Nat
    PROVE  /\ \A g \in {L!PeerDel(h, i), L!NetnsDel(h, i), L!BridgeDel(h), L!RuleDel(h, i)}
                  \cup {L!SetForward(h, v) : v \in {0, 1}} :
                g \in L!HostStates /\ Sound(g) /\ Less(g, h)
           /\ i \in h.eth0 =>
                \A flags \in SUBSET L!Flags :
                    /\ L!Netem(h, i, flags) \in L!HostStates /\ Sound(L!Netem(h, i, flags))
                    /\ L!Netem(h, i, flags).netns = h.netns
                    /\ L!Netem(h, i, flags).eth0 = h.eth0
                    /\ L!Netem(h, i, flags).veth = h.veth
                    /\ L!Netem(h, i, flags).qdisc[Node]
                        = IF i = Node THEN flags ELSE h.qdisc[Node]
           /\ Node \notin L!NetnsDel(h, Node).netns
<1> DEFINE quiet == [h.qdisc EXCEPT ![i] = {}]
<1>q. /\ h.qdisc \in [1..2 -> SUBSET L!Flags] /\ quiet \in [1..2 -> SUBSET L!Flags]
      /\ quiet[1] = IF i = 1 THEN {} ELSE h.qdisc[1]
  <2>1. h.qdisc \in [1..2 -> SUBSET L!Flags] /\ {} \in SUBSET L!Flags
    BY DEF L!HostStates, L!Nodes
  <2>2. /\ quiet \in [1..2 -> SUBSET L!Flags]
        /\ \A j \in 1..2 : quiet[j] = IF j = i THEN {} ELSE h.qdisc[j]
    BY <2>1, Changed
  <2> QED
    BY <2>1, <2>2
<1>v. /\ [h.veth EXCEPT ![i] = "none"] \in [1..2 -> L!VethStates]
      /\ [h.veth EXCEPT ![i] = IF @ = "moved" THEN "dying" ELSE @] \in [1..2 -> L!VethStates]
  <2>1. h.veth \in [1..2 -> L!VethStates] /\ {"none", "dying"} \subseteq L!VethStates
    BY DEF L!HostStates, L!Nodes, L!VethStates
  <2> QED
    BY <2>1, Changed
<1> HIDE DEF quiet
<1> USE DEF L!HostStates, L!Nodes, L!Rules, Sound, Less, Node, NodeOf
<1>1. /\ L!PeerDel(h, i) \in L!HostStates /\ Sound(L!PeerDel(h, i))
      /\ Less(L!PeerDel(h, i), h)
  <2>1. L!PeerDel(h, i) = [h EXCEPT !.veth = [h.veth EXCEPT ![i] = "none"],
                                    !.ports = h.ports \ {i},
                                    !.eth0 = h.eth0 \ {i}, !.qdisc = quiet]
    BY DEF L!PeerDel, quiet
  <2>2. L!PeerDel(h, i) \in L!HostStates
    BY <1>q, <1>v, <2>1, ZenonT(60)
  <2>3. Less(L!PeerDel(h, i), h)
    BY <1>q, <2>1
  <2>4. Sound(L!PeerDel(h, i))
    BY <1>q, <2>1
  <2> QED
    BY <2>2, <2>3, <2>4
<1>2. /\ L!NetnsDel(h, i) \in L!HostStates /\ Sound(L!NetnsDel(h, i))
      /\ Less(L!NetnsDel(h, i), h)
  <2>1. L!NetnsDel(h, i)
          = [h EXCEPT !.netns = h.netns \ {i},
                      !.veth = [h.veth EXCEPT ![i] = IF @ = "moved" THEN "dying" ELSE @],
                      !.eth0 = h.eth0 \ {i}, !.qdisc = quiet]
    BY DEF L!NetnsDel, quiet
  <2>2. L!NetnsDel(h, i) \in L!HostStates
    BY <1>q, <1>v, <2>1, ZenonT(60)
  <2>3. Less(L!NetnsDel(h, i), h)
    BY <1>q, <2>1
  <2>4. Sound(L!NetnsDel(h, i))
    BY <1>q, <2>1
  <2> QED
    BY <2>2, <2>3, <2>4
<1>0. Node \notin L!NetnsDel(h, Node).netns
  BY DEF L!NetnsDel
<1>3. /\ L!BridgeDel(h) \in L!HostStates /\ Sound(L!BridgeDel(h))
      /\ Less(L!BridgeDel(h), h)
  BY DEF L!BridgeDel
<1>4. /\ L!RuleDel(h, i) \in L!HostStates /\ Sound(L!RuleDel(h, i))
      /\ Less(L!RuleDel(h, i), h)
  BY DEF L!RuleDel
<1>5. ASSUME NEW v \in {0, 1}
      PROVE  /\ L!SetForward(h, v) \in L!HostStates /\ Sound(L!SetForward(h, v))
             /\ Less(L!SetForward(h, v), h)
  BY DEF L!SetForward
<1>6. ASSUME i \in h.eth0, NEW flags \in SUBSET L!Flags
      PROVE  /\ L!Netem(h, i, flags) \in L!HostStates /\ Sound(L!Netem(h, i, flags))
             /\ L!Netem(h, i, flags).netns = h.netns
             /\ L!Netem(h, i, flags).eth0 = h.eth0
             /\ L!Netem(h, i, flags).veth = h.veth
             /\ L!Netem(h, i, flags).qdisc[Node] = IF i = Node THEN flags ELSE h.qdisc[Node]
  BY <1>6 DEF L!Netem
<1> HIDE DEF L!HostStates, Sound, Less
<1> QED
  BY <1>0, <1>1, <1>2, <1>3, <1>4, <1>5, <1>6

\* A process goes to label l with locals v and result r.
Moved(p, l, v, r) ==
    /\ pc' = [pc EXCEPT ![p] = l] /\ loc' = [loc EXCEPT ![p] = v]
    /\ result' = [result EXCEPT ![p] = r] /\ undo' = undo

LEMMA MovesAre ==
    ASSUME LabTypes, NEW p \in Everyone
    PROVE  /\ \A l : L!Goto(p, l) => Moved(p, l, loc[p], result[p])
           /\ \A l, i : L!GotoAt(p, l, i) => Moved(p, l, [loc[p] EXCEPT !.at = i], result[p])
           /\ \A r : L!Return(p, r) => Moved(p, "idle", L!Blank, r)
           /\ loc[p] \in L!Locals /\ result[p] \in L!Results /\ L!Blank \in L!Locals
           /\ \A i \in Nat : [loc[p] EXCEPT !.at = i] \in L!Locals
           /\ Arguments("idle", L!Blank) /\ ~Past("idle", L!Blank)
<1> USE DEF LabTypes, Moved
<1>1. ASSUME NEW l, L!Goto(p, l) PROVE Moved(p, l, loc[p], result[p])
  BY <1>1 DEF L!Goto
<1>2. ASSUME NEW l, NEW i, L!GotoAt(p, l, i)
      PROVE  Moved(p, l, [loc[p] EXCEPT !.at = i], result[p])
  BY <1>2 DEF L!GotoAt
<1>3. ASSUME NEW r, L!Return(p, r) PROVE Moved(p, "idle", L!Blank, r)
  BY <1>3 DEF L!Return
<1>4. loc[p] \in L!Locals /\ result[p] \in L!Results
  OBVIOUS
<1>5. \A i \in Nat : [loc[p] EXCEPT !.at = i] \in L!Locals
  BY <1>4 DEF L!Locals
<1>6. L!Blank \in L!Locals
  BY DEF L!Blank, L!Locals, L!Flags
<1>7. Arguments("idle", L!Blank) /\ ~Past("idle", L!Blank)
  BY DEF Arguments, Past, L!Blank, L!ImpairLabels, L!RecordedLabels, L!FallbackLabels
<1> QED
  BY <1>1, <1>2, <1>3, <1>4, <1>5, <1>6, <1>7

LEMMA MoveKeepsLab ==
    ASSUME LabInv, NEW p \in Everyone,
           NEW l \in CallLabels, NEW v \in L!Locals, NEW r \in L!Results, Moved(p, l, v, r),
           Arguments(l, v), Past(l, v) => Node \notin host'.netns,
           host' \in L!HostStates, Sound(host'), host'.netns \subseteq host.netns,
           stateFile' \in {NoState, TheRecord}, crashes' \in 0..MaxCrashes,
           stateFile' = NoState => stateFile = NoState \/ Node \notin host'.netns
    PROVE  /\ LabInv'
           /\ pc'[p] = l /\ loc'[p] = v /\ result'[p] = r
           /\ \A q \in Everyone \ {p} :
                pc'[q] = pc[q] /\ loc'[q] = loc[q] /\ result'[q] = result[q]
<1> USE DEF LabInv, LabTypes, Moved
<1>1. LabTypes'
  OBVIOUS
<1>2. /\ pc'[p] = l /\ loc'[p] = v /\ result'[p] = r
      /\ \A q \in Everyone \ {p} :
            pc'[q] = pc[q] /\ loc'[q] = loc[q] /\ result'[q] = result[q]
  OBVIOUS
<1>3. ASSUME NEW q \in Everyone
      PROVE  /\ Arguments(pc'[q], loc'[q])
             /\ Past(pc'[q], loc'[q]) => Node \notin host'.netns
  BY <1>2
<1> QED
  BY <1>1, <1>2, <1>3

-----------------------------------------------------------------------------
(* What a step of Lab does to it.                                          *)

OnlyMoves(p) ==
    \A q \in Everyone \ {p} : pc'[q] = pc[q] /\ loc'[q] = loc[q] /\ result'[q] = result[q]

Held ==
    /\ host' \in L!HostStates /\ Sound(host') /\ Less(host', host)
    /\ crashes' = crashes

DestroyEffect(p) ==
    /\ LabInv' /\ OnlyMoves(p) /\ Less(host', host)
    /\ \/ pc'[p] \in L!DestroyLabels /\ result'[p] = result[p]
       \/ pc'[p] = "idle" /\ result'[p] \in {"destroyed", "destroyedFallback", "error"}

LEMMA DestroyMove ==
    ASSUME LabInv, NEW p \in Everyone, NEW l \in L!DestroyLabels, NEW v \in L!Locals,
           Moved(p, l, v, result[p]), Arguments(l, v), Past(l, v) => Node \notin host'.netns,
           Held, stateFile' = stateFile
    PROVE  DestroyEffect(p)
<1>1. /\ result[p] \in L!Results /\ l \in CallLabels /\ crashes' \in 0..MaxCrashes
      /\ stateFile \in {NoState, TheRecord}
  BY DEF LabInv, LabTypes, CallLabels, Held
<1>2. /\ LabInv' /\ pc'[p] = l /\ result'[p] = result[p]
      /\ OnlyMoves(p)
  BY <1>1, MoveKeepsLab DEF Held, Less, OnlyMoves
<1> QED
  BY <1>2 DEF DestroyEffect, Held

LEMMA DestroyReturn ==
    ASSUME LabInv, NEW p \in Everyone,
           NEW r \in {"destroyed", "destroyedFallback", "error"}, L!Return(p, r),
           Held, stateFile' = stateFile \/ (stateFile' = NoState /\ Node \notin host.netns)
    PROVE  DestroyEffect(p)
<1>1. /\ r \in L!Results /\ "idle" \in CallLabels /\ crashes' \in 0..MaxCrashes
      /\ stateFile \in {NoState, TheRecord} /\ LabTypes
  BY DEF LabInv, LabTypes, CallLabels, Held, L!Results
<1>2. /\ Moved(p, "idle", L!Blank, r) /\ Arguments("idle", L!Blank)
      /\ ~Past("idle", L!Blank) /\ L!Blank \in L!Locals
  BY <1>1, MovesAre
<1>3. LabInv' /\ pc'[p] = "idle" /\ result'[p] = r /\ OnlyMoves(p)
  BY <1>1, <1>2, MoveKeepsLab DEF Held, Less, OnlyMoves
<1> QED
  BY <1>3 DEF DestroyEffect, Held

LEMMA DestroyGoto ==
    ASSUME LabInv, NEW p \in Everyone, NEW l \in L!DestroyLabels, L!Goto(p, l),
           Arguments(l, loc[p]), Past(l, loc[p]) => Node \notin host'.netns,
           Held, stateFile' = stateFile
    PROVE  DestroyEffect(p)
  BY MovesAre, DestroyMove DEF LabInv

LEMMA DestroyGotoAt ==
    ASSUME LabInv, NEW p \in Everyone, NEW l \in L!DestroyLabels, NEW i \in Nat,
           L!GotoAt(p, l, i), Arguments(l, [loc[p] EXCEPT !.at = i]),
           Past(l, [loc[p] EXCEPT !.at = i]) => Node \notin host'.netns,
           Held, stateFile' = stateFile
    PROVE  DestroyEffect(p)
<1>1. /\ Moved(p, l, [loc[p] EXCEPT !.at = i], result[p])
      /\ [loc[p] EXCEPT !.at = i] \in L!Locals
  BY MovesAre DEF LabInv
<1> QED
  BY <1>1, DestroyMove

\* What a destroy needs to know of where it is.
LEMMA DestroyAt ==
    ASSUME LabInv, NEW p \in Everyone
    PROVE  /\ loc[p] \in L!Locals /\ loc[p].at \in Nat
           /\ \A i : /\ [loc[p] EXCEPT !.at = i].seen = loc[p].seen
                     /\ [loc[p] EXCEPT !.at = i].at = i
           /\ loc[p].seen \in {NoState, TheRecord}
           /\ Arguments(pc[p], loc[p])
           /\ Past(pc[p], loc[p]) => Node \notin host.netns
           /\ host \in L!HostStates /\ Sound(host)
           /\ (UNCHANGED <<host, crashes>> => Held)
<1>1. loc[p] \in L!Locals /\ loc[p].at \in Nat
  BY DEF LabInv, LabTypes, L!Locals
<1>2. \A i : /\ [loc[p] EXCEPT !.at = i].seen = loc[p].seen
             /\ [loc[p] EXCEPT !.at = i].at = i
  BY <1>1 DEF L!Locals
<1>3. /\ host \in L!HostStates /\ Sound(host)
      /\ Arguments(pc[p], loc[p]) /\ loc[p].seen \in {NoState, TheRecord}
      /\ (Past(pc[p], loc[p]) => Node \notin host.netns)
  BY DEF LabInv, LabTypes, Arguments
<1>4. UNCHANGED <<host, crashes>> => Held
  BY <1>3 DEF Held, Less
<1> QED
  BY <1>1, <1>2, <1>3, <1>4

LEMMA NextRuleDoes ==
    ASSUME LabInv, NEW p \in Everyone, pc[p] \in {"dRuleCheck", "dRuleDel"},
           L!NextRule(p), Held, stateFile' = stateFile
    PROVE  DestroyEffect(p)
<1> USE DestroyAt
<1>1. ASSUME L!GotoAt(p, "dRuleCheck", loc[p].at + 1) PROVE DestroyEffect(p)
  <2>1. loc[p].at + 1 \in Nat /\ "dRuleCheck" \in L!DestroyLabels
    BY DEF L!DestroyLabels, L!SharedLabels
  <2>2. Arguments("dRuleCheck", [loc[p] EXCEPT !.at = loc[p].at + 1])
    BY DEF Arguments, L!RecordedLabels, L!FallbackLabels, L!ImpairLabels
  <2>3. Past("dRuleCheck", [loc[p] EXCEPT !.at = loc[p].at + 1]) => Node \notin host'.netns
    BY DEF Past, Held, Less
  <2> QED
    BY <1>1, <2>1, <2>2, <2>3, DestroyGotoAt
<1>2. ASSUME loc[p].seen # NoState, L!Goto(p, "dForward") PROVE DestroyEffect(p)
  <2>1. "dForward" \in L!DestroyLabels
    BY DEF L!DestroyLabels, L!RecordedLabels
  <2>2. Arguments("dForward", loc[p])
    BY <1>2 DEF Arguments, L!RecordedLabels, L!FallbackLabels, L!ImpairLabels
  <2>3. Node \notin host'.netns
    BY <1>2 DEF Past, Held, Less
  <2> QED
    BY <1>2, <2>1, <2>2, <2>3, DestroyGoto
<1>3. ASSUME L!Return(p, "destroyedFallback") PROVE DestroyEffect(p)
  BY <1>3, DestroyReturn
<1> QED
  BY <1>1, <1>2, <1>3 DEF L!NextRule

LEMMA DestroyDoes ==
    ASSUME LabInv, NEW p \in Everyone, L!DestroyStep(p)
    PROVE  DestroyEffect(p)
<1> USE DEF L!KeepState
<1>f. ASSUME L!Fail(p), UNCHANGED <<host, stateFile, crashes>> PROVE DestroyEffect(p)
  <2>1. Held
    BY <1>f, DestroyAt
  <2> QED
    BY <1>f, <2>1, DestroyReturn DEF L!Fail
<1>l. /\ {"dNode", "dBridge", "dForward", "dForget", "fBridge", "fList", "fPeer",
          "dLoad", "dDown", "dDel", "dRuleCheck", "dRuleDel"} \subseteq L!DestroyLabels
      /\ L!RecordedLabels = {"dNode", "dBridge", "dForward", "dForget"}
      /\ L!FallbackLabels = {"fBridge", "fList", "fPeer"}
      /\ L!ImpairLabels = {"tLoad", "tNetns", "tRun"}
  BY DEF L!DestroyLabels, L!RecordedLabels, L!FallbackLabels, L!SharedLabels, L!ImpairLabels
<1>a. ASSUME NEW i \in {1}, L!GotoAt(p, "dRuleCheck", i), UNCHANGED stateFile, Held,
             loc[p].seen # NoState => Node \notin host.netns
      PROVE  DestroyEffect(p)
  <2>1. Arguments("dRuleCheck", [loc[p] EXCEPT !.at = i])
    BY <1>l, DestroyAt DEF Arguments
  <2>2. Past("dRuleCheck", [loc[p] EXCEPT !.at = i]) => Node \notin host'.netns
    BY <1>a, DestroyAt DEF Past, Held, Less
  <2> QED
    BY <1>a, <1>l, <2>1, <2>2, DestroyGotoAt
<1>1. CASE L!DestroyLoad(p)
  <2>1. CASE L!Fault /\ L!Fail(p)
    BY <1>1, <2>1, <1>f DEF L!DestroyLoad, L!Fault
  <2>2. ASSUME UNCHANGED <<host, stateFile, crashes, undo, result>>,
               pc' = [pc EXCEPT ![p] = IF stateFile = NoState THEN "fBridge" ELSE "dNode"],
               loc' = [loc EXCEPT ![p].seen = stateFile]
        PROVE  DestroyEffect(p)
    <3> DEFINE l == IF stateFile = NoState THEN "fBridge" ELSE "dNode"
               v == [loc[p] EXCEPT !.seen = stateFile]
    <3>1. stateFile \in {NoState, TheRecord} /\ loc \in [Everyone -> L!Locals]
          /\ result \in [Everyone -> L!Results]
      BY DEF LabInv, LabTypes
    <3>2. v.seen = stateFile /\ v.at = 1 /\ v \in L!Locals
      <4>1. loc[p].at = 1
        BY <1>1, DestroyAt DEF Arguments, L!DestroyLoad
      <4>2. stateFile \in L!State \cup {NoState}
        BY <3>1 DEF TheRecord, L!State, L!Nodes
      <4> QED
        BY <3>1, <4>1, <4>2 DEF L!Locals
    <3>3. Moved(p, l, v, result[p])
      BY <2>2, <3>1 DEF Moved
    <3>4. l \in L!DestroyLabels /\ Arguments(l, v) /\ ~Past(l, v)
      BY <1>l, <3>1, <3>2 DEF Arguments, Past
    <3> HIDE DEF l, v
    <3> QED
      BY <2>2, <3>2, <3>3, <3>4, DestroyAt, DestroyMove
  <2> QED
    BY <1>1, <2>1, <2>2 DEF L!DestroyLoad
<1>2. CASE L!DeleteNode(p)
  <2>1. CASE L!Fault /\ L!Fail(p)
    BY <1>2, <2>1, <1>f DEF L!DeleteNode, L!Fault
  <2>2. /\ pc[p] = "dNode" /\ loc[p].seen = TheRecord /\ TheRecord.nodes = 2
        /\ loc[p].at \in {1, 2}
    BY <1>2, <1>l, DestroyAt DEF Arguments, L!DeleteNode, TheRecord
  <2>3. ASSUME host' = L!NetnsDel(host, loc[p].at), UNCHANGED <<stateFile, crashes>>
        PROVE  /\ Held
               /\ Node \notin host.netns \/ loc[p].at = Node => Node \notin host'.netns
    BY <2>3, <2>2, DestroyAt, HostCommands DEF Held, Less
  <2>4. ASSUME host' = L!NetnsDel(host, loc[p].at), UNCHANGED <<stateFile, crashes>>,
               loc[p].at = 1, L!GotoAt(p, "dNode", loc[p].at + 1)
        PROVE  DestroyEffect(p)
    <3>1. Arguments("dNode", [loc[p] EXCEPT !.at = loc[p].at + 1]) /\ loc[p].at + 1 \in Nat
      BY <2>2, <2>4, <1>l, DestroyAt DEF Arguments
    <3>2. Node \notin host'.netns
      BY <2>3, <2>4 DEF Node, NodeOf
    <3> QED
      BY <1>l, <2>3, <2>4, <3>1, <3>2, DestroyGotoAt
  <2>5. ASSUME host' = L!NetnsDel(host, loc[p].at), UNCHANGED <<stateFile, crashes>>,
               loc[p].at = 2, L!Goto(p, "dBridge")
        PROVE  DestroyEffect(p)
    <3>1. Arguments("dBridge", loc[p])
      BY <2>2, <1>l, DestroyAt DEF Arguments
    <3>2. Node \notin host'.netns
      BY <2>2, <2>3, <2>5, DestroyAt DEF Past
    <3> QED
      BY <1>l, <2>3, <2>5, <3>1, <3>2, DestroyGoto
  <2> QED
    BY <1>2, <2>1, <2>2, <2>4, <2>5 DEF L!DeleteNode, L!Run
<1>3. CASE L!DestroyBridgeExists(p)
  <2>1. CASE L!Fault /\ L!Fail(p)
    BY <1>3, <2>1, <1>f DEF L!DestroyBridgeExists, L!Fault
  <2>2. pc[p] = "dBridge" /\ Node \notin host.netns /\ Arguments("dDown", loc[p])
    BY <1>3, <1>l, DestroyAt DEF Arguments, Past, L!DestroyBridgeExists
  <2>3. ASSUME UNCHANGED <<host, stateFile, crashes>>,
               L!Goto(p, "dDown") \/ L!GotoAt(p, "dRuleCheck", 1)
        PROVE  DestroyEffect(p)
    BY <1>a, <1>l, <2>2, <2>3, DestroyAt, DestroyGoto
  <2> QED
    BY <1>3, <2>1, <2>3 DEF L!DestroyBridgeExists, L!Ask
<1>4. CASE L!FallbackBridgeExists(p)
  <2>1. CASE L!Fault /\ L!Fail(p)
    BY <1>4, <2>1, <1>f DEF L!FallbackBridgeExists, L!Fault
  <2>2. pc[p] = "fBridge" /\ loc[p].seen = NoState /\ Arguments("fList", loc[p])
    BY <1>4, <1>l, DestroyAt DEF Arguments, L!FallbackBridgeExists
  <2>3. ASSUME UNCHANGED <<host, stateFile, crashes>>,
               L!Goto(p, "fList") \/ L!GotoAt(p, "dRuleCheck", 1)
        PROVE  DestroyEffect(p)
    <3>1. ~Past("fList", loc[p])
      BY DEF Past
    <3> QED
      BY <1>a, <1>l, <2>2, <2>3, <3>1, DestroyAt, DestroyGoto
  <2> QED
    BY <1>4, <2>1, <2>3 DEF L!FallbackBridgeExists, L!Ask
<1>5. CASE L!ListMembers(p)
  <2>1. CASE L!Fail(p)
    BY <1>5, <2>1, <1>f DEF L!ListMembers, L!Fault
  <2>2. ASSUME UNCHANGED <<host, stateFile, crashes, undo, result>>,
               pc' = [pc EXCEPT ![p] = "fPeer"],
               loc' = [loc EXCEPT ![p].members = host.ports]
        PROVE  DestroyEffect(p)
    <3> DEFINE v == [loc[p] EXCEPT !.members = host.ports]
    <3>1. loc \in [Everyone -> L!Locals] /\ host.ports \subseteq L!Nodes
      BY DEF LabInv, LabTypes, L!HostStates
    <3>2. v.seen = loc[p].seen /\ v \in L!Locals
      BY <3>1 DEF L!Locals
    <3>3. Moved(p, "fPeer", v, result[p])
      BY <2>2, <3>1 DEF Moved, LabInv, LabTypes
    <3>4. Arguments("fPeer", v) /\ ~Past("fPeer", v)
      BY <1>5, <1>l, <3>2, DestroyAt DEF Arguments, Past, L!ListMembers
    <3> HIDE DEF v
    <3> QED
      BY <2>2, <1>l, <3>2, <3>3, <3>4, DestroyAt, DestroyMove
  <2> QED
    BY <1>5, <2>1, <2>2 DEF L!ListMembers
<1>6. CASE L!DeletePeer(p)
  <2>1. pc[p] = "fPeer" /\ loc[p].seen = NoState /\ loc[p].members \subseteq L!Nodes
    BY <1>6, <1>l, DestroyAt DEF Arguments, L!DeletePeer, L!Locals
  <2>2. ASSUME L!Goto(p, "dDown"), UNCHANGED <<host, stateFile, crashes>>
        PROVE  DestroyEffect(p)
    <3>1. Arguments("dDown", loc[p]) /\ ~Past("dDown", loc[p])
      BY <2>1, <1>l, DestroyAt DEF Arguments, Past
    <3> QED
      BY <1>l, <2>2, <3>1, DestroyAt, DestroyGoto
  <2>3. ASSUME NEW i \in loc[p].members, host' = L!PeerDel(host, i),
               loc' = [loc EXCEPT ![p].members = @ \ {i}],
               UNCHANGED <<stateFile, crashes, pc, undo, result>>
        PROVE  DestroyEffect(p)
    <3> DEFINE v == [loc[p] EXCEPT !.members = @ \ {i}]
    <3>1. loc \in [Everyone -> L!Locals] /\ pc \in [Everyone -> CallLabels]
          /\ result \in [Everyone -> L!Results] /\ undo' = undo
      BY <2>3 DEF LabInv, LabTypes
    <3>2. v.seen = loc[p].seen /\ v \in L!Locals
      BY <3>1, <2>1 DEF L!Locals
    <3>3. Moved(p, "fPeer", v, result[p])
      BY <2>1, <2>3, <3>1 DEF Moved
    <3>4. Arguments("fPeer", v) /\ ~Past("fPeer", v)
      BY <2>1, <1>l, <3>2, DestroyAt DEF Arguments, Past
    <3>5. i \in Nat
      BY <2>1 DEF L!Nodes
    <3>6. Held
      BY <2>3, <3>5, DestroyAt, HostCommands DEF Held
    <3> HIDE DEF v
    <3> QED
      BY <2>3, <1>l, <3>2, <3>3, <3>4, <3>6, DestroyMove
  <2>4. CASE L!Fault /\ L!Fail(p)
    BY <1>6, <2>4, <1>f DEF L!DeletePeer, L!Fault
  <2> QED
    BY <1>6, <2>2, <2>3, <2>4 DEF L!DeletePeer, L!Run
<1>7. CASE L!BridgeDown(p)
  <2>1. CASE L!Fail(p)
    BY <1>7, <2>1, <1>f DEF L!BridgeDown, L!Run, L!Fault
  <2>2. /\ pc[p] = "dDown" /\ Arguments("dDel", loc[p])
        /\ Past("dDel", loc[p]) => Node \notin host.netns
    BY <1>7, <1>l, DestroyAt DEF Arguments, Past, L!BridgeDown
  <2>3. ASSUME UNCHANGED <<host, stateFile, crashes>>, L!Goto(p, "dDel")
        PROVE  DestroyEffect(p)
    BY <1>l, <2>2, <2>3, DestroyAt, DestroyGoto
  <2> QED
    BY <1>7, <2>1, <2>3 DEF L!BridgeDown, L!Run
<1>8. CASE L!DeleteBridge(p)
  <2>1. CASE L!Fail(p) /\ UNCHANGED host
    BY <1>8, <2>1, <1>f DEF L!DeleteBridge
  <2>2. pc[p] = "dDel" /\ (loc[p].seen # NoState => Node \notin host.netns)
    BY <1>8, DestroyAt DEF Past, L!DeleteBridge
  <2>3. ASSUME host' = L!BridgeDel(host), UNCHANGED <<stateFile, crashes>>,
               L!GotoAt(p, "dRuleCheck", 1)
        PROVE  DestroyEffect(p)
    <3>1. Held
      BY <2>3, DestroyAt, HostCommands DEF Held
    <3> QED
      BY <1>a, <2>2, <2>3, <3>1
  <2> QED
    BY <1>8, <2>1, <2>3 DEF L!DeleteBridge, L!Run, L!Fault
<1>9. CASE L!CheckRule(p)
  <2>1. CASE L!Fail(p) /\ UNCHANGED host
    BY <1>9, <2>1, <1>f DEF L!CheckRule
  <2>2. /\ pc[p] = "dRuleCheck" /\ Arguments("dRuleDel", loc[p])
        /\ Past("dRuleDel", loc[p]) => Node \notin host.netns
    BY <1>9, <1>l, DestroyAt DEF Arguments, Past, L!CheckRule
  <2>3. ASSUME UNCHANGED <<host, stateFile, crashes>>, L!Goto(p, "dRuleDel")
        PROVE  DestroyEffect(p)
    BY <1>l, <2>2, <2>3, DestroyAt, DestroyGoto
  <2>4. ASSUME UNCHANGED <<host, stateFile, crashes>>, L!NextRule(p) PROVE DestroyEffect(p)
    BY <2>2, <2>4, DestroyAt, NextRuleDoes
  <2> QED
    BY <1>9, <2>1, <2>3, <2>4 DEF L!CheckRule, L!Ask, L!Fault
<1>10. CASE L!DeleteRule(p)
  <2>1. CASE L!Fail(p) /\ UNCHANGED host
    BY <1>10, <2>1, <1>f DEF L!DeleteRule
  <2>2. /\ pc[p] = "dRuleDel" /\ Arguments("dRuleCheck", loc[p])
        /\ Past("dRuleCheck", loc[p]) => Node \notin host.netns
    BY <1>10, <1>l, DestroyAt DEF Arguments, Past, L!DeleteRule
  <2>3. ASSUME host' = L!RuleDel(host, loc[p].at), UNCHANGED <<stateFile, crashes>>,
               L!Goto(p, "dRuleCheck")
        PROVE  DestroyEffect(p)
    <3>1. Held
      BY <2>3, DestroyAt, HostCommands DEF Held
    <3>2. Past("dRuleCheck", loc[p]) => Node \notin host'.netns
      BY <2>2, <3>1 DEF Held, Less
    <3> QED
      BY <1>l, <2>2, <2>3, <3>1, <3>2, DestroyGoto
  <2>4. ASSUME UNCHANGED <<host, stateFile, crashes>>, L!NextRule(p) PROVE DestroyEffect(p)
    BY <2>2, <2>4, DestroyAt, NextRuleDoes
  <2> QED
    BY <1>10, <2>1, <2>3, <2>4 DEF L!DeleteRule, L!Fault
<1>11. CASE L!RestoreForward(p)
  <2>1. CASE L!Fail(p) /\ UNCHANGED host
    BY <1>11, <2>1, <1>f DEF L!RestoreForward
  <2>2. /\ pc[p] = "dForward" /\ loc[p].seen = TheRecord /\ Arguments("dForget", loc[p])
        /\ Node \notin host.netns /\ loc[p].seen.forward \in {0, 1}
    BY <1>11, <1>l, DestroyAt DEF Arguments, Past, L!RestoreForward, TheRecord
  <2>3. ASSUME host' = L!SetForward(host, loc[p].seen.forward), UNCHANGED <<stateFile, crashes>>,
               L!Goto(p, "dForget")
        PROVE  DestroyEffect(p)
    <3>1. Held
      <4>1. 0 \in Nat
        OBVIOUS
      <4> QED
        BY <2>2, <2>3, <4>1, DestroyAt, HostCommands DEF Held
    <3>2. Node \notin host'.netns
      BY <2>2, <3>1 DEF Held, Less
    <3> QED
      BY <1>l, <2>2, <2>3, <3>1, <3>2, DestroyGoto
  <2> QED
    BY <1>11, <2>1, <2>3 DEF L!RestoreForward, L!Run, L!Fault
<1>12. CASE L!DeleteStateFile(p)
  <2>1. CASE L!Fail(p) /\ UNCHANGED <<host, stateFile>>
    BY <1>12, <2>1, <1>f DEF L!DeleteStateFile
  <2>2. pc[p] = "dForget" /\ Node \notin host.netns
    BY <1>12, DestroyAt DEF Past, L!DeleteStateFile
  <2>3. ASSUME stateFile' = NoState, L!Return(p, "destroyed"), UNCHANGED <<host, crashes>>
        PROVE  DestroyEffect(p)
    BY <2>2, <2>3, DestroyAt, DestroyReturn
  <2> QED
    BY <1>12, <2>1, <2>3 DEF L!DeleteStateFile, L!Fault
<1> QED
  BY <1>1, <1>2, <1>3, <1>4, <1>5, <1>6, <1>7, <1>8, <1>9, <1>10, <1>11, <1>12
  DEF L!DestroyStep

\* An invocation returns, or is killed.
LEMMA ReturnKeepsLab ==
    ASSUME LabInv, NEW p \in Everyone, NEW r \in L!Results, L!Return(p, r),
           host' \in L!HostStates, Sound(host'), host'.netns = host.netns,
           stateFile' = stateFile, crashes' \in 0..MaxCrashes
    PROVE  LabInv' /\ OnlyMoves(p) /\ pc'[p] = "idle" /\ result'[p] = r
<1>1. /\ Moved(p, "idle", L!Blank, r) /\ L!Blank \in L!Locals
      /\ Arguments("idle", L!Blank) /\ ~Past("idle", L!Blank)
  BY MovesAre DEF LabInv
<1>2. "idle" \in CallLabels /\ stateFile \in {NoState, TheRecord}
  BY DEF CallLabels, LabInv, LabTypes
<1> QED
  BY <1>1, <1>2, MoveKeepsLab DEF OnlyMoves

LEMMA GotoKeepsLab ==
    ASSUME LabInv, NEW p \in Everyone, pc[p] \in L!ImpairLabels, NEW l \in L!ImpairLabels,
           L!Goto(p, l), UNCHANGED <<host, stateFile, crashes>>
    PROVE  /\ LabInv' /\ OnlyMoves(p)
           /\ pc'[p] = l /\ loc'[p] = loc[p] /\ result'[p] = result[p]
<1>1. /\ Moved(p, l, loc[p], result[p]) /\ loc[p] \in L!Locals /\ result[p] \in L!Results
  BY MovesAre DEF LabInv
<1>2. Arguments(l, loc[p]) /\ ~Past(l, loc[p])
  BY DEF LabInv, Arguments, Past, L!ImpairLabels, L!RecordedLabels, L!FallbackLabels
<1>3. /\ l \in CallLabels /\ stateFile \in {NoState, TheRecord} /\ crashes \in 0..MaxCrashes
      /\ host \in L!HostStates /\ Sound(host)
      /\ stateFile = NoState => Node \notin host.netns
  BY DEF CallLabels, LabInv, LabTypes
<1> QED
  BY <1>1, <1>2, <1>3, MoveKeepsLab DEF OnlyMoves

\* A step of apply or clear on the node: it fails for a fault, or because the
\* node is gone, or has done what it is to do.
ImpairEffect(p) ==
    /\ LabInv' /\ OnlyMoves(p) /\ stateFile' = stateFile
    /\ host'.netns = host.netns /\ host'.eth0 = host.eth0 /\ host'.veth = host.veth
    /\ \/ /\ pc'[p] \in L!ImpairLabels /\ loc'[p] = loc[p] /\ result'[p] = result[p]
          /\ host' = host
       \/ /\ pc'[p] = "idle" /\ result'[p] = "error" /\ host' = host
          /\ Fault \/ Node \notin host.eth0
       \/ /\ pc'[p] = "idle" /\ loc[p].op = "apply" /\ result'[p] = "applied"
          /\ host'.qdisc[Node] = loc[p].flags
       \/ /\ pc'[p] = "idle" /\ loc[p].op = "clear" /\ result'[p] \in {"cleared", "absent"}
          /\ host'.qdisc[Node] = {}
          /\ result'[p] = "absent" <=> host.qdisc[Node] = {}

LEMMA ImpairDoes ==
    ASSUME LabInv, NEW p \in Everyone, loc[p].n = Node, L!ImpairStep(p)
    PROVE  ImpairEffect(p)
<1> USE DEF L!KeepState
<1>1. /\ pc[p] \in L!ImpairLabels /\ {"tLoad", "tNetns", "tRun"} = L!ImpairLabels
      /\ {"error", "applied", "cleared", "absent"} \subseteq L!Results
  BY DEF L!ImpairStep, L!ImpairLoad, L!ImpairNamespace, L!ApplyNetem, L!ClearNetem,
         L!ImpairLabels, L!Results
<1>2. /\ host \in L!HostStates /\ Sound(host) /\ crashes \in 0..MaxCrashes
      /\ stateFile \in {NoState, TheRecord}
      /\ stateFile = NoState => Node \notin host.netns
      /\ loc[p].op \in {"apply", "clear"} /\ loc[p].flags \in SUBSET L!Flags
  BY <1>1 DEF LabInv, LabTypes, Arguments, L!Locals
<1>3. /\ ~L!Lists(stateFile, Node) \/ Node \notin host.netns => Node \notin host.eth0
      /\ Node \in Nat
  <2>1. stateFile = TheRecord => Node \in 1..stateFile.nodes
    BY DEF TheRecord, Node, NodeOf
  <2>2. ~L!Lists(stateFile, Node) => stateFile = NoState
    BY <1>2, <2>1 DEF L!Lists
  <2>3. Node \notin host.netns => Node \notin host.eth0
    BY <1>2 DEF Sound
  <2> QED
    BY <1>2, <2>2, <2>3 DEF Node, NodeOf
<1>4. ASSUME L!Fail(p), UNCHANGED <<host, stateFile, crashes>>, Fault \/ Node \notin host.eth0
      PROVE  ImpairEffect(p)
  <2>1. LabInv' /\ OnlyMoves(p) /\ pc'[p] = "idle" /\ result'[p] = "error"
    BY <1>1, <1>2, <1>4, ReturnKeepsLab DEF L!Fail
  <2> QED
    BY <1>4, <2>1 DEF ImpairEffect
<1>5. ASSUME NEW l \in L!ImpairLabels, L!Goto(p, l), UNCHANGED <<host, stateFile, crashes>>
      PROVE  ImpairEffect(p)
  <2>1. /\ LabInv' /\ OnlyMoves(p)
        /\ pc'[p] = l /\ loc'[p] = loc[p] /\ result'[p] = result[p]
    BY <1>1, <1>5, GotoKeepsLab
  <2> QED
    BY <1>5, <2>1 DEF ImpairEffect
<1>6. ASSUME Node \in host.eth0, NEW flags \in SUBSET L!Flags, host' = L!Netem(host, Node, flags),
             NEW r \in L!Results, L!Return(p, r), UNCHANGED <<stateFile, crashes>>
      PROVE  /\ LabInv' /\ OnlyMoves(p) /\ stateFile' = stateFile
             /\ host'.netns = host.netns /\ host'.eth0 = host.eth0 /\ host'.veth = host.veth
             /\ pc'[p] = "idle" /\ result'[p] = r /\ host'.qdisc[Node] = flags
  <2>1. /\ host' \in L!HostStates /\ Sound(host')
        /\ host'.netns = host.netns /\ host'.eth0 = host.eth0 /\ host'.veth = host.veth
        /\ host'.qdisc[Node] = flags
    BY <1>2, <1>3, <1>6, HostCommands
  <2>2. LabInv' /\ OnlyMoves(p) /\ pc'[p] = "idle" /\ result'[p] = r
    BY <1>2, <1>6, <2>1, ReturnKeepsLab
  <2> QED
    BY <1>6, <2>1, <2>2
<1>7. CASE L!ImpairLoad(p)
  BY <1>1, <1>3, <1>4, <1>5, <1>7 DEF L!ImpairLoad, L!Ask, L!Fault, Fault
<1>8. CASE L!ImpairNamespace(p)
  BY <1>1, <1>3, <1>4, <1>5, <1>8 DEF L!ImpairNamespace, L!Ask, L!Fault, Fault
<1>9. CASE L!ApplyNetem(p)
  <2>1. CASE L!Fail(p) /\ UNCHANGED host /\ (Fault \/ Node \notin host.eth0)
    BY <1>4, <1>9, <2>1 DEF L!ApplyNetem
  <2>2. CASE Node \in host.eth0 /\ host' = L!Netem(host, Node, loc[p].flags)
             /\ L!Return(p, "applied")
    BY <1>1, <1>2, <1>6, <1>9, <2>2 DEF L!ApplyNetem, ImpairEffect
  <2> QED
    BY <1>9, <2>1, <2>2 DEF L!ApplyNetem, L!Run, L!Fault, Fault
<1>10. CASE L!ClearNetem(p)
  <2> DEFINE r == IF host.qdisc[Node] = {} THEN "absent" ELSE "cleared"
  <2>1. CASE L!Fail(p) /\ UNCHANGED host /\ (Fault \/ Node \notin host.eth0)
    BY <1>4, <1>10, <2>1 DEF L!ClearNetem
  <2>2. CASE Node \in host.eth0 /\ host' = L!Netem(host, Node, {}) /\ L!Return(p, r)
    <3>1. r \in L!Results /\ {} \in SUBSET L!Flags
      BY <1>1
    <3>2. /\ LabInv' /\ OnlyMoves(p) /\ stateFile' = stateFile
          /\ host'.netns = host.netns /\ host'.eth0 = host.eth0 /\ host'.veth = host.veth
          /\ pc'[p] = "idle" /\ result'[p] = r /\ host'.qdisc[Node] = {}
      BY <1>6, <1>10, <2>2, <3>1 DEF L!ClearNetem
    <3> QED
      BY <1>10, <3>2 DEF ImpairEffect, L!ClearNetem
  <2> QED
    BY <1>10, <2>1, <2>2 DEF L!ClearNetem, L!Run, L!Fault, Fault
<1> QED
  BY <1>7, <1>8, <1>9, <1>10 DEF L!ImpairStep

\* An invocation starts.
LEMMA StartDoes ==
    ASSUME LabInv, NEW p \in Everyone, NEW op, NEW first, NEW i, NEW flags,
           \/ op \in {"apply", "clear"} /\ first = "tLoad" /\ i \in {1, 2}
           \/ op = "destroy" /\ first = "dLoad" /\ i = 0,
           flags \in SUBSET L!Flags, L!Start(p, op, first, i, flags)
    PROVE  /\ LabInv' /\ OnlyMoves(p) /\ UNCHANGED <<host, stateFile, faults>>
           /\ pc'[p] = first /\ result'[p] = "none"
           /\ loc'[p].op = op /\ loc'[p].n = i /\ loc'[p].flags = flags
<1> DEFINE v == [L!Blank EXCEPT !.op = op, !.n = i, !.flags = flags]
<1>1. UNCHANGED <<host, stateFile, undo, faults, crashes>> /\ Moved(p, first, v, "none")
  BY DEF L!Start, Moved
<1>2. /\ v \in L!Locals /\ v.op = op /\ v.n = i /\ v.flags = flags
      /\ v.at = 1 /\ v.seen = NoState
  <2>1. L!Blank \in L!Locals
    BY MovesAre DEF LabInv
  <2>2. op \in {"apply", "clear", "destroy"} /\ i \in Nat
    OBVIOUS
  <2>3. v \in L!Locals
    BY <2>1, <2>2 DEF L!Locals
  <2> QED
    BY <2>3 DEF L!Blank
<1>3. Arguments(first, v) /\ ~Past(first, v)
  BY <1>2 DEF Arguments, Past, L!ImpairLabels, L!RecordedLabels, L!FallbackLabels
<1>4. first \in CallLabels /\ "none" \in L!Results
  BY DEF CallLabels, L!ImpairLabels, L!DestroyLabels, L!SharedLabels, L!Results
<1>5. /\ stateFile \in {NoState, TheRecord} /\ crashes \in 0..MaxCrashes
      /\ host \in L!HostStates /\ Sound(host)
      /\ stateFile = NoState => Node \notin host.netns
  BY DEF LabInv, LabTypes
<1> HIDE DEF v
<1>6. /\ LabInv' /\ OnlyMoves(p) /\ pc'[p] = first /\ result'[p] = "none" /\ loc'[p] = v
  BY <1>1, <1>2, <1>3, <1>4, <1>5, MoveKeepsLab DEF OnlyMoves
<1> QED
  BY <1>1, <1>2, <1>6

LEMMA DrainDoes ==
    ASSUME LabInv, NEW i \in {1, 2}, L!Drain(i)
    PROVE  /\ LabInv' /\ Less(host', host) /\ host.veth[i] = "dying"
           /\ UNCHANGED <<stateFile, pc, loc, result, faults>>
<1>1. /\ host.veth[i] = "dying" /\ host' = L!PeerDel(host, i)
      /\ UNCHANGED <<stateFile, pc, undo, loc, result, faults, crashes>>
  BY DEF L!Drain
<1>2. host' \in L!HostStates /\ Sound(host') /\ Less(host', host)
  BY <1>1, HostCommands DEF LabInv, LabTypes
<1> QED
  BY <1>1, <1>2 DEF LabInv, LabTypes, Less

-----------------------------------------------------------------------------
(* The calls of the run and those of the others.                           *)

\* A call of the run is for its node, with the condition, from its phase.
CallInv ==
    /\ pc[Me] \in {"idle"} \cup L!ImpairLabels
    /\ pc[Me] # "idle" =>
        /\ loc[Me].n = Node
        /\ \/ run = "impaired" /\ loc[Me].op = "apply" /\ loc[Me].flags = condition
           \/ run \in {"recovery", "cleaned"} /\ loc[Me].op = "clear"

\* The others impair the same node, in another way.
OthersInv ==
    \A p \in Others :
        /\ pc[p] # "idle" => result[p] = "none"
        /\ pc[p] \in L!ImpairLabels =>
            /\ loc[p].n = Node
            /\ loc[p].op = "apply" => loc[p].flags = {"loss"}

ConditionInv ==
    /\ condition = {} \/ \E flags \in Given : condition = Normalized(flags)
    /\ run = "validate" => condition = {}

CallsInv == LabInv /\ CallInv /\ OthersInv /\ ConditionInv

\* What impairs the node, if anything, is somebody else's.
LooseClean ==
    host.qdisc[Node] # {} =>
        host.qdisc[Node] = {"loss"} /\ \E p \in Others : result[p] = "applied"

Used == MaxFaults - faults

\* A call to clear the node has ended, or the apply has failed.
Swept ==
    \/ run \in {"skip", "cleanup"}
    \/ run = "impaired" /\ pc[Me] = "idle" /\ result[Me] # "applied"
    \/ run = "recovery" /\ pc[Me] = "idle"
    \/ run = "cleaned"

\* Another one has ended after that.
SweptAgain ==
    \/ run = "cleaned" /\ pc[Me] = "idle"
    \/ run \in {"wait"} \cup Ending /\ Recorded("baseline")
    \/ Returned

\* It takes one fault to spoil the first sweep, and another for the second.
CleanInv ==
    /\ Swept => LooseClean \/ Used >= 1
    /\ SweptAgain => LooseClean \/ Used >= 2

\* The lab of the run as create has left it.
Intact ==
    /\ stateFile = TheRecord
    /\ host.netns = {1, 2} /\ host.eth0 = {1, 2}
    /\ \A i \in {1, 2} : host.veth[i] = "moved"

\* No call has changed the node yet; the condition is in force; a clear has
\* ended well.
NotYet ==
    \/ run \in BeforePeers \cup {"ready", "baseline", "apply", "abort", "skip"}
    \/ run = "impaired" /\ (pc[Me] # "idle" \/ result[Me] # "applied")
InForce ==
    \/ run = "impaired" /\ pc[Me] = "idle" /\ result[Me] = "applied"
    \/ run = "clear"
    \/ run = "recovery" /\ pc[Me] # "idle"
Lifted ==
    \/ /\ run \in {"recovery", "cleaned"} /\ pc[Me] = "idle"
       /\ result[Me] \in {"cleared", "absent"}
    \/ Has("recovery", "cleared") \/ Has("cleanup", "cleared") \/ Has("cleanup", "absent")

\* With nobody beside the run the lab is whole, the node is impaired by the
\* run's own calls only, and there is nothing to clear twice.
QuietInv ==
    Undisturbed =>
        /\ Intact
        /\ NotYet => host.qdisc[Node] \in Before
        /\ InForce => host.qdisc[Node] = condition
        /\ Lifted => host.qdisc[Node] = {}
        /\ Has("recovery", "cleared") =>
            /\ run = "cleaned" /\ pc[Me] = "idle" => result[Me] # "cleared"
            /\ ~Has("cleanup", "cleared")

\* Nothing has failed, no wait has timed out, nobody else has run a command,
\* and the condition can be applied.
Fine == Smooth /\ Undisturbed /\ ValidCondition(condition)

\* Then the run has met no error, its calls do what they are for, and nobody
\* cancels the peers before they have ended.
SmoothInv ==
    Fine =>
        /\ ~runErr
        /\ AllWell
        /\ cancelled => run \in Ending \cup RunEnds /\ WaitedFor
        /\ run = "impaired" /\ pc[Me] = "idle" => result[Me] = "applied"
        /\ run \in {"recovery", "cleaned"} /\ pc[Me] = "idle" =>
            result[Me] \in {"cleared", "absent"}

-----------------------------------------------------------------------------
(* Which step it is.                                                       *)

\* A step of the run or of a peer beside its calls: where the run goes, and what
\* it records on its way.
Writes(phase, status) ==
    events' = events \/ events' = Append(events, <<phase, status>>)

Passes ==
    \/ run' = run /\ events' = events
    \/ /\ run \in BeforePeers \cup {"ready", "baseline"}
       /\ run' \in (BeforePeers \ {"validate"}) \cup {"ready", "baseline", "abort"}
       /\ events' = events
    \/ run \in BeforePeers \cup {"abort"} /\ run' = "returned" /\ events' = events
    \/ run = "baseline" /\ run' = "apply" /\ Writes("baseline", "ok")
    \/ /\ run = "impaired" /\ pc[Me] = "idle"
       /\ \/ run' = "clear" /\ result[Me] = "applied" /\ Writes("impaired", "ok")
          \/ run' = "skip" /\ result[Me] # "applied" /\ Writes("impaired", "error")
    \/ run = "recovery" /\ pc[Me] = "idle" /\ run' = "cleanup" /\ Writes("recovery", ClearStatus)
    \/ run = "skip" /\ run' = "cleanup" /\ Writes("recovery", "skipped")
    \/ run = "cleaned" /\ pc[Me] = "idle" /\ run' = "wait" /\ Writes("cleanup", ClearStatus)
    \/ /\ <<run, run'>> \in {<<"wait", "merge">>, <<"merge", "close">>, <<"close", "returned">>}
       /\ events' = events

Aside == Passes /\ UNCHANGED <<condition, labVars>> /\ (faults' = faults \/ Fault)

\* The run calls apply or clear.
Calling ==
    \E op, flags, next :
        /\ Call(op, flags, next) /\ run' = next
        /\ \/ run = "apply" /\ op = "apply" /\ flags = condition /\ next = "impaired"
           \/ run = "clear" /\ op = "clear" /\ flags = {} /\ next = "recovery"
           \/ run = "cleanup" /\ op = "clear" /\ flags = {} /\ next = "cleaned"

LEMMA PeersSpend ==
    ASSUME ScenarioInv, NEW r \in Roles,
           \/ PeerStep(r) \/ Timeout(r) \/ SdpUnreadable(r) \/ Hear(r) \/ Handshake
           \/ Spawn(r, TRUE) \/ Spawn(r, FALSE) \/ Kill(r) \/ Reap(r)
    PROVE  faults' = faults \/ Fault
<1>1. CASE PeerStep(r)
  BY <1>1 DEF PeerStep, Create, Gather, Write, Commit, Accept, Connected, Opened, WriteMarker,
              CommitMarker, OpenLog, FirstSample, Tick, Deadline, CloseLog, Try, Publish, Log
<1>2. CASE Timeout(r) \/ SdpUnreadable(r) \/ Hear(r) \/ Handshake \/ Kill(r) \/ Reap(r)
  BY <1>2 DEF Timeout, SdpUnreadable, Hear, Handshake, Kill, Reap
<1>3. CASE Spawn(r, TRUE) \/ Spawn(r, FALSE)
  BY <1>3 DEF Spawn
<1> QED
  BY <1>1, <1>2, <1>3

LEMMA StepIs ==
    ASSUME ScenarioInv, [Next]_vars
    PROVE  \/ Aside \/ Validate \/ Calling \/ CallStep \/ Crash \/ Drain
           \/ \E p \in Others : Elsewhere(p)
<1> USE DEF At, To, ToWith, BeforePeers
<1>1. CASE OnlyRun /\ \/ Prepare("launch") \/ Launch("ready", "baseline") \/ Ready("baseline")
                       \/ Wait \/ Merge("close") \/ CloseEvents
                       \/ MarkerUnreadable("baseline") \/ ReadyTimeout("baseline")
  <2>1. faults' = faults \/ Fault
    BY <1>1 DEF Prepare, Launch, Ready, Wait, Merge, CloseEvents, MarkerUnreadable, ReadyTimeout,
                peerVars
  <2>2. Passes
    BY <1>1 DEF Prepare, Launch, Ready, Wait, Merge, CloseEvents, MarkerUnreadable, ReadyTimeout,
                GiveUp, Passes
  <2> QED
    BY <1>1, <2>1, <2>2 DEF Aside, OnlyRun
<1>2. CASE ValidateNamespaces \/ Abort
  <2>1. Passes /\ (faults' = faults \/ Fault)
    BY <1>2 DEF ValidateNamespaces, Abort, Passes, peerVars
  <2> QED
    BY <1>2, <2>1 DEF Aside, OnlyRun, ValidateNamespaces, Abort
<1>3. ASSUME NEW name, NEW status, NEW failed, NEW ok, NEW err,
             Phase(name, status, failed, ok, err)
      PROVE  /\ UNCHANGED <<condition, labVars>> /\ (faults' = faults \/ Fault)
             /\ \/ run' = ok /\ Writes(name, status)
                \/ run' = err /\ events' = events
  BY <1>3 DEF Phase, Record, OnlyRun, Writes
<1>4. CASE Baseline \/ Impaired \/ Recovery \/ Skip \/ Cleaned
  <2>1. CASE Baseline
    BY <1>3, <2>1 DEF Baseline, Aside, Passes
  <2>2. CASE Impaired
    BY <1>3, <2>2 DEF Impaired, Called, Aside, Passes, Writes
  <2>3. CASE Recovery
    BY <1>3, <2>3 DEF Recovery, Called, Aside, Passes, Writes
  <2>4. CASE Skip
    BY <1>3, <2>4 DEF Skip, Aside, Passes, Writes
  <2>5. CASE Cleaned
    BY <1>3, <2>5 DEF Cleaned, Called, Aside, Passes, Writes
  <2> QED
    BY <1>4, <2>1, <2>2, <2>3, <2>4, <2>5
<1>5. CASE Apply \/ Clear \/ Cleanup
  <2>1. \A op, flags, next : Call(op, flags, next) => run' = next
    BY DEF Call
  <2> QED
    BY <1>5, <2>1 DEF Apply, Clear, Cleanup, Calling
<1>6. CASE Network \/ \E r \in Roles : PeerNext(r) \/ Supervise(r)
  <2>1. PICK r \in Roles : Still /\ \/ PeerStep(r) \/ Timeout(r) \/ SdpUnreadable(r) \/ Hear(r) \/ Handshake
                                    \/ Spawn(r, TRUE) \/ Spawn(r, FALSE) \/ Kill(r) \/ Reap(r)
    BY <1>6 DEF Network, PeerNext, PeerTimer, Supervise, Roles, Spawn
  <2> QED
    BY <2>1, PeersSpend DEF Aside, Passes, Still, runVars
<1>7. CASE Over \/ UNCHANGED vars
  BY <1>7 DEF Over, vars, Aside, Passes, runVars, peerVars
<1> QED
  BY <1>1, <1>2, <1>4, <1>5, <1>6, <1>7 DEF Next, RunStep, Timer

-----------------------------------------------------------------------------
(* What the calls and the others do; each keeps CallsInv.                  *)

LEMMA ConditionIs ==
    ASSUME ConditionInv
    PROVE  condition \in SUBSET L!Flags /\ ({"loss"} \notin Given => condition # {"loss"})
<1>1. ASSUME NEW flags \in Given
      PROVE  /\ Normalized(flags) \in SUBSET L!Flags
             /\ {"loss"} \notin Given => Normalized(flags) # {"loss"}
  BY ScenarioAssumption DEF Normalized, L!Flags
<1>2. {} \in SUBSET L!Flags
  OBVIOUS
<1> QED
  BY <1>1, <1>2 DEF ConditionInv

LEMMA StepOfCall ==
    ASSUME CallsInv, NEW p \in Everyone, L!Step(p)
    PROVE  \/ L!DestroyStep(p)
           \/ L!ImpairStep(p) /\ pc[p] \in L!ImpairLabels /\ loc[p].n = Node
<1>1. pc[p] \in {"idle"} \cup L!DestroyLabels \cup L!ImpairLabels
  BY DEF CallsInv, LabInv, LabTypes, CallLabels
<1>2. ~L!CreateStep(p)
  BY <1>1
  DEF L!CreateStep, L!CreateLoad, L!CreateBridgeExists, L!CreateListNamespaces, L!AddBridge,
      L!SetBridge, L!ReadForward, L!EnableForward, L!EnsureRule, L!AddRule, L!AddNetns,
      L!AddVeth, L!MoveVeth, L!EnslavePeer, L!RenameVeth, L!PingBridge, L!SaveState, L!Rollback,
      L!DestroyLabels, L!RecordedLabels, L!FallbackLabels, L!SharedLabels, L!ImpairLabels
<1>3. L!ImpairStep(p) => pc[p] \in L!ImpairLabels
  BY DEF L!ImpairStep, L!ImpairLoad, L!ImpairNamespace, L!ApplyNetem, L!ClearNetem,
         L!ImpairLabels
<1>4. pc[p] \in L!ImpairLabels => loc[p].n = Node
  <2>1. CASE p = Me
    BY <2>1 DEF CallsInv, CallInv, L!ImpairLabels
  <2>2. CASE p \in Others
    BY <2>2 DEF CallsInv, OthersInv
  <2> QED
    BY <2>1, <2>2 DEF Everyone
<1> QED
  BY <1>2, <1>3, <1>4 DEF L!Step

LEMMA AsideKeepsCalls == CallsInv /\ Aside => CallsInv'
<1> SUFFICES ASSUME CallsInv, Aside PROVE CallsInv'
  OBVIOUS
<1> USE DEF CallsInv, Aside, labVars
<1>1. LabInv'
  BY DEF LabInv, LabTypes
<1>2. pc[Me] # "idle" => run' = run
  BY DEF CallInv, Passes, BeforePeers
<1>3. CallInv'
  BY <1>2 DEF CallInv
<1>4. OthersInv'
  BY DEF OthersInv
<1>5. run' = "validate" => run = "validate"
  BY DEF Passes
<1> QED
  BY <1>1, <1>3, <1>4, <1>5 DEF ConditionInv

LEMMA ValidateKeepsCalls == CallsInv /\ Validate => CallsInv'
<1> SUFFICES ASSUME CallsInv, Validate PROVE CallsInv'
  OBVIOUS
<1>1. /\ run = "validate" /\ run' \in {"namespaces", "returned"} /\ UNCHANGED labVars
      /\ \E flags \in Given : condition' = Normalized(flags)
  BY DEF Validate, At, To, ToWith
<1> USE <1>1 DEF CallsInv, labVars
<1>2. LabInv'
  BY DEF LabInv, LabTypes
<1>3. CallInv' /\ OthersInv' /\ ConditionInv'
  BY DEF CallInv, OthersInv, ConditionInv
<1> QED
  BY <1>2, <1>3

\* A step of the run's own call.
LEMMA CallStepDoes ==
    ASSUME CallsInv, CallStep
    PROVE  CallsInv' /\ ImpairEffect(Me)
<1>1. /\ pc[Me] # "idle" /\ pc[Me] \in L!ImpairLabels /\ L!Step(Me) /\ loc[Me].n = Node
      /\ UNCHANGED <<run, condition>> /\ Me \in Everyone
  BY DEF CallStep, CallsInv, CallInv, runVars, Everyone
<1>2. ~L!DestroyStep(Me)
  BY <1>1
  DEF L!DestroyStep, L!DestroyLoad, L!DeleteNode, L!DestroyBridgeExists, L!FallbackBridgeExists,
      L!ListMembers, L!DeletePeer, L!BridgeDown, L!DeleteBridge, L!CheckRule, L!DeleteRule,
      L!RestoreForward, L!DeleteStateFile, L!ImpairLabels
<1>3. ImpairEffect(Me)
  BY <1>1, <1>2, StepOfCall, ImpairDoes DEF CallsInv
<1>4. CallInv'
  BY <1>1, <1>3 DEF ImpairEffect, CallsInv, CallInv
<1>5. OthersInv'
  BY <1>3, ScenarioAssumption DEF ImpairEffect, OnlyMoves, Everyone, CallsInv, OthersInv
<1>6. ConditionInv'
  BY <1>1 DEF CallsInv, ConditionInv
<1> QED
  BY <1>3, <1>4, <1>5, <1>6 DEF CallsInv, ImpairEffect

\* A step of somebody else.
OtherEffect(p) ==
    /\ OnlyMoves(p) /\ UNCHANGED <<run, runErr, events, condition, cancelled, late>>
    /\ ~Undisturbed'
    /\ \/ Less(host', host) /\ (result[p] = "applied" => result'[p] = "applied")
       \/ /\ host'.qdisc[Node] = {"loss"} /\ result'[p] = "applied"
          /\ host'.netns = host.netns /\ host'.eth0 = host.eth0
       \/ /\ host'.qdisc[Node] = {} /\ result[p] # "applied"
          /\ host'.netns = host.netns /\ host'.eth0 = host.eth0

LEMMA OtherDoes ==
    ASSUME CallsInv, NEW p \in Others, Elsewhere(p)
    PROVE  CallsInv' /\ OtherEffect(p)
<1>1. /\ p \in Everyone /\ p # Me /\ Me \in Everyone
      /\ UNCHANGED <<run, runErr, events, condition, cancelled, late>>
  BY ScenarioAssumption DEF Elsewhere, Everyone, runVars
<1>2. ASSUME LabInv', OnlyMoves(p),
             pc'[p] # "idle" => result'[p] = "none",
             pc'[p] \in L!ImpairLabels =>
                loc'[p].n = Node /\ (loc'[p].op = "apply" => loc'[p].flags = {"loss"})
      PROVE  CallsInv'
  <2>1. pc'[Me] = pc[Me] /\ loc'[Me] = loc[Me]
    BY <1>1, <1>2 DEF OnlyMoves
  <2>2. CallInv' /\ ConditionInv'
    BY <1>1, <2>1 DEF CallsInv, CallInv, ConditionInv
  <2>3. OthersInv'
    BY <1>2 DEF CallsInv, OthersInv, OnlyMoves, Everyone
  <2> QED
    BY <1>2, <2>2, <2>3 DEF CallsInv
<1>3. ASSUME pc'[p] # "idle" \/ result'[p] # "none" PROVE ~Undisturbed'
  BY <1>3 DEF Undisturbed
<1>4. CASE pc[p] # "idle" /\ L!Step(p)
  <2>0. result[p] = "none"
    BY <1>4 DEF CallsInv, OthersInv
  <2>1. CASE L!DestroyStep(p)
    <3>1. DestroyEffect(p)
      BY <1>1, <2>1, DestroyDoes DEF CallsInv
    <3>2. CallsInv'
      BY <1>2, <2>0, <3>1
      DEF DestroyEffect, L!DestroyLabels, L!RecordedLabels, L!FallbackLabels, L!SharedLabels,
          L!ImpairLabels
    <3>3. ~Undisturbed'
      BY <1>3, <3>1
      DEF DestroyEffect, L!DestroyLabels, L!RecordedLabels, L!FallbackLabels, L!SharedLabels
    <3> QED
      BY <1>1, <2>0, <3>1, <3>2, <3>3 DEF OtherEffect, DestroyEffect
  <2>2. CASE L!ImpairStep(p) /\ pc[p] \in L!ImpairLabels /\ loc[p].n = Node
    <3>1. ImpairEffect(p)
      BY <1>1, <2>2, ImpairDoes DEF CallsInv
    <3>2. loc[p].op = "apply" => loc[p].flags = {"loss"}
      BY <2>2 DEF CallsInv, OthersInv
    <3>3. CallsInv'
      BY <1>2, <2>0, <2>2, <3>1, <3>2 DEF ImpairEffect, L!ImpairLabels
    <3>4. ~Undisturbed'
      BY <1>3, <3>1 DEF ImpairEffect, L!ImpairLabels
    <3> QED
      BY <1>1, <2>0, <3>1, <3>2, <3>3, <3>4 DEF OtherEffect, ImpairEffect, Less
  <2> QED
    BY <1>1, <1>4, <2>1, <2>2, StepOfCall
<1>5. CASE /\ result[p] = "none"
           /\ L!StartApply(p) \/ L!StartClear(p) \/ L!StartDestroy(p)
           /\ loc'[p].n \in {0, Node}
  <2>1. PICK op, first, i, flags :
          /\ L!Start(p, op, first, i, flags) /\ flags \in SUBSET L!Flags
          /\ \/ /\ op \in {"apply", "clear"} /\ first = "tLoad" /\ i \in {1, 2}
                /\ op = "apply" => flags = {"loss"}
             \/ op = "destroy" /\ first = "dLoad" /\ i = 0
    BY <1>5 DEF L!StartApply, L!StartClear, L!StartDestroy, L!Nodes, L!Flags
  <2>2. /\ LabInv' /\ OnlyMoves(p) /\ UNCHANGED host
        /\ pc'[p] = first /\ result'[p] = "none"
        /\ loc'[p].op = op /\ loc'[p].n = i /\ loc'[p].flags = flags
    BY <1>1, <2>1, StartDoes DEF CallsInv
  <2>3. CallsInv'
    BY <1>2, <1>5, <2>1, <2>2 DEF L!ImpairLabels
  <2>4. ~Undisturbed'
    BY <1>3, <2>1, <2>2
  <2> QED
    BY <1>1, <1>5, <2>2, <2>3, <2>4 DEF OtherEffect, Less
<1> QED
  BY <1>4, <1>5 DEF Elsewhere

\* The run starts a call, or the call fails at once.
CallEffect ==
    /\ <<run, run'>> \in {<<"apply", "impaired">>, <<"clear", "recovery">>,
                         <<"cleanup", "cleaned">>}
    /\ OnlyMoves(Me) /\ pc[Me] = "idle"
    /\ UNCHANGED <<host, stateFile, events, condition>>
    /\ \/ pc'[Me] # "idle" /\ UNCHANGED faults
       \/ pc'[Me] = "idle" /\ result'[Me] = "error" /\ Fault

LEMMA CallingDoes ==
    ASSUME CallsInv, Calling
    PROVE  CallsInv' /\ CallEffect
<1>1. Me \in Everyone
  BY DEF Everyone
<1>2. PICK op, flags, next :
        /\ Call(op, flags, next) /\ run' = next
        /\ \/ run = "apply" /\ op = "apply" /\ flags = condition /\ next = "impaired"
           \/ run = "clear" /\ op = "clear" /\ flags = {} /\ next = "recovery"
           \/ run = "cleanup" /\ op = "clear" /\ flags = {} /\ next = "cleaned"
  BY DEF Calling
<1>3. pc[Me] = "idle" /\ UNCHANGED <<events, condition>>
  BY <1>2 DEF CallsInv, CallInv, Call
<1>4. CASE L!Start(Me, op, "tLoad", Node, flags)
  <2>1. flags \in SUBSET L!Flags /\ Node \in {1, 2} /\ op \in {"apply", "clear"}
    BY <1>2, ConditionIs DEF CallsInv, Node, NodeOf
  <2>2. /\ LabInv' /\ OnlyMoves(Me) /\ UNCHANGED <<host, stateFile, faults>>
        /\ pc'[Me] = "tLoad" /\ result'[Me] = "none"
        /\ loc'[Me].op = op /\ loc'[Me].n = Node /\ loc'[Me].flags = flags
    BY <1>1, <1>4, <2>1, StartDoes DEF CallsInv
  <2>3. CallInv' /\ ConditionInv'
    BY <1>2, <1>3, <2>2 DEF CallsInv, CallInv, ConditionInv, L!ImpairLabels
  <2>4. OthersInv'
    BY <2>2, ScenarioAssumption DEF CallsInv, OthersInv, OnlyMoves, Everyone
  <2> QED
    BY <1>2, <1>3, <2>2, <2>3, <2>4 DEF CallsInv, CallEffect
<1>5. CASE Fault /\ L!Fail(Me) /\ UNCHANGED <<host, stateFile, crashes>>
  <2>1. /\ host \in L!HostStates /\ Sound(host) /\ crashes \in 0..MaxCrashes
        /\ "error" \in L!Results
    BY DEF CallsInv, LabInv, LabTypes, L!Results
  <2>2. LabInv' /\ OnlyMoves(Me) /\ pc'[Me] = "idle" /\ result'[Me] = "error"
    BY <1>1, <1>5, <2>1, ReturnKeepsLab DEF CallsInv, L!Fail
  <2>3. CallInv' /\ ConditionInv'
    BY <1>2, <1>3, <2>2 DEF CallsInv, CallInv, ConditionInv
  <2>4. OthersInv'
    BY <2>2, ScenarioAssumption DEF CallsInv, OthersInv, OnlyMoves, Everyone
  <2> QED
    BY <1>2, <1>3, <1>5, <2>2, <2>3, <2>4 DEF CallsInv, CallEffect
<1> QED
  BY <1>2, <1>4, <1>5 DEF Call

LEMMA CrashDoes ==
    ASSUME CallsInv, Crash
    PROVE  /\ CallsInv' /\ OnlyMoves(Me) /\ pc'[Me] = "idle" /\ run' = "crashed"
           /\ UNCHANGED <<host, stateFile, events, condition, faults>>
<1>1. /\ L!Return(Me, "crashed") /\ crashes' \in 0..MaxCrashes /\ run' = "crashed"
      /\ UNCHANGED <<host, stateFile, events, condition, faults>>
  BY ScenarioAssumption DEF Crash, CallsInv, LabInv, LabTypes, peerVars
<1>2. /\ host \in L!HostStates /\ Sound(host) /\ "crashed" \in L!Results /\ Me \in Everyone
  BY DEF CallsInv, LabInv, LabTypes, L!Results, Everyone
<1>3. LabInv' /\ OnlyMoves(Me) /\ pc'[Me] = "idle"
  BY <1>1, <1>2, ReturnKeepsLab DEF CallsInv
<1>4. CallInv' /\ ConditionInv'
  BY <1>1, <1>3 DEF CallsInv, CallInv, ConditionInv
<1>5. OthersInv'
  BY <1>3, ScenarioAssumption DEF CallsInv, OthersInv, OnlyMoves, Everyone
<1> QED
  BY <1>1, <1>3, <1>4, <1>5 DEF CallsInv

LEMMA DrainKeepsCalls ==
    ASSUME CallsInv, Drain
    PROVE  /\ CallsInv' /\ Less(host', host)
           /\ \E i \in {1, 2} : host.veth[i] = "dying"
           /\ UNCHANGED <<stateFile, pc, result, faults, run, events, condition>>
<1>1. PICK i \in {1, 2} : L!Drain(i)
  BY DEF Drain, NodeOf
<1>2. /\ LabInv' /\ Less(host', host) /\ host.veth[i] = "dying"
      /\ UNCHANGED <<stateFile, pc, loc, result, faults>>
  BY <1>1, DrainDoes DEF CallsInv
<1>3. UNCHANGED <<run, events, condition>>
  BY DEF Drain, runVars
<1>4. CallInv' /\ ConditionInv' /\ OthersInv'
  BY <1>2, <1>3 DEF CallsInv, CallInv, ConditionInv, OthersInv
<1> QED
  BY <1>2, <1>3, <1>4 DEF CallsInv

-----------------------------------------------------------------------------
(* What is left on the node.                                               *)

LEMMA UsedGrows ==
    ASSUME ScenarioInv, faults' = faults \/ Fault
    PROVE  /\ Used \in Nat /\ Used' \in Nat /\ Used <= Used'
           /\ Fault => Used' = Used + 1
  BY PeersAssumption DEF ScenarioInv, PeersInv, PeersTypeOK, Used, Fault

\* Nobody gets the node dirtier but by an apply of his own.
LEMMA LooseCleanKept ==
    ASSUME LooseClean, Me \notin Others,
           \/ host' = host /\ OnlyMoves(Me)
           \/ UNCHANGED labVars
           \/ Less(host', host) /\ UNCHANGED result
           \/ \E p \in Others : OtherEffect(p)
    PROVE  LooseClean'
<1>1. CASE host' = host /\ OnlyMoves(Me)
  BY <1>1 DEF LooseClean, OnlyMoves, Everyone
<1>2. CASE UNCHANGED labVars
  BY <1>2 DEF LooseClean, labVars
<1>3. CASE Less(host', host) /\ UNCHANGED result
  BY <1>3 DEF LooseClean, Less
<1>4. ASSUME NEW p \in Others, OtherEffect(p) PROVE LooseClean'
  <2>1. \A q \in Others \ {p} : result'[q] = result[q]
    BY <1>4 DEF OtherEffect, OnlyMoves, Everyone
  <2>2. CASE Less(host', host) /\ (result[p] = "applied" => result'[p] = "applied")
    BY <2>1, <2>2 DEF LooseClean, Less
  <2>3. CASE host'.qdisc[Node] = {"loss"} /\ result'[p] = "applied"
    BY <2>3 DEF LooseClean
  <2>4. CASE host'.qdisc[Node] = {}
    BY <2>4 DEF LooseClean
  <2> QED
    BY <1>4, <2>2, <2>3, <2>4 DEF OtherEffect
<1> QED
  BY <1>1, <1>2, <1>3, <1>4

LEMMA InitClean == Init => CleanInv
  BY DEF Init, RunsInit, CleanInv, Swept, SweptAgain, Ending, Returned

LEMMA StepKeepsClean ==
    ASSUME ScenarioInv, CallsInv, CleanInv, [Next]_vars
    PROVE  CleanInv'
<1> USE ScenarioAssumption DEF CleanInv
<1>0. Expected(run) = 0 => ~Recorded("baseline")
  BY DEF ScenarioInv, RunTypes, OrderInv, Recorded
<1>1. CASE Aside
  <2>1. LooseClean => LooseClean'
    BY <1>1, LooseCleanKept DEF Aside
  <2>2. Used \in Nat /\ Used' \in Nat /\ Used <= Used'
    BY <1>1, UsedGrows DEF Aside
  <2>3. UNCHANGED <<pc, result>>
    BY <1>1 DEF Aside, labVars
  <2>4. Swept' => Swept
    BY <1>1, <2>3 DEF Aside, Passes, Swept, BeforePeers
  <2>5. SweptAgain' => SweptAgain
    <3>1. events' = events => (Recorded("baseline")' <=> Recorded("baseline"))
      BY DEF Recorded
    <3>2. run \in BeforePeers \cup {"abort"} => ~Recorded("baseline")
      BY <1>0, ExpectedIs DEF BeforePeers
    <3> QED
      BY <1>1, <2>3, <3>1, <3>2
      DEF Aside, Passes, SweptAgain, Ending, Returned, BeforePeers
  <2> QED
    BY <2>1, <2>2, <2>4, <2>5
<1>2. CASE Validate
  <2>1. run = "validate" /\ run' \in {"namespaces", "returned"} /\ events' = events
    BY <1>2 DEF Validate, At, To, ToWith
  <2>2. ~Recorded("baseline")'
    BY <1>0, <2>1, ExpectedIs DEF Recorded
  <2> QED
    BY <2>1, <2>2 DEF Swept, SweptAgain, Ending, Returned
<1>3. CASE Calling
  <2>1. CallEffect
    BY <1>3, CallingDoes
  <2>2. LooseClean => LooseClean'
    BY <2>1, LooseCleanKept DEF CallEffect
  <2>3. /\ Used \in Nat /\ Used' \in Nat /\ Used <= Used'
        /\ Fault => Used' = Used + 1
    BY <2>1, UsedGrows DEF CallEffect
  <2>4. SweptAgain' => run = "cleanup" /\ Fault
    BY <2>1 DEF CallEffect, SweptAgain, Ending, Returned
  <2>5. Swept' => run = "cleanup" \/ Fault
    BY <2>1 DEF CallEffect, Swept
  <2>6. run = "cleanup" => Swept
    BY DEF Swept
  <2> QED
    BY <2>2, <2>3, <2>4, <2>5, <2>6
<1>4. CASE CallStep
  <2>1. /\ ImpairEffect(Me) /\ UNCHANGED <<run, events>> /\ pc[Me] # "idle"
        /\ faults' = faults \/ Fault
    BY <1>4, CallStepDoes, LabFaults DEF CallStep, runVars
  <2>2. /\ Used \in Nat /\ Used' \in Nat /\ Used <= Used'
        /\ Fault => Used' = Used + 1
    BY <2>1, UsedGrows
  <2>3. run \in {"impaired", "recovery", "cleaned"}
    BY <2>1 DEF CallsInv, CallInv
  <2>4. run = "cleaned" => Swept
    BY DEF Swept
  <2>5. CASE host' = host /\ pc'[Me] # "idle"
    <3>1. LooseClean => LooseClean'
      BY <2>1, <2>5, LooseCleanKept DEF ImpairEffect
    <3>2. (Swept' => run = "cleaned") /\ ~SweptAgain'
      BY <2>1, <2>3, <2>5 DEF Swept, SweptAgain, Ending, Returned
    <3> QED
      BY <2>2, <2>4, <3>1, <3>2
  <2>6. CASE host' = host /\ Fault
    <3>1. LooseClean => LooseClean'
      BY <2>1, <2>6, LooseCleanKept DEF ImpairEffect
    <3>2. SweptAgain' => run = "cleaned"
      BY <2>1, <2>3 DEF SweptAgain, Ending, Returned
    <3> QED
      BY <2>2, <2>4, <2>6, <3>1, <3>2
  <2>7. CASE (host' = host /\ Node \notin host.eth0) \/ host'.qdisc[Node] = {}
    <3>1. host'.qdisc[Node] = {}
      BY <2>7 DEF CallsInv, LabInv, Sound
    <3> QED
      BY <3>1 DEF LooseClean
  <2>8. CASE loc[Me].op = "apply" /\ result'[Me] = "applied"
    <3>1. run = "impaired"
      BY <2>1, <2>8 DEF CallsInv, CallInv
    <3> QED
      BY <2>1, <2>8, <3>1 DEF Swept, SweptAgain, Ending, Returned
  <2>9. pc'[Me] \in L!ImpairLabels => pc'[Me] # "idle"
    BY DEF L!ImpairLabels
  <2> QED
    BY <2>1, <2>5, <2>6, <2>7, <2>8, <2>9 DEF ImpairEffect
<1>5. CASE Crash
  <2>1. run' = "crashed"
    BY <1>5 DEF Crash
  <2> QED
    BY <2>1 DEF Swept, SweptAgain, Ending, Returned
<1>6. ASSUME LooseClean => LooseClean', faults' = faults \/ Fault,
             UNCHANGED <<run, events>>, pc'[Me] = pc[Me], result'[Me] = result[Me]
      PROVE  CleanInv'
  <2>1. Used \in Nat /\ Used' \in Nat /\ Used <= Used'
    BY <1>6, UsedGrows
  <2>2. (Swept' => Swept) /\ (SweptAgain' => SweptAgain)
    BY <1>6 DEF Swept, SweptAgain, Returned, Recorded
  <2> QED
    BY <1>6, <2>1, <2>2
<1>7. CASE Drain
  <2>1. Less(host', host) /\ UNCHANGED <<pc, result, faults, run, events>>
    BY <1>7, DrainKeepsCalls
  <2> QED
    BY <1>6, <2>1, LooseCleanKept
<1>8. ASSUME NEW p \in Others, Elsewhere(p) PROVE CleanInv'
  <2>1. OtherEffect(p)
    BY <1>8, OtherDoes
  <2>2. pc'[Me] = pc[Me] /\ result'[Me] = result[Me] /\ UNCHANGED <<run, events>>
    BY <1>8, <2>1 DEF OtherEffect, OnlyMoves, Everyone
  <2>3. faults' = faults \/ Fault
    BY <1>8, LabFaults DEF Elsewhere, L!StartApply, L!StartClear, L!StartDestroy, L!Start
  <2>4. LooseClean => LooseClean'
    BY <1>8, <2>1, LooseCleanKept
  <2> QED
    BY <1>6, <2>2, <2>3, <2>4
<1> QED
  BY <1>1, <1>2, <1>3, <1>4, <1>5, <1>7, <1>8, StepIs

-----------------------------------------------------------------------------
(* What is in force, and what the event log says of it.                    *)

LEMMA HasGrows ==
    ASSUME ScenarioInv, NEW phase \in Phases, NEW status \in Statuses, Writes(phase, status)
    PROVE  \A a, b : /\ Has(a, b)' => Has(a, b) \/ (a = phase /\ b = status)
                     /\ Has(a, b) => Has(a, b)'
<1>1. events \in Seq(Phases \X Statuses)
  BY DEF ScenarioInv, RunTypes
<1>2. CASE events' = events
  BY <1>2 DEF Has
<1>3. CASE events' = Append(events, <<phase, status>>)
  <2>1. /\ Len(events') = Len(events) + 1 /\ Len(events) \in Nat
        /\ events'[Len(events) + 1] = <<phase, status>>
        /\ \A k \in 1..Len(events) : events'[k] = events[k]
    BY <1>1, <1>3, EventsGrow
  <2>2. ASSUME NEW a, NEW b, Has(a, b)' PROVE Has(a, b) \/ (a = phase /\ b = status)
    <3>1. PICK k \in 1..Len(events') : events'[k] = <<a, b>>
      BY <2>2 DEF Has
    <3>2. CASE k = Len(events) + 1
      BY <2>1, <3>1, <3>2
    <3>3. CASE k \in 1..Len(events)
      BY <2>1, <3>1, <3>3 DEF Has
    <3> QED
      BY <2>1, <3>1, <3>2, <3>3
  <2>3. ASSUME NEW a, NEW b, Has(a, b) PROVE Has(a, b)'
    <3>1. PICK k \in 1..Len(events) : events[k] = <<a, b>>
      BY <2>3 DEF Has
    <3>2. k \in 1..Len(events') /\ events'[k] = <<a, b>>
      BY <2>1, <3>1
    <3> QED
      BY <3>2 DEF Has
  <2> QED
    BY <2>2, <2>3
<1> QED
  BY <1>2, <1>3 DEF Writes

LEMMA HasWhen ==
    ASSUME ScenarioInv
    PROVE  \A status :
            /\ Has("recovery", status) => 3 <= Expected(run)
            /\ Has("cleanup", status) => 4 <= Expected(run)
<1>1. ASSUME NEW phase, NEW status, Has(phase, status) PROVE Place(phase) <= Expected(run)
  BY <1>1 DEF Has, ScenarioInv, OrderInv
<1>2. ASSUME NEW status, Has("recovery", status) PROVE 3 <= Expected(run)
  BY <1>1, <1>2, PlaceIs
<1>3. ASSUME NEW status, Has("cleanup", status) PROVE 4 <= Expected(run)
  BY <1>1, <1>3, PlaceIs
<1> QED
  BY <1>2, <1>3

LEMMA HasSame == ASSUME events' = events PROVE \A a, b : Has(a, b)' <=> Has(a, b)
  BY DEF Has

LEMMA InitCalls == Init => CallsInv /\ QuietInv
<1> SUFFICES ASSUME Init PROVE CallsInv /\ QuietInv
  OBVIOUS
<1>1. PICK impairment \in Before : host = BuiltLab(impairment)
  BY DEF Init
<1> DEFINE veth == [i \in 1..2 |-> "moved"]
           rules == [r \in 1..1 |-> 1]
           qdisc == [i \in 1..2 |-> IF i = 1 THEN impairment ELSE {}]
<1>2. host \in [ bridge : {TRUE}, netns : {{1, 2}}, veth : {veth}, ports : {{1, 2}},
                 eth0 : {{1, 2}}, rules : {rules}, forward : {1}, qdisc : {qdisc} ]
  <2> DEFINE none == [i \in 1..2 |-> {}]
             away == [i \in 1..2 |-> "none"]
  <2>1. [none EXCEPT ![1] = impairment] = qdisc
    OBVIOUS
  <2>2. host = [ [ bridge |-> FALSE, netns |-> {}, veth |-> away, ports |-> {}, eth0 |-> {},
                   rules |-> L!OwnRules, forward |-> 0, qdisc |-> none ] EXCEPT
                   !.bridge = TRUE, !.netns = {1, 2}, !.ports = {1, 2}, !.eth0 = {1, 2},
                   !.veth = veth, !.rules = rules, !.forward = 1, !.qdisc[1] = impairment ]
    <3>1. Node = 1 /\ 1..2 = L!Nodes
      BY DEF Node, NodeOf, L!Nodes
    <3> QED
      BY <1>1, <3>1, Zenon DEF BuiltLab, L!UntouchedHost
  <2> HIDE DEF veth, rules, qdisc, none, away
  <2> QED
    BY <2>1, <2>2
<1>3. impairment \in SUBSET L!Flags
  BY ScenarioAssumption DEF L!Flags
<1>4. host \in L!HostStates
  <2>1. [i \in 1..2 |-> "moved"] \in [1..2 -> L!VethStates]
    BY DEF L!VethStates
  <2>2. [i \in 1..2 |-> IF i = 1 THEN impairment ELSE {}] \in [1..2 -> SUBSET L!Flags]
    BY <1>3
  <2>3. {1, 2} \in SUBSET (1..2) /\ [r \in 1..1 |-> 1] \in [1..1 -> Nat]
    OBVIOUS
  <2> QED
    BY <1>1, <1>2, <2>1, <2>2, <2>3, ZenonT(60) DEF L!HostStates, L!Nodes, L!Rules
<1>5. Sound(host) /\ host.qdisc[Node] = impairment /\ Intact /\ Node \in host.netns
  BY <1>1, <1>2 DEF Sound, Node, NodeOf, Intact, Init, TheRecord
<1>6. /\ pc = [p \in Everyone |-> "idle"] /\ undo = [p \in Everyone |-> <<>>]
      /\ loc = [p \in Everyone |-> L!Blank] /\ result = [p \in Everyone |-> "none"]
      /\ stateFile = TheRecord /\ crashes = MaxCrashes
      /\ run = "validate" /\ condition = {} /\ events = <<>>
  BY DEF Init, RunsInit, Everyone, TheRecord
<1>7. LabTypes
  <2>1. L!Blank \in L!Locals
    BY DEF L!Blank, L!Locals, L!Flags
  <2>2. "idle" \in CallLabels /\ "none" \in L!Results
    BY DEF CallLabels, L!Results
  <2> QED
    BY <1>4, <1>6, <2>1, <2>2, ScenarioAssumption DEF LabTypes
<1>8. LabInv
  <2>1. Arguments("idle", L!Blank) /\ ~Past("idle", L!Blank)
    BY DEF Arguments, Past, L!Blank, L!ImpairLabels, L!RecordedLabels, L!FallbackLabels
  <2>2. stateFile = NoState => Node \notin host.netns
    BY <1>6, StateAssumption DEF TheRecord, L!State, L!Nodes
  <2> QED
    BY <1>5, <1>6, <1>7, <2>1, <2>2 DEF LabInv
<1>9. CallInv /\ OthersInv /\ ConditionInv
  BY <1>6 DEF CallInv, OthersInv, ConditionInv, Everyone, L!ImpairLabels
<1>10. QuietInv
  BY <1>1, <1>5, <1>6 DEF QuietInv, InForce, Lifted, Has
<1> QED
  BY <1>8, <1>9, <1>10 DEF CallsInv

LEMMA StepKeepsQuiet ==
    ASSUME ScenarioInv, CallsInv, QuietInv, [Next]_vars
    PROVE  QuietInv'
<1> SUFFICES ASSUME Undisturbed' PROVE QuietInv'
  BY DEF QuietInv
<1>w. /\ run \in {"impaired", "clear", "recovery", "apply"} \cup BeforePeers =>
            \A s : ~Has("recovery", s) /\ ~Has("cleanup", s)
      /\ run \in {"cleanup", "cleaned"} => \A s : ~Has("cleanup", s)
  BY HasWhen, ExpectedIs DEF BeforePeers
<1>u. ASSUME OnlyMoves(Me) \/ UNCHANGED <<pc, result>>
      PROVE  Undisturbed
  BY <1>u, ScenarioAssumption DEF OnlyMoves, Undisturbed, Everyone
<1>1. CASE Aside
  <2>1. Undisturbed /\ UNCHANGED <<host, stateFile, pc, result, condition>> /\ Passes
    BY <1>1, <1>u DEF Aside, labVars
  <2>2. Intact' /\ (NotYet' => NotYet) /\ (InForce' => InForce)
    BY <2>1 DEF QuietInv, Intact, NotYet, InForce, Passes, BeforePeers
  <2>3. CASE events' = events
    <3>1. Lifted' => Lifted
      BY <2>1, <2>3, HasSame DEF Lifted, Passes, BeforePeers
    <3>2. run' = "cleaned" => run = "cleaned"
      BY <2>1 DEF Passes, BeforePeers
    <3> QED
      BY <2>1, <2>2, <2>3, <3>1, <3>2, HasSame DEF QuietInv
  <2>4. ASSUME NEW phase \in Phases, NEW status \in Statuses, Writes(phase, status),
               <<phase, run>> \in {<<"baseline", "baseline">>, <<"impaired", "impaired">>,
                   <<"recovery", "recovery">>, <<"recovery", "skip">>, <<"cleanup", "cleaned">>},
               phase = "recovery" /\ status # "skipped" => run = "recovery",
               run \in {"recovery", "cleaned"} => status = ClearStatus /\ pc[Me] = "idle",
               run = "skip" => status = "skipped",
               run' \in {"apply", "clear", "skip", "cleanup", "wait"}
        PROVE  QuietInv'
    <3>1. \A a, b : /\ Has(a, b)' => Has(a, b) \/ (a = phase /\ b = status)
                    /\ Has(a, b) => Has(a, b)'
      BY <2>4, HasGrows
    <3>2. ClearStatus \in {"cleared", "absent"} => ClearStatus = result[Me]
      BY DEF ClearStatus
    <3>3. Lifted' => Lifted
      BY <2>4, <3>1, <3>2 DEF Lifted
    <3>4. Has("recovery", "cleared")' => ~Has("cleanup", "cleared")'
      BY <1>w, <2>1, <2>4, <3>1, <3>2 DEF QuietInv
    <3> QED
      BY <2>1, <2>2, <2>4, <3>3, <3>4 DEF QuietInv
  <2>5. ClearStatus \in Statuses
    BY DEF ClearStatus, Statuses
  <2>6. CASE run = "baseline" /\ run' = "apply" /\ Writes("baseline", "ok")
    BY <2>4, <2>6 DEF Phases, Statuses
  <2>7. CASE run = "impaired" /\ \/ run' = "clear" /\ Writes("impaired", "ok")
                                 \/ run' = "skip" /\ Writes("impaired", "error")
    BY <2>4, <2>7 DEF Phases, Statuses
  <2>8. CASE run = "recovery" /\ pc[Me] = "idle" /\ run' = "cleanup"
             /\ Writes("recovery", ClearStatus)
    BY <2>4, <2>5, <2>8 DEF Phases
  <2>9. CASE run = "skip" /\ run' = "cleanup" /\ Writes("recovery", "skipped")
    BY <2>4, <2>9 DEF Phases, Statuses
  <2>10. CASE run = "cleaned" /\ pc[Me] = "idle" /\ run' = "wait"
              /\ Writes("cleanup", ClearStatus)
    BY <2>4, <2>5, <2>10 DEF Phases
  <2> QED
    BY <2>1, <2>3, <2>6, <2>7, <2>8, <2>9, <2>10 DEF Passes
<1>2. CASE Validate
  <2>1. /\ run = "validate" /\ run' \in {"namespaces", "returned"} /\ events' = events
        /\ UNCHANGED <<host, stateFile, pc, result>>
    BY <1>2 DEF Validate, At, To, ToWith, labVars
  <2>2. Undisturbed /\ NotYet
    BY <1>u, <2>1 DEF NotYet, BeforePeers
  <2>3. ~Lifted' /\ ~Has("recovery", "cleared")' /\ ~InForce'
    BY <1>w, <2>1, HasSame DEF Lifted, InForce, BeforePeers
  <2> QED
    BY <2>1, <2>2, <2>3 DEF QuietInv, Intact
<1>3. CASE Calling
  <2>1. CallEffect
    BY <1>3, CallingDoes
  <2>2. Undisturbed
    BY <1>u, <2>1 DEF CallEffect
  <2>3. Intact' /\ (NotYet' => NotYet) /\ (InForce' => InForce)
    BY <2>1, <2>2 DEF CallEffect, QuietInv, Intact, NotYet, InForce, BeforePeers
  <2>4. \A a, b : Has(a, b)' <=> Has(a, b)
    BY <2>1, HasSame DEF CallEffect
  <2>5. Lifted' => Lifted
    BY <2>1, <2>4 DEF CallEffect, Lifted
  <2> QED
    BY <2>1, <2>2, <2>3, <2>4, <2>5 DEF QuietInv, CallEffect
<1>4. CASE CallStep
  <2>1. ImpairEffect(Me) /\ UNCHANGED <<run, events, condition>> /\ pc[Me] # "idle"
    BY <1>4, CallStepDoes DEF CallStep, runVars
  <2>2. Undisturbed /\ Intact /\ Intact' /\ Node \in host.eth0
    BY <1>u, <2>1 DEF ImpairEffect, QuietInv, Intact, Node, NodeOf
  <2>3. \A a, b : Has(a, b)' <=> Has(a, b)
    BY <2>1, HasSame
  <2>4. \/ run = "impaired" /\ loc[Me].op = "apply" /\ loc[Me].flags = condition
        \/ run \in {"recovery", "cleaned"} /\ loc[Me].op = "clear"
    BY <2>1 DEF CallsInv, CallInv
  <2>5. CASE host' = host /\ pc'[Me] # "idle"
    BY <2>1, <2>2, <2>3, <2>4, <2>5 DEF QuietInv, NotYet, InForce, Lifted
  <2>6. CASE host' = host /\ pc'[Me] = "idle" /\ result'[Me] = "error"
    BY <2>1, <2>2, <2>3, <2>4, <2>6 DEF QuietInv, NotYet, InForce, Lifted
  <2>7. CASE pc'[Me] = "idle" /\ loc[Me].op = "apply" /\ result'[Me] = "applied"
             /\ host'.qdisc[Node] = loc[Me].flags
    <3>1. run = "impaired" /\ host'.qdisc[Node] = condition'
      BY <2>1, <2>4, <2>7
    <3>2. ~Lifted' /\ ~NotYet' /\ ~Has("recovery", "cleared")'
      BY <1>w, <2>1, <2>3, <2>7, <3>1 DEF Lifted, NotYet, BeforePeers
    <3> QED
      BY <2>2, <3>1, <3>2 DEF QuietInv
  <2>8. CASE /\ pc'[Me] = "idle" /\ loc[Me].op = "clear" /\ result'[Me] \in {"cleared", "absent"}
             /\ host'.qdisc[Node] = {}
             /\ result'[Me] = "absent" <=> host.qdisc[Node] = {}
    <3>1. run \in {"recovery", "cleaned"} /\ ~NotYet' /\ ~InForce'
      BY <2>1, <2>4, <2>8 DEF NotYet, InForce, BeforePeers
    <3>2. Has("recovery", "cleared") => result'[Me] # "cleared" /\ ~Has("cleanup", "cleared")
      BY <2>2, <2>8 DEF QuietInv, Lifted
    <3> QED
      BY <2>2, <2>3, <2>8, <3>1, <3>2 DEF QuietInv
  <2>9. pc'[Me] \in L!ImpairLabels => pc'[Me] # "idle"
    BY DEF L!ImpairLabels
  <2> QED
    BY <2>1, <2>5, <2>6, <2>7, <2>8, <2>9 DEF ImpairEffect
<1>5. CASE Crash
  <2>1. /\ OnlyMoves(Me) /\ run' = "crashed"
        /\ UNCHANGED <<host, stateFile, events>>
    BY <1>5, CrashDoes
  <2>2. Undisturbed /\ ~NotYet' /\ ~InForce'
    BY <1>u, <2>1 DEF NotYet, InForce, BeforePeers
  <2>3. Lifted' => Lifted
    BY <2>1, HasSame DEF Lifted
  <2> QED
    BY <2>1, <2>2, <2>3, HasSame DEF QuietInv, Intact
<1>6. CASE Drain
  <2>1. PICK i \in {1, 2} : host.veth[i] = "dying" /\ UNCHANGED <<pc, result>>
    BY <1>6, DrainKeepsCalls
  <2> QED
    BY <1>u, <2>1 DEF QuietInv, Intact
<1>7. ASSUME NEW p \in Others, Elsewhere(p) PROVE QuietInv'
  BY <1>7, OtherDoes DEF OtherEffect
<1> QED
  BY <1>1, <1>2, <1>3, <1>4, <1>5, <1>6, <1>7, StepIs

-----------------------------------------------------------------------------
(* A run with nothing against it meets no error.                           *)

LEMMA FaultSpoils == ScenarioInv /\ Fault => ~Smooth'
  BY PeersAssumption DEF ScenarioInv, PeersInv, PeersTypeOK, Fault, Smooth

\* What the lab offers the run: its nodes are recorded, there, and in order.
LEMMA QuietLab ==
    ASSUME QuietInv, Undisturbed
    PROVE  /\ \A r \in Roles : Present(r) = TRUE /\ L!Lists(stateFile, NodeOf(r)) = TRUE
           /\ Node \in host.eth0
<1>1. stateFile # NoState /\ stateFile.nodes = 2 /\ host.netns = {1, 2} /\ host.eth0 = {1, 2}
  BY StateAssumption DEF QuietInv, Intact, TheRecord, L!State, L!Nodes
<1> QED
  BY <1>1 DEF Present, L!Lists, Node, NodeOf, Roles

LEMMA PeersKeepSmooth ==
    ASSUME ScenarioInv, QuietInv, SmoothInv, Fine', Still, NEW r \in Roles,
           \/ PeerStep(r) \/ Timeout(r) \/ SdpUnreadable(r) \/ Hear(r) \/ Handshake
           \/ Spawn(r, Present(r)) \/ Kill(r) \/ Reap(r)
    PROVE  SmoothInv'
<1>1. /\ UNCHANGED <<run, runErr, condition, pc, result>> /\ PeersInv
      /\ Undisturbed /\ ValidCondition(condition)
  BY DEF Still, runVars, labVars, Fine, Undisturbed, ScenarioInv
<1>2. Smooth => AllWell /\ (cancelled => WaitedFor)
  BY <1>1 DEF SmoothInv, Fine
<1>3. \/ PeerStep(r) \/ Timeout(r) \/ SdpUnreadable(r) \/ Hear(r) \/ Handshake
      \/ Spawn(r, TRUE) \/ Kill(r) \/ Reap(r)
  BY <1>1, QuietLab
<1>4. Smooth /\ AllWell' /\ UNCHANGED cancelled
  BY <1>1, <1>2, <1>3, SmoothPeers DEF Fine
<1>5. Onward
  BY <1>1, <1>3, PeerStepKeeps, OtherStepsKeep
<1>6. WaitedFor => WaitedFor'
  BY <1>5 DEF WaitedFor, Onward
<1> QED
  BY <1>1, <1>4, <1>6 DEF SmoothInv, Fine

\* A step that leaves the peers alone.
LEMMA SmoothKept ==
    ASSUME SmoothInv, Fine, UNCHANGED <<OtherThanCancel, cancelled>>, ~runErr => ~runErr',
           run \in Ending \cup RunEnds => run' \in Ending \cup RunEnds,
           run' = "impaired" /\ pc'[Me] = "idle" => result'[Me] = "applied",
           run' \in {"recovery", "cleaned"} /\ pc'[Me] = "idle" =>
               result'[Me] \in {"cleared", "absent"}
    PROVE  SmoothInv'
  BY DEF SmoothInv, OtherThanCancel, AllWell, WaitedFor, Ending, RunEnds

LEMMA RunKeepsSmooth ==
    ASSUME ScenarioInv, CallsInv, QuietInv, SmoothInv, Fine',
           RunStep \/ Timer \/ Crash \/ (MarkerUnreadable("baseline") /\ OnlyRun)
    PROVE  SmoothInv'
<1> USE DEF At, To, ToWith, Ending, RunEnds
<1>0. /\ ~Fault /\ (Smooth' /\ faults' = faults /\ late' = late => Smooth)
      /\ ScenarioInv /\ (UNCHANGED <<pc, result>> \/ OnlyMoves(Me) => Undisturbed)
  BY FaultSpoils, ScenarioAssumption DEF Fine, Smooth, OnlyMoves, Undisturbed, Everyone
<1>1. ASSUME UNCHANGED <<faults, late, condition>>, UNCHANGED <<pc, result>> \/ OnlyMoves(Me)
      PROVE  /\ Fine /\ Undisturbed /\ ~runErr /\ AllWell
             /\ cancelled => run \in Ending \cup RunEnds /\ WaitedFor
             /\ Called("impaired") => result[Me] = "applied"
             /\ Called("recovery") \/ Called("cleaned") => result[Me] \in {"cleared", "absent"}
  BY <1>0, <1>1 DEF Fine, SmoothInv, Called
<1>2. CASE Validate
  <2>1. /\ run = "validate" /\ UNCHANGED <<OtherThanCancel, cancelled, faults, late, pc, result>>
        /\ condition = {}
    BY <1>0, <1>2 DEF Validate, labVars, CallsInv, ConditionInv
  <2>2. ValidCondition(condition)
    BY <2>1 DEF ValidCondition
  <2>3. Fine
    BY <1>0, <2>1, <2>2 DEF Fine
  <2>4. \A r \in Roles : L!Lists(stateFile, NodeOf(r)) = TRUE
    BY <2>3, QuietLab DEF Fine
  <2>5. run' = "namespaces" /\ runErr' = runErr
    BY <1>0, <1>2, <2>4 DEF Validate, Fine, ValidCondition
  <2> QED
    BY <2>1, <2>3, <2>5, SmoothKept
<1>3. CASE ValidateNamespaces
  <2>1. /\ run = "namespaces" /\ UNCHANGED <<OtherThanCancel, cancelled, faults, late, condition>>
        /\ UNCHANGED <<pc, result>>
    BY <1>0, <1>3 DEF ValidateNamespaces, OnlyRun, labVars
  <2>2. Fine /\ \A r \in Roles : Present(r) = TRUE
    BY <1>1, <2>1, QuietLab
  <2>3. run' = "prepare" /\ runErr' = runErr
    BY <1>0, <1>3, <2>2 DEF ValidateNamespaces
  <2> QED
    BY <2>1, <2>2, <2>3, SmoothKept
<1>4. CASE CallStep
  <2>1. /\ ImpairEffect(Me) /\ pc[Me] # "idle"
        /\ UNCHANGED <<OtherThanCancel, cancelled, late, run, runErr, condition>>
    BY <1>4, CallStepDoes DEF CallStep, runVars
  <2>2. faults' = faults
    BY <1>0, <1>4, LabFaults DEF CallStep
  <2>3. Fine /\ Node \in host.eth0
    BY <1>1, <2>1, <2>2, QuietLab DEF ImpairEffect
  <2>4. \/ run = "impaired" /\ loc[Me].op = "apply"
        \/ run \in {"recovery", "cleaned"} /\ loc[Me].op = "clear"
    BY <2>1 DEF CallsInv, CallInv
  <2>5. pc'[Me] = "idle" =>
          /\ run = "impaired" => result'[Me] = "applied"
          /\ run \in {"recovery", "cleaned"} => result'[Me] \in {"cleared", "absent"}
    BY <1>0, <2>1, <2>3, <2>4 DEF ImpairEffect, L!ImpairLabels
  <2> QED
    BY <2>1, <2>3, <2>5, SmoothKept
<1>5. CASE Apply \/ Clear \/ Cleanup
  <2>1. Calling /\ run \in {"apply", "clear", "cleanup"}
    BY <1>5 DEF Apply, Clear, Cleanup, Calling, Call
  <2>2. /\ CallEffect /\ pc'[Me] # "idle" /\ faults' = faults
    BY <1>0, <2>1, CallingDoes DEF CallEffect
  <2>3. UNCHANGED <<OtherThanCancel, cancelled, late, runErr, condition>>
    BY <1>5 DEF Apply, Clear, Cleanup, Call
  <2> QED
    BY <1>1, <2>1, <2>2, <2>3, SmoothKept DEF CallEffect
<1>6. ASSUME NEW name, NEW status, NEW ok, NEW err, Phase(name, status, FALSE, ok, err)
      PROVE  /\ run' = ok /\ (runErr' <=> runErr)
             /\ UNCHANGED <<OtherThanCancel, faults, late, condition, pc, result>>
  BY <1>0, <1>6 DEF Phase, Record, OnlyRun, labVars
<1>7. CASE Baseline
  <2>1. /\ run = "baseline" /\ run' = "apply" /\ (runErr' <=> runErr)
        /\ UNCHANGED <<OtherThanCancel, faults, late, condition, pc, result>>
    BY <1>6, <1>7 DEF Baseline
  <2>2. cancelled' = cancelled
    BY <1>7, <2>1 DEF Baseline, ScenarioInv, PeersInv, PeersTypeOK
  <2> QED
    BY <1>1, <2>1, <2>2, SmoothKept
<1>8. CASE Impaired
  <2>1. UNCHANGED <<late, condition, pc, result, cancelled>> /\ faults' = faults
    BY <1>0, <1>8 DEF Impaired, Phase, Record, OnlyRun, labVars
  <2>2. Called("impaired") /\ result[Me] = "applied"
    BY <1>1, <1>8, <2>1 DEF Impaired
  <2>3. Phase("impaired", "ok", FALSE, "clear", "clear")
    BY <1>8, <2>2 DEF Impaired
  <2>4. /\ run = "impaired" /\ run' = "clear" /\ (runErr' <=> runErr)
        /\ UNCHANGED <<OtherThanCancel, faults, late, condition, pc, result>>
    BY <1>6, <2>2, <2>3 DEF Called
  <2> QED
    BY <1>1, <2>1, <2>4, SmoothKept
<1>9. CASE Recovery \/ Cleaned
  <2>1. /\ UNCHANGED <<late, condition, pc, result, cancelled>> /\ faults' = faults
        /\ Called("recovery") \/ Called("cleaned")
    BY <1>0, <1>9 DEF Recovery, Cleaned, Phase, Record, OnlyRun, labVars
  <2>2. ClearStatus # "error"
    BY <1>1, <2>1 DEF ClearStatus
  <2>3. \/ run = "recovery" /\ Phase("recovery", ClearStatus, FALSE, "cleanup", "cleanup")
        \/ run = "cleaned" /\ Phase("cleanup", ClearStatus, FALSE, "wait", "wait")
    BY <1>9, <2>2 DEF Recovery, Cleaned, Called
  <2>4. /\ run \in {"recovery", "cleaned"} /\ run' \in {"cleanup", "wait"} /\ (runErr' <=> runErr)
        /\ UNCHANGED <<OtherThanCancel, faults, late, condition, pc, result>>
    BY <1>6, <2>3
  <2> QED
    BY <1>1, <2>1, <2>4, SmoothKept
<1>10. CASE Skip \/ Abort
  <2>1. /\ run \in {"skip", "abort"} /\ UNCHANGED <<late, condition, pc, result>>
        /\ faults' = faults
    BY <1>0, <1>10 DEF Skip, Abort, Phase, Record, OnlyRun, labVars, peerVars
  <2> QED
    BY <1>1, <2>1 DEF ScenarioInv, OutcomeInv
<1>11. CASE OnlyRun /\ (Prepare("launch") \/ Ready("baseline") \/ CloseEvents)
  <2>1. /\ UNCHANGED <<OtherThanCancel, cancelled, faults, late, condition, pc, result>>
        /\ <<run, run'>> \in {<<"prepare", "launch">>, <<"ready", "baseline">>,
                              <<"close", "returned">>}
        /\ runErr' = runErr
    BY <1>0, <1>11 DEF Prepare, Ready, CloseEvents, OnlyRun, labVars, peerVars, OtherThanCancel
  <2> QED
    BY <1>1, <2>1, SmoothKept
<1>12. CASE OnlyRun /\ Launch("ready", "baseline")
  <2>1. /\ UNCHANGED <<reaped, cancelled, faults, late, condition, pc, result>>
        /\ run = "launch" /\ run' = "ready" /\ runErr' = runErr
        /\ stage' = [r \in Roles |-> "spawn"]
    BY <1>0, <1>12 DEF Launch, OnlyRun, labVars
  <2> QED
    BY <1>1, <2>1 DEF SmoothInv, AllWell
<1>13. CASE OnlyRun /\ Wait
  <2>1. /\ UNCHANGED <<OtherThanCancel, faults, late, condition, pc, result>>
        /\ run = "wait" /\ run' = "merge" /\ WaitedFor
        /\ runErr' = (runErr \/ \E r \in Roles : reaped[r] = "error")
    BY <1>13 DEF Wait, OnlyRun, labVars, WaitedFor
  <2>2. ~runErr' /\ AllWell
    BY <1>1, <2>1 DEF AllWell
  <2>3. AllWell' /\ WaitedFor'
    BY <2>1, <2>2 DEF AllWell, WaitedFor, OtherThanCancel
  <2> QED
    BY <2>1, <2>2, <2>3 DEF SmoothInv
<1>14. CASE OnlyRun /\ Merge("close")
  <2>1. /\ UNCHANGED <<OtherThanCancel, cancelled, faults, late, condition, pc, result>>
        /\ run = "merge" /\ run' = "close"
    BY <1>0, <1>14 DEF Merge, OnlyRun, labVars
  <2>2. \A r \in Roles : stage[r] = "ok"
    BY <1>1, <2>1 DEF ScenarioInv, OutcomeInv
  <2>3. \A r \in Roles : stats[r].state = "whole"
    BY <2>2 DEF ScenarioInv, PeersInv, LogInv
  <2>4. runErr' = runErr
    BY <1>0, <1>14, <2>3 DEF Merge
  <2> QED
    BY <1>1, <2>1, <2>4, SmoothKept
<1>15. CASE Timer \/ MarkerUnreadable("baseline")
  BY <1>0, <1>15 DEF Timer, ReadyTimeout, MarkerUnreadable, Fine, Smooth
<1>16. CASE Crash
  <2>1. /\ UNCHANGED <<OtherThanCancel, cancelled, faults, late, runErr, condition>>
        /\ run' = "crashed" /\ OnlyMoves(Me)
    BY <1>16, CrashDoes DEF Crash, peerVars, OtherThanCancel
  <2> QED
    BY <1>1, <2>1, SmoothKept
<1> QED
  BY <1>2, <1>3, <1>4, <1>5, <1>7, <1>8, <1>9, <1>10, <1>11, <1>12, <1>13, <1>14, <1>15, <1>16
  DEF RunStep

LEMMA StepKeepsSmooth ==
    ASSUME ScenarioInv, CallsInv, QuietInv, SmoothInv, [Next]_vars
    PROVE  SmoothInv'
<1> SUFFICES ASSUME Fine' PROVE SmoothInv'
  BY DEF SmoothInv
<1>1. CASE RunStep \/ Timer \/ Crash \/ (MarkerUnreadable("baseline") /\ OnlyRun)
  BY <1>1, RunKeepsSmooth
<1>2. CASE Network \/ \E r \in Roles : PeerNext(r) \/ Supervise(r)
  <2>1. PICK r \in Roles : Still /\ \/ PeerStep(r) \/ Timeout(r) \/ SdpUnreadable(r) \/ Hear(r) \/ Handshake
                                    \/ Spawn(r, Present(r)) \/ Kill(r) \/ Reap(r)
    BY <1>2 DEF Network, PeerNext, PeerTimer, Supervise, Roles
  <2> QED
    BY <2>1, PeersKeepSmooth
<1>3. CASE Drain \/ Over \/ UNCHANGED vars
  <2>1. UNCHANGED <<OtherThanCancel, cancelled, late, run, runErr, condition, faults, pc, result>>
    BY <1>3, DrainKeepsCalls DEF Drain, Over, vars, runVars, peerVars, labVars, OtherThanCancel
  <2>2. Fine
    BY <2>1 DEF Fine, Smooth, Undisturbed
  <2> QED
    BY <2>1, <2>2, SmoothKept DEF SmoothInv
<1>4. ASSUME NEW p \in Others, Elsewhere(p)
      PROVE  SmoothInv'
  BY <1>4, OtherDoes DEF OtherEffect, Fine
<1> QED
  BY <1>1, <1>2, <1>3, <1>4 DEF Next

-----------------------------------------------------------------------------
(* What holds of every run.                                                *)

LEMMA StepKeepsCalls == ScenarioInv /\ CallsInv /\ [Next]_vars => CallsInv'
<1> SUFFICES ASSUME ScenarioInv, CallsInv, [Next]_vars PROVE CallsInv'
  OBVIOUS
<1>1. CASE Aside
  BY <1>1, AsideKeepsCalls
<1>2. CASE Validate
  BY <1>2, ValidateKeepsCalls
<1>3. CASE Calling
  BY <1>3, CallingDoes
<1>4. CASE CallStep
  BY <1>4, CallStepDoes
<1>5. CASE Crash
  BY <1>5, CrashDoes
<1>6. CASE Drain
  BY <1>6, DrainKeepsCalls
<1>7. ASSUME NEW p \in Others, Elsewhere(p)
      PROVE  CallsInv'
  BY <1>7, OtherDoes
<1> QED
  BY <1>1, <1>2, <1>3, <1>4, <1>5, <1>6, <1>7, StepIs

LEMMA InitSmooth == Init => SmoothInv
  BY DEF Init, RunsInit, PeersInit, SmoothInv, AllWell

LEMMA LabInvariant == Spec => [](ScenarioInv /\ CallsInv /\ CleanInv /\ QuietInv /\ SmoothInv)
<1> DEFINE Inv == ScenarioInv /\ CallsInv /\ CleanInv /\ QuietInv /\ SmoothInv
<1>1. Init => Inv
  BY InitScenario, InitCalls, InitClean, InitSmooth
<1>2. Inv /\ [Next]_vars => Inv'
  BY StepKeepsScenario, StepKeepsCalls, StepKeepsClean, StepKeepsQuiet, StepKeepsSmooth
<1> QED
  BY <1>1, <1>2, PTL DEF Spec

\* Every variable keeps its type: the calls of the run, and the commands of
\* the others, only take away from the lab that create has built.
THEOREM ScenarioTypeCorrect == Spec => []TypeOK
<1>1. ASSUME ScenarioInv, CallsInv
      PROVE  TypeOK
  <2>1. RunsTypeOK(RunLabels, Phases, Statuses)
    <3>1. Len(events) \in Nat /\ Expected(run) \in 0..4 /\ Len(events) <= Expected(run)
      BY <1>1, ExpectedIs DEF ScenarioInv, RunTypes, OrderInv, RunLabels, RunEnds
    <3> QED
      BY <1>1, <3>1 DEF ScenarioInv, RunTypes, PeersInv, RunsTypeOK
  <2>2. unwritten \subseteq Phases
    BY <1>1 DEF ScenarioInv, RunTypes
  <2>3. condition \in SUBSET L!Flags
    BY <1>1, ConditionIs DEF CallsInv
  <2>4. L!TypeOK
    <3>1. LabTypes /\ faults \in 0..MaxFaults
      BY <1>1 DEF ScenarioInv, PeersInv, PeersTypeOK, CallsInv, LabInv
    <3>2. stateFile \in L!State \cup {NoState}
      BY <3>1 DEF LabTypes, TheRecord, L!State, L!Nodes
    <3>3. pc \in [Everyone -> L!Labels]
      BY <3>1 DEF LabTypes, CallLabels, L!Labels
    <3>4. undo \in [Everyone -> Seq(L!Cleanups)]
      BY <3>1 DEF LabTypes
    <3> QED
      BY <3>1, <3>2, <3>3, <3>4 DEF LabTypes, L!TypeOK, Everyone
  <2> QED
    BY <2>1, <2>2, <2>3, <2>4 DEF TypeOK
<1> QED
  BY <1>1, LabInvariant, PTL

\* A run that has recorded its baseline leaves its node clean unless two calls
\* have failed: what is there has been applied by somebody else meanwhile.  To
\* tell the two apart the run must not be asked for what the others apply.
THEOREM ScenarioLeavesNoImpairment ==
    ASSUME {"loss"} \notin Given
    PROVE  Spec => []NoImpairmentLeft
<1>1. ASSUME ScenarioInv, CallsInv, CleanInv
      PROVE  NoImpairmentLeft
  <2>1. Returned /\ Used < 2 => LooseClean
    BY <1>1, UsedGrows, PeersAssumption
    DEF ScenarioInv, PeersInv, PeersTypeOK, CleanInv, SweptAgain, Used
  <2>2. condition # {"loss"}
    BY <1>1, ConditionIs DEF CallsInv
  <2> QED
    BY <2>1, <2>2 DEF NoImpairmentLeft, LooseClean, Used
<1> QED
  BY <1>1, LabInvariant, PTL

\* While nobody else runs a command, the event log tells what is in force on
\* the node.
THEOREM ScenarioEventsMatchHost == Spec => []EventsMatchHost
<1>1. QuietInv => EventsMatchHost
  BY DEF QuietInv, EventsMatchHost, NotYet, InForce, Lifted
<1> QED
  BY <1>1, LabInvariant, PTL

\* A run that no call fails, no wait times out, and nobody interferes with meets
\* no error, and no peer of it fails or is killed.
THEOREM ScenarioFailuresExplained == Spec => []NoUnexplainedFailure
<1>1. SmoothInv => NoUnexplainedFailure
  BY DEF SmoothInv, Fine, Smooth, AllWell, NoUnexplainedFailure
<1> QED
  BY <1>1, LabInvariant, PTL

=============================================================================
