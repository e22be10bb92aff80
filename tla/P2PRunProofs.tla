---------------------------- MODULE P2PRunProofs ----------------------------
(***************************************************************************)
(* Proofs about module P2PRun, for any number of samples, faults and kills. *)
(***************************************************************************)
EXTENDS P2PRun, RunsProofs

-----------------------------------------------------------------------------
(* The inductive invariant.                                                *)

Before == {"prepare", "start", "launch"}
WithPeers == {"ready", "connected", "wait"}
After == {"merge", "complete", "cleanup", "close", "returned"}

\* Where the run is tells where its peers are.
PeersOfRun ==
    /\ run \in Before => \A r \in Roles : stage[r] = "none"
    /\ run \in WithPeers => \A r \in Roles : stage[r] # "none"
    /\ run \in After => WaitedFor

\* What is merged are the final logs.
MergedInv ==
    /\ run \in Before \cup WithPeers \cup {"merge"} => merged = NotMerged
    /\ merged.state = "whole" =>
        \A r \in Roles :
            /\ stage[r] \in Ended /\ stats[r].state = "whole"
            /\ merged.n[r] = stats[r].n

\* How many events there are where the run is, unless one is missing.
Expected(l) ==
    CASE l \in {"prepare", "start"}             -> 0
      [] l \in {"launch", "ready", "connected"} -> 1
      [] l \in {"wait", "merge", "complete"}    -> 2
      [] l = "cleanup"                          -> 3
      [] OTHER                                  -> 4

EventsInv ==
    /\ Len(events) <= Expected(run)
    /\ ~runErr /\ run # "crashed" => Len(events) = Expected(run)
    /\ ~runErr => \A k \in 1..Len(events) : events[k] = ExpectedEvents[k]
    /\ run = "connected" \/ Recorded("connected") => BothConnected

\* What a run without an error has achieved where it is.
OutcomeInv ==
    ~runErr =>
        /\ run \in After => \A r \in Roles : stage[r] = "ok"
        /\ run \in After \ {"merge"} => merged.state = "whole"

\* Nobody cancels a run that goes well before its peers have ended.
SmoothInv ==
    Smooth =>
        /\ ~runErr
        /\ AllWell
        /\ cancelled => run \in After \cup {"crashed"} /\ WaitedFor

P2PTypes ==
    /\ run \in RunLabels \cup RunEnds
    /\ runErr \in BOOLEAN
    /\ events \in Seq(Phases \X {"ok", "error"})
    /\ merged.state \in {"none", "torn", "whole"}
    /\ merged.n \in [Roles -> 0..MaxSamples]
    /\ crashes \in 0..MaxCrashes

P2PInv ==
    /\ PeersInv /\ P2PTypes
    /\ PeersOfRun /\ MergedInv /\ EventsInv /\ OutcomeInv /\ SmoothInv

-----------------------------------------------------------------------------
(* It holds at first, and each step keeps it.                              *)

LEMMA InitP2P == Init => P2PInv
<1> SUFFICES ASSUME Init PROVE P2PInv
  OBVIOUS
<1> USE P2PAssumption, PeersAssumption DEF Init, RunsInit
<1>1. PeersInv
  BY InitPeers
<1>2. P2PTypes
  <2>1. NotMerged.state = "none" /\ NotMerged.n \in [Roles -> 0..MaxSamples]
    BY DEF NotMerged
  <2>2. <<>> \in Seq(Phases \X {"ok", "error"}) /\ MaxCrashes \in 0..MaxCrashes
    OBVIOUS
  <2> QED
    BY <2>1, <2>2 DEF P2PTypes, RunLabels
<1>3. PeersOfRun /\ MergedInv /\ OutcomeInv /\ SmoothInv
  BY DEF PeersInit, PeersOfRun, MergedInv, OutcomeInv, SmoothInv, NotMerged, AllWell,
         Before, WithPeers, After
<1>4. EventsInv
  BY DEF EventsInv, Expected, Recorded
<1> QED
  BY <1>1, <1>2, <1>3, <1>4 DEF P2PInv

\* A step of a peer, of the goroutine beside it, or of the network.
LEMMA PeersKeepP2P ==
    ASSUME P2PInv, NEW r \in Roles, Still,
           \/ PeerStep(r) \/ Timeout(r) \/ SdpUnreadable(r) \/ Hear(r) \/ Handshake
           \/ Spawn(r, TRUE) \/ Kill(r) \/ Reap(r)
    PROVE  P2PInv'
<1> USE DEF P2PInv, Still, runVars
<1>1. PeersInv' /\ Onward
  BY PeerStepKeeps, OtherStepsKeep
<1>2. P2PTypes'
  BY DEF P2PTypes
<1>3. PeersOfRun' /\ MergedInv' /\ OutcomeInv'
  BY <1>1 DEF PeersOfRun, MergedInv, OutcomeInv, Onward, WaitedFor, Before, WithPeers, After,
              Ended
<1>4. EventsInv'
  <2>1. BothConnected => BothConnected'
    <3> HIDE DEF P2PInv, Still, runVars
    <3>1. \A q \in Roles : heard[q] \subseteq heard'[q] /\ heard'[q] \subseteq Callbacks
      BY <1>1 DEF Onward, PeersInv, PeersTypeOK
    <3> QED
      BY <3>1 DEF BothConnected
  <2> QED
    BY <2>1 DEF EventsInv, Recorded, Expected
<1>5. SmoothInv'
  <2>1. Smooth => AllWell /\ (cancelled => WaitedFor)
    BY DEF SmoothInv
  <2>2. Smooth' => Smooth /\ AllWell' /\ UNCHANGED cancelled
    BY <2>1, SmoothPeers
  <2>3. WaitedFor => WaitedFor'
    BY <1>1 DEF WaitedFor, Onward
  <2> QED
    BY <2>2, <2>3 DEF SmoothInv
<1> QED
  BY <1>1, <1>2, <1>3, <1>4, <1>5

LEMMA ExpectedIs ==
    /\ Expected("prepare") = 0 /\ Expected("start") = 0
    /\ Expected("launch") = 1 /\ Expected("ready") = 1 /\ Expected("connected") = 1
    /\ Expected("wait") = 2 /\ Expected("merge") = 2 /\ Expected("complete") = 2
    /\ Expected("cleanup") = 3 /\ Expected("close") = 4
    /\ Expected("returned") = 4 /\ Expected("crashed") = 4
  BY DEF Expected

\* A step that records nothing.
LEMMA NoNewEvent ==
    ASSUME EventsInv, run # "crashed", Len(events) \in Nat, runErr => runErr',
           UNCHANGED <<events, heard>>,
           Expected(run) \in Nat, Expected(run') \in Nat, Expected(run) <= Expected(run'),
           ~runErr' /\ run' # "crashed" => Expected(run') = Expected(run),
           run' = "connected" => BothConnected
    PROVE  EventsInv'
<1>1. /\ Recorded("connected")' <=> Recorded("connected")
      /\ BothConnected' <=> BothConnected
  BY DEF Recorded, BothConnected
<1> QED
  BY <1>1 DEF EventsInv

\* A step that records the event which is expected next.
LEMMA NewEvent ==
    ASSUME EventsInv, run # "crashed", runErr => runErr', UNCHANGED heard,
           events \in Seq(Phases \X {"ok", "error"}),
           NEW phase \in Phases, NEW status \in {"ok", "error"},
           events' = Append(events, <<phase, status>>),
           Expected(run) \in Nat, Expected(run') = Expected(run) + 1,
           ~runErr' => <<phase, status>> = ExpectedEvents[Expected(run')],
           phase = "connected" => run = "connected", run' # "connected"
    PROVE  EventsInv'
<1>1. /\ Len(events) \in Nat /\ Len(events') = Len(events) + 1
      /\ events'[Len(events) + 1] = <<phase, status>>
      /\ \A k \in 1..Len(events) : events'[k] = events[k]
  BY EventsGrow
<1>2. /\ Recorded("connected")' => Recorded("connected") \/ run = "connected"
      /\ BothConnected' <=> BothConnected
  BY EventsGrow DEF BothConnected
<1> HIDE DEF ExpectedEvents
<1>3. Len(events') <= Expected(run') /\ (~runErr' => Len(events') = Expected(run'))
  BY <1>1 DEF EventsInv
<1>4. ASSUME ~runErr', NEW k \in 1..Len(events')
      PROVE  events'[k] = ExpectedEvents[k]
  <2>1. CASE k = Len(events) + 1
    BY <1>1, <1>3, <1>4, <2>1
  <2>2. CASE k \in 1..Len(events)
    BY <1>1, <1>4, <2>2 DEF EventsInv
  <2> QED
    BY <1>1, <2>1, <2>2
<1> QED
  BY <1>2, <1>3, <1>4 DEF EventsInv

\* A step of the run.
LEMMA RunKeepsP2P ==
    ASSUME P2PInv, RunStep \/ Timer \/ Crash \/ (MarkerUnreadable("wait") /\ UNCHANGED crashes)
    PROVE  P2PInv'
<1> USE PeersAssumption, P2PAssumption
    DEF P2PInv, P2PTypes, RunLabels, RunEnds, Before, WithPeers, After, At, To, ToWith, Alive,
        peerVars, OtherThanCancel, Smooth
<1>0. /\ cancelled \in BOOLEAN /\ late \in BOOLEAN /\ faults \in 0..MaxFaults
      /\ events \in Seq(Phases \X {"ok", "error"}) /\ Len(events) \in Nat
      /\ runErr \in BOOLEAN
  BY DEF PeersInv, PeersTypeOK
<1>none. Fault => faults' < MaxFaults
  BY <1>0 DEF Fault
<1>1. CASE Prepare("start") /\ UNCHANGED crashes
  <2>1. PeersInv'
    BY <1>1, <1>0, PeersLeftAlone DEF Prepare, PeersOfRun
  <2>2. P2PTypes'
    BY <1>1, <1>0 DEF Prepare, Phases, NotMerged, PeersInv, PeersTypeOK, Logs
  <2>3. PeersOfRun'
    BY <1>1 DEF Prepare, PeersOfRun, WaitedFor
  <2>4. MergedInv'
    BY <1>1 DEF Prepare, MergedInv, NotMerged, PeersOfRun, WaitedFor
  <2>5. EventsInv'
    <3>1. /\ run = "prepare" /\ run' \in {"start", "returned"}
          /\ runErr => runErr'
          /\ run' = "returned" => runErr'
          /\ UNCHANGED <<events, heard>>
      BY <1>1, <1>0 DEF Prepare
    <3> QED
      BY <1>0, <3>1, ExpectedIs, NoNewEvent
  <2>6. OutcomeInv'
    BY <1>1 DEF Prepare, OutcomeInv
  <2>7. SmoothInv'
    BY <1>1, <1>0, <1>none DEF Prepare, SmoothInv, AllWell, WaitedFor, Phases
  <2> QED
    BY <2>1, <2>2, <2>3, <2>4, <2>5, <2>6, <2>7
<1>2. CASE RecordStart /\ UNCHANGED crashes
  <2>1. PeersInv'
    BY <1>2, <1>0, PeersLeftAlone DEF RecordStart, Record, PeersOfRun
  <2>2. P2PTypes'
    BY <1>2, <1>0, EventsGrow DEF RecordStart, Record, Phases, NotMerged, PeersInv, PeersTypeOK, Logs
  <2>3. PeersOfRun'
    BY <1>2 DEF RecordStart, Record, PeersOfRun, WaitedFor
  <2>4. MergedInv'
    BY <1>2 DEF RecordStart, Record, MergedInv, NotMerged, PeersOfRun, WaitedFor
  <2>5. EventsInv'
    <3>1. CASE events' = Append(events, <<"webrtc_start", "ok">>) /\ ToWith("launch", FALSE)
      <4>1. /\ run = "start" /\ run' = "launch" /\ runErr' = runErr
            /\ UNCHANGED heard
            /\ "webrtc_start" \in Phases
        BY <1>2, <1>0, <3>1 DEF RecordStart, Phases
      <4>2. ~runErr' => <<"webrtc_start", "ok">> = ExpectedEvents[Expected("launch")]
        BY <4>1, ExpectedIs DEF ExpectedEvents
      <4> QED
        BY <1>0, <3>1, <4>1, <4>2, ExpectedIs, NewEvent
    <3>2. CASE Fault /\ ToWith("returned", TRUE) /\ UNCHANGED events
      <4>1. /\ run = "start" /\ run' = "returned" /\ runErr'
            /\ UNCHANGED <<events, heard>>
        BY <1>2, <1>0, <3>2 DEF RecordStart
      <4> QED
        BY <1>0, <4>1, ExpectedIs, NoNewEvent
    <3> QED
      BY <1>2, <3>1, <3>2 DEF RecordStart, Record
  <2>6. OutcomeInv'
    BY <1>2 DEF RecordStart, Record, OutcomeInv
  <2>7. SmoothInv'
    BY <1>2, <1>0, <1>none, EventsGrow DEF RecordStart, Record, SmoothInv, AllWell, WaitedFor, Phases
  <2> QED
    BY <2>1, <2>2, <2>3, <2>4, <2>5, <2>6, <2>7
<1>3. CASE Launch("ready", "merge") /\ UNCHANGED crashes
  <2>1. PeersInv'
    BY <1>3, <1>0, LaunchKeepsPeers DEF Launch, PeersOfRun
  <2>2. P2PTypes'
    BY <1>3, <1>0 DEF Launch, Phases, NotMerged, PeersInv, PeersTypeOK, Logs
  <2>3. PeersOfRun'
    BY <1>3 DEF Launch, PeersOfRun, WaitedFor
  <2>4. MergedInv'
    BY <1>3 DEF Launch, MergedInv, NotMerged, PeersOfRun, WaitedFor
  <2>5. EventsInv'
    <3>1. /\ run = "launch" /\ run' \in {"ready", "merge"}
          /\ runErr => runErr'
          /\ run' = "merge" => runErr'
          /\ UNCHANGED <<events, heard>>
      BY <1>3, <1>0 DEF Launch
    <3> QED
      BY <1>0, <3>1, ExpectedIs, NoNewEvent
  <2>6. OutcomeInv'
    BY <1>3 DEF Launch, OutcomeInv
  <2>7. SmoothInv'
    BY <1>3, <1>0, <1>none DEF Launch, SmoothInv, AllWell, WaitedFor, Phases
  <2> QED
    BY <2>1, <2>2, <2>3, <2>4, <2>5, <2>6, <2>7
<1>4. CASE Ready("connected") /\ UNCHANGED crashes
  <2>1. PeersInv'
    BY <1>4, <1>0, PeersLeftAlone DEF Ready, PeersOfRun
  <2>2. P2PTypes'
    BY <1>4, <1>0 DEF Ready, Phases, NotMerged, PeersInv, PeersTypeOK, Logs
  <2>3. PeersOfRun'
    BY <1>4 DEF Ready, PeersOfRun, WaitedFor
  <2>4. MergedInv'
    BY <1>4 DEF Ready, MergedInv, NotMerged, PeersOfRun, WaitedFor
  <2>5. EventsInv'
    BY <1>4, <1>0, ExpectedIs, NoNewEvent DEF Ready, BothConnected, PeersInv, HeardInv
  <2>6. OutcomeInv'
    BY <1>4 DEF Ready, OutcomeInv
  <2>7. SmoothInv'
    BY <1>4, <1>0, <1>none DEF Ready, SmoothInv, AllWell, WaitedFor, Phases
  <2> QED
    BY <2>1, <2>2, <2>3, <2>4, <2>5, <2>6, <2>7
<1>5. CASE PeerLost /\ UNCHANGED crashes
  <2>1. PeersInv'
    BY <1>5, <1>0, PeersLeftAlone DEF PeerLost, GiveUp, PeersOfRun
  <2>2. P2PTypes'
    BY <1>5, <1>0 DEF PeerLost, GiveUp, Phases, NotMerged, PeersInv, PeersTypeOK, Logs
  <2>3. PeersOfRun'
    BY <1>5 DEF PeerLost, GiveUp, PeersOfRun, WaitedFor
  <2>4. MergedInv'
    BY <1>5 DEF PeerLost, GiveUp, MergedInv, NotMerged, PeersOfRun, WaitedFor
  <2>5. EventsInv'
    <3>1. /\ run = "ready" /\ run' \in {"wait"}
          /\ runErr => runErr'
          /\ run' = "wait" => runErr'
          /\ UNCHANGED <<events, heard>>
      BY <1>5, <1>0 DEF PeerLost, GiveUp
    <3> QED
      BY <1>0, <3>1, ExpectedIs, NoNewEvent
  <2>6. OutcomeInv'
    BY <1>5 DEF PeerLost, GiveUp, OutcomeInv
  <2>7. SmoothInv'
    BY <1>5, <1>0, <1>none DEF PeerLost, GiveUp, SmoothInv, AllWell, WaitedFor, Phases
  <2> QED
    BY <2>1, <2>2, <2>3, <2>4, <2>5, <2>6, <2>7
<1>6. CASE RecordConnected /\ UNCHANGED crashes
  <2>1. PeersInv'
    BY <1>6, <1>0, PeersLeftAlone DEF RecordConnected, Record, PeersOfRun
  <2>2. P2PTypes'
    BY <1>6, <1>0, EventsGrow DEF RecordConnected, Record, Phases, NotMerged, PeersInv, PeersTypeOK, Logs
  <2>3. PeersOfRun'
    BY <1>6 DEF RecordConnected, Record, PeersOfRun, WaitedFor
  <2>4. MergedInv'
    BY <1>6 DEF RecordConnected, Record, MergedInv, NotMerged, PeersOfRun, WaitedFor
  <2>5. EventsInv'
    <3>1. CASE events' = Append(events, <<"connected", "ok">>) /\ ToWith("wait", FALSE)
      <4>1. /\ run = "connected" /\ run' = "wait" /\ runErr' = runErr
            /\ UNCHANGED heard
            /\ "connected" \in Phases
        BY <1>6, <1>0, <3>1 DEF RecordConnected, Phases
      <4>2. ~runErr' => <<"connected", "ok">> = ExpectedEvents[Expected("wait")]
        BY <4>1, ExpectedIs DEF ExpectedEvents
      <4> QED
        BY <1>0, <3>1, <4>1, <4>2, ExpectedIs, NewEvent
    <3>2. CASE Fault /\ ToWith("wait", TRUE) /\ UNCHANGED events
      <4>1. /\ run = "connected" /\ run' = "wait" /\ runErr'
            /\ UNCHANGED <<events, heard>>
        BY <1>6, <1>0, <3>2 DEF RecordConnected
      <4> QED
        BY <1>0, <4>1, ExpectedIs, NoNewEvent
    <3> QED
      BY <1>6, <3>1, <3>2 DEF RecordConnected, Record
  <2>6. OutcomeInv'
    BY <1>6 DEF RecordConnected, Record, OutcomeInv
  <2>7. SmoothInv'
    BY <1>6, <1>0, <1>none, EventsGrow DEF RecordConnected, Record, SmoothInv, AllWell, WaitedFor, Phases
  <2> QED
    BY <2>1, <2>2, <2>3, <2>4, <2>5, <2>6, <2>7
<1>7. CASE Wait /\ UNCHANGED crashes
  <2>1. PeersInv'
    BY <1>7, <1>0, PeersLeftAlone DEF Wait, PeersOfRun
  <2>2. P2PTypes'
    BY <1>7, <1>0 DEF Wait, Phases, NotMerged, PeersInv, PeersTypeOK, Logs
  <2>3. PeersOfRun'
    BY <1>7 DEF Wait, PeersOfRun, WaitedFor
  <2>4. MergedInv'
    BY <1>7 DEF Wait, MergedInv, NotMerged, PeersOfRun, WaitedFor
  <2>5. EventsInv'
    BY <1>7, <1>0, ExpectedIs, NoNewEvent DEF Wait
  <2>6. OutcomeInv'
    <3>1. /\ run' = "merge" /\ UNCHANGED stage
          /\ ~runErr' => \A r \in Roles : reaped[r] # "error"
      BY <1>7, <1>0 DEF Wait
    <3>2. \A r \in Roles : stage[r] # "none" /\ reaped[r] \in {"nil", "error"}
      BY <1>7 DEF Wait, PeersOfRun, PeersInv, PeersTypeOK
    <3>3. ~runErr' => \A r \in Roles : stage[r] = "ok"
      BY <3>1, <3>2 DEF PeersInv, ReapInv
    <3> QED
      BY <3>1, <3>3 DEF OutcomeInv
  <2>7. SmoothInv'
    BY <1>7, <1>0, <1>none DEF Wait, SmoothInv, AllWell, WaitedFor, Phases
  <2> QED
    BY <2>1, <2>2, <2>3, <2>4, <2>5, <2>6, <2>7
<1>8. CASE Merge("complete") /\ UNCHANGED crashes
  <2>0. run = "merge" /\ run' = "complete" /\ UNCHANGED <<OtherThanCancel, cancelled, late, events>>
    BY <1>8 DEF Merge
  <2>1. PeersInv'
    BY <1>8, <1>0, PeersLeftAlone DEF Merge
  <2>2. /\ runErr' \in BOOLEAN /\ (runErr => runErr')
        /\ \/ /\ \A r \in Roles : stats[r].state = "whole"
              /\ merged' = [state |-> "whole", n |-> [r \in Roles |-> stats[r].n]]
           \/ merged' = [NotMerged EXCEPT !.state = "torn"] /\ runErr' /\ Fault
           \/ UNCHANGED merged /\ runErr' /\ Fault
           \/ /\ UNCHANGED merged /\ runErr'
              /\ \E r \in Roles : stats[r].state # "whole"
    BY <1>8, <1>0 DEF Merge
  <2>3. merged = NotMerged
    BY <2>0 DEF MergedInv
  <2>4. P2PTypes' /\ MergedInv'
    <3>1. CASE /\ \A r \in Roles : stats[r].state = "whole"
               /\ merged' = [state |-> "whole", n |-> [r \in Roles |-> stats[r].n]]
      <4>1. \A r \in Roles : stage[r] \in Ended /\ stats[r].n \in 0..MaxSamples
        <5> TAKE r \in Roles
        <5>1. stats[r].state = "whole" /\ stats[r] \in Logs
          BY <3>1 DEF PeersInv, PeersTypeOK
        <5>2. stage[r] # "none"
          BY <5>1 DEF PeersInv, LogInv, NoLog, Ended
        <5>3. reaped[r] # "no"
          BY <2>0, <5>2 DEF PeersOfRun, WaitedFor
        <5> QED
          BY <5>1, <5>3 DEF PeersInv, ReapInv, Logs
      <4>2. merged'.state = "whole" /\ \A r \in Roles : merged'.n[r] = stats[r].n
        BY <3>1
      <4>3. merged'.n \in [Roles -> 0..MaxSamples]
        BY <3>1, <4>1
      <4> QED
        BY <1>8, <2>0, <2>2, <3>1, <4>1, <4>2, <4>3 DEF MergedInv
    <3>2. CASE merged' = [NotMerged EXCEPT !.state = "torn"] \/ UNCHANGED merged
      <4>1. merged'.state \in {"torn", "none"} /\ merged'.n = [r \in Roles |-> 0]
        BY <2>3, <3>2 DEF NotMerged
      <4> QED
        BY <1>8, <2>0, <2>2, <4>1 DEF MergedInv
    <3> QED
      BY <2>2, <3>1, <3>2
  <2>5. PeersOfRun'
    BY <2>0 DEF PeersOfRun, WaitedFor
  <2>6. EventsInv'
    BY <1>0, <2>0, <2>2, ExpectedIs, NoNewEvent
  <2>7. OutcomeInv'
    BY <2>0, <2>2 DEF OutcomeInv
  <2>8. SmoothInv'
    <3>1. CASE Fault
      BY <3>1, <1>none DEF SmoothInv
    <3>2. CASE Smooth /\ faults' = faults
      <4>1. ~runErr /\ \A r \in Roles : stage[r] = "ok"
        BY <2>0, <3>2 DEF SmoothInv, OutcomeInv
      <4>2. \A r \in Roles : stats[r].state = "whole"
        BY <4>1 DEF PeersInv, LogInv
      <4>3. ~runErr'
        BY <1>8, <4>1, <4>2, <3>2, <1>0 DEF Merge, Fault
      <4> QED
        BY <2>0, <3>2, <4>3 DEF SmoothInv, AllWell, WaitedFor
    <3> QED
      BY <1>8, <2>0, <3>1, <3>2 DEF Merge, SmoothInv
  <2> QED
    BY <2>1, <2>4, <2>5, <2>6, <2>7, <2>8
<1>9. CASE RecordStats /\ UNCHANGED crashes
  <2>1. PeersInv'
    BY <1>9, <1>0, PeersLeftAlone DEF RecordStats, Record, PeersOfRun
  <2>2. P2PTypes'
    BY <1>9, <1>0, EventsGrow DEF RecordStats, Record, Phases, NotMerged, PeersInv, PeersTypeOK, Logs
  <2>3. PeersOfRun'
    BY <1>9 DEF RecordStats, Record, PeersOfRun, WaitedFor
  <2>4. MergedInv'
    BY <1>9 DEF RecordStats, Record, MergedInv, NotMerged, PeersOfRun, WaitedFor
  <2>5. EventsInv'
    <3>1. CASE events' = Append(events, <<"stats_complete", IF merged.state = "whole" THEN "ok" ELSE "error">>) /\ ToWith("cleanup", FALSE)
      <4>1. /\ run = "complete" /\ run' = "cleanup" /\ runErr' = runErr
            /\ UNCHANGED heard
            /\ "stats_complete" \in Phases
        BY <1>9, <1>0, <3>1 DEF RecordStats, Phases
      <4>2. ~runErr' => <<"stats_complete", IF merged.state = "whole" THEN "ok" ELSE "error">> = ExpectedEvents[Expected("cleanup")]
        BY <4>1, ExpectedIs DEF ExpectedEvents, OutcomeInv
      <4> QED
        BY <1>0, <3>1, <4>1, <4>2, ExpectedIs, NewEvent
    <3>2. CASE Fault /\ ToWith("cleanup", TRUE) /\ UNCHANGED events
      <4>1. /\ run = "complete" /\ run' = "cleanup" /\ runErr'
            /\ UNCHANGED <<events, heard>>
        BY <1>9, <1>0, <3>2 DEF RecordStats
      <4> QED
        BY <1>0, <4>1, ExpectedIs, NoNewEvent
    <3> QED
      BY <1>9, <3>1, <3>2 DEF RecordStats, Record
  <2>6. OutcomeInv'
    BY <1>9 DEF RecordStats, Record, OutcomeInv
  <2>7. SmoothInv'
    BY <1>9, <1>0, <1>none, EventsGrow DEF RecordStats, Record, SmoothInv, AllWell, WaitedFor, Phases
  <2> QED
    BY <2>1, <2>2, <2>3, <2>4, <2>5, <2>6, <2>7
<1>10. CASE RecordCleanup /\ UNCHANGED crashes
  <2>1. PeersInv'
    BY <1>10, <1>0, PeersLeftAlone DEF RecordCleanup, Record, PeersOfRun
  <2>2. P2PTypes'
    BY <1>10, <1>0, EventsGrow DEF RecordCleanup, Record, Phases, NotMerged, PeersInv, PeersTypeOK, Logs
  <2>3. PeersOfRun'
    BY <1>10 DEF RecordCleanup, Record, PeersOfRun, WaitedFor
  <2>4. MergedInv'
    BY <1>10 DEF RecordCleanup, Record, MergedInv, NotMerged, PeersOfRun, WaitedFor
  <2>5. EventsInv'
    <3>1. CASE events' = Append(events, <<"cleanup", "ok">>) /\ ToWith("close", FALSE)
      <4>1. /\ run = "cleanup" /\ run' = "close" /\ runErr' = runErr
            /\ UNCHANGED heard
            /\ "cleanup" \in Phases
        BY <1>10, <1>0, <3>1 DEF RecordCleanup, Phases
      <4>2. /\ Expected(run) = 3 /\ Expected(run') = Expected(run) + 1
            /\ <<"cleanup", "ok">> = ExpectedEvents[Expected(run')]
        BY <4>1, ExpectedIs DEF ExpectedEvents
      <4> QED
        BY <1>0, <3>1, <4>1, <4>2, NewEvent, SMTT(30)
    <3>2. CASE Fault /\ ToWith("close", TRUE) /\ UNCHANGED events
      <4>1. /\ run = "cleanup" /\ run' = "close" /\ runErr'
            /\ UNCHANGED <<events, heard>>
        BY <1>10, <1>0, <3>2 DEF RecordCleanup
      <4> QED
        BY <1>0, <4>1, ExpectedIs, NoNewEvent
    <3> QED
      BY <1>10, <3>1, <3>2 DEF RecordCleanup, Record
  <2>6. OutcomeInv'
    BY <1>10 DEF RecordCleanup, Record, OutcomeInv
  <2>7. SmoothInv'
    BY <1>10, <1>0, <1>none, EventsGrow DEF RecordCleanup, Record, SmoothInv, AllWell, WaitedFor, Phases
  <2> QED
    BY <2>1, <2>2, <2>3, <2>4, <2>5, <2>6, <2>7
<1>11. CASE CloseEvents /\ UNCHANGED crashes
  <2>1. PeersInv'
    BY <1>11, <1>0, PeersLeftAlone DEF CloseEvents, PeersOfRun
  <2>2. P2PTypes'
    BY <1>11, <1>0 DEF CloseEvents, Phases, NotMerged, PeersInv, PeersTypeOK, Logs
  <2>3. PeersOfRun'
    BY <1>11 DEF CloseEvents, PeersOfRun, WaitedFor
  <2>4. MergedInv'
    BY <1>11 DEF CloseEvents, MergedInv, NotMerged, PeersOfRun, WaitedFor
  <2>5. EventsInv'
    BY <1>11, <1>0, ExpectedIs, NoNewEvent DEF CloseEvents
  <2>6. OutcomeInv'
    BY <1>11 DEF CloseEvents, OutcomeInv
  <2>7. SmoothInv'
    BY <1>11, <1>0, <1>none DEF CloseEvents, SmoothInv, AllWell, WaitedFor, Phases
  <2> QED
    BY <2>1, <2>2, <2>3, <2>4, <2>5, <2>6, <2>7
<1>12. CASE Timer
  <2>1. PeersInv'
    BY <1>12, <1>0, PeersLeftAlone DEF Timer, ReadyTimeout, GiveUp, PeersOfRun
  <2>2. P2PTypes'
    BY <1>12, <1>0 DEF Timer, ReadyTimeout, GiveUp, Phases, NotMerged, PeersInv, PeersTypeOK, Logs
  <2>3. PeersOfRun'
    BY <1>12 DEF Timer, ReadyTimeout, GiveUp, PeersOfRun, WaitedFor
  <2>4. MergedInv'
    BY <1>12 DEF Timer, ReadyTimeout, GiveUp, MergedInv, NotMerged, PeersOfRun, WaitedFor
  <2>5. EventsInv'
    <3>1. /\ run = "ready" /\ run' = "wait" /\ runErr'
          /\ UNCHANGED <<events, heard>>
      BY <1>12, <1>0 DEF Timer, ReadyTimeout, GiveUp
    <3> QED
      BY <1>0, <3>1, ExpectedIs, NoNewEvent
  <2>6. OutcomeInv'
    BY <1>12 DEF Timer, ReadyTimeout, GiveUp, OutcomeInv
  <2>7. SmoothInv'
    BY <1>12, <1>0, <1>none DEF Timer, ReadyTimeout, GiveUp, SmoothInv, AllWell, WaitedFor, Phases
  <2> QED
    BY <2>1, <2>2, <2>3, <2>4, <2>5, <2>6, <2>7
<1>13. CASE MarkerUnreadable("wait") /\ UNCHANGED crashes
  <2>1. PeersInv'
    BY <1>13, <1>0, PeersLeftAlone DEF MarkerUnreadable, GiveUp, PeersOfRun
  <2>2. P2PTypes'
    BY <1>13, <1>0 DEF MarkerUnreadable, GiveUp, Phases, NotMerged, PeersInv, PeersTypeOK, Logs
  <2>3. PeersOfRun'
    BY <1>13 DEF MarkerUnreadable, GiveUp, PeersOfRun, WaitedFor
  <2>4. MergedInv'
    BY <1>13 DEF MarkerUnreadable, GiveUp, MergedInv, NotMerged, PeersOfRun, WaitedFor
  <2>5. EventsInv'
    <3>1. /\ run = "ready" /\ run' = "wait" /\ runErr'
          /\ UNCHANGED <<events, heard>>
      BY <1>13, <1>0 DEF MarkerUnreadable, GiveUp
    <3> QED
      BY <1>0, <3>1, ExpectedIs, NoNewEvent
  <2>6. OutcomeInv'
    BY <1>13 DEF MarkerUnreadable, GiveUp, OutcomeInv
  <2>7. SmoothInv'
    BY <1>13, <1>0, <1>none DEF MarkerUnreadable, GiveUp, SmoothInv, AllWell, WaitedFor, Phases
  <2> QED
    BY <2>1, <2>2, <2>3, <2>4, <2>5, <2>6, <2>7
<1>14. CASE Crash
  <2>1. PeersInv'
    BY <1>14, <1>0, PeersLeftAlone DEF Crash, PeersOfRun
  <2>2. P2PTypes'
    BY <1>14, <1>0 DEF Crash, Phases, NotMerged, PeersInv, PeersTypeOK, Logs
  <2>3. PeersOfRun'
    BY <1>14 DEF Crash, PeersOfRun, WaitedFor
  <2>4. MergedInv'
    BY <1>14 DEF Crash, MergedInv, NotMerged, PeersOfRun, WaitedFor
  <2>5. EventsInv'
    BY <1>14, <1>0, ExpectedIs, NoNewEvent DEF Crash
  <2>6. OutcomeInv'
    BY <1>14 DEF Crash, OutcomeInv
  <2>7. SmoothInv'
    BY <1>14, <1>0, <1>none DEF Crash, SmoothInv, AllWell, WaitedFor, Phases
  <2> QED
    BY <2>1, <2>2, <2>3, <2>4, <2>5, <2>6, <2>7
<1> QED
  BY <1>1, <1>2, <1>3, <1>4, <1>5, <1>6, <1>7, <1>8, <1>9, <1>10, <1>11, <1>12, <1>13, <1>14 DEF RunStep, Timer

LEMMA StepKeepsP2P == P2PInv /\ [Next]_vars => P2PInv'
<1> SUFFICES ASSUME P2PInv, [Next]_vars PROVE P2PInv'
  OBVIOUS
<1>1. CASE UNCHANGED vars
  BY <1>1
  DEF vars, peerVars, runVars, P2PInv, P2PTypes, PeersInv, PeersTypeOK, HeardInv, LogInv,
      ReapInv, PeersOfRun, WaitedFor, MergedInv, EventsInv, Recorded, BothConnected,
      OutcomeInv, SmoothInv, Smooth, AllWell
<1>2. CASE RunStep \/ Timer \/ Crash \/ (MarkerUnreadable("wait") /\ UNCHANGED crashes)
  BY <1>2, RunKeepsP2P
<1>3. CASE Network
  BY <1>3, PeersKeepP2P DEF Network, Roles
<1>4. ASSUME NEW r \in Roles, PeerNext(r) \/ Supervise(r)
      PROVE  P2PInv'
  BY <1>4, PeersKeepP2P DEF PeerNext, Supervise
<1> QED
  BY <1>1, <1>2, <1>3, <1>4 DEF Next, Over

LEMMA P2PInvariant == Spec => []P2PInv
  BY InitP2P, StepKeepsP2P, PTL DEF Spec

-----------------------------------------------------------------------------
(* What follows.                                                           *)

\* Every variable has its type, in particular a run writes four events at most.
THEOREM P2PTypeCorrect == Spec => []TypeOK
<1>1. P2PInv => TypeOK
  <2> SUFFICES ASSUME P2PInv PROVE TypeOK
    OBVIOUS
  <2>1. Len(events) <= 4
    BY ExpectedIs DEF P2PInv, P2PTypes, EventsInv, RunLabels, RunEnds
  <2> QED
    BY <2>1 DEF P2PInv, P2PTypes, PeersInv, TypeOK, RunsTypeOK
<1> QED
  BY <1>1, P2PInvariant, PTL

\* A run that returns leaves no peer behind, whatever fails.
THEOREM P2PLeavesNoPeer == Spec => []NoPeerOutlivesRun
<1>1. P2PInv => NoPeerOutlivesRun
  BY DEF P2PInv, PeersInv, ReapInv, PeersOfRun, After, WaitedFor, NoPeerOutlivesRun
<1> QED
  BY <1>1, P2PInvariant, PTL

\* A connection is recorded only if both sides had it.
THEOREM P2PConnectedIsBoth == Spec => []ConnectedIsBoth
<1>1. P2PInv => ConnectedIsBoth
  BY DEF P2PInv, EventsInv, ConnectedIsBoth
<1> QED
  BY <1>1, P2PInvariant, PTL

\* stats.jsonl has all that the peers have logged: none logs any more when the
\* run, which has waited for both, merges.
THEOREM P2PMergedIsFinal == Spec => []MergedIsFinal
<1>1. P2PInv => MergedIsFinal
  BY DEF P2PInv, MergedInv, MergedIsFinal
<1> QED
  BY <1>1, P2PInvariant, PTL

\* A run that reports no error is complete.
THEOREM P2PSuccessIsComplete == Spec => []SuccessIsComplete
<1>1. P2PInv => SuccessIsComplete
  <2> SUFFICES ASSUME P2PInv, run = "returned", ~runErr
               PROVE  /\ events = ExpectedEvents
                      /\ merged.state = "whole"
                      /\ \A r \in Roles : stage[r] = "ok" /\ merged.n[r] > 1
    BY DEF SuccessIsComplete
  <2> USE DEF P2PInv
  <2>1. merged.state = "whole" /\ \A r \in Roles : stage[r] = "ok"
    BY DEF OutcomeInv, After
  <2>2. \A r \in Roles : merged.n[r] > 1
    BY <2>1 DEF MergedInv, PeersInv, LogInv
  <2>3. Len(events) = 4 /\ \A k \in 1..4 : events[k] = ExpectedEvents[k]
    BY ExpectedIs DEF EventsInv
  <2>4. events = ExpectedEvents
    BY <2>3 DEF ExpectedEvents, P2PTypes
  <2> QED
    BY <2>1, <2>2, <2>4
<1> QED
  BY <1>1, P2PInvariant, PTL

\* Without a failed call or a timeout nothing goes wrong.
THEOREM P2PFailuresExplained == Spec => []NoUnexplainedFailure
<1>1. P2PInv => NoUnexplainedFailure
  BY DEF P2PInv, SmoothInv, Smooth, AllWell, NoUnexplainedFailure
<1> QED
  BY <1>1, P2PInvariant, PTL

-----------------------------------------------------------------------------
(* The run keeps the promise of Experiment.                                *)

LEMMA InitImplements == Init => Promise!Init
<1> SUFFICES ASSUME Init PROVE Promise!Init
  OBVIOUS
<1>1. \A r \in Roles : Part(r) = "none" /\ stats[r].n = 0
  BY DEF Init, RunsInit, PeersInit, Part, NoLog
<1>2. Verdict = "none"
  BY DEF Init, RunsInit, Verdict, Alive, RunEnds
<1>3. merged.state = "none" /\ merged.n = [r \in Roles |-> 0]
  BY DEF Init, RunsInit, NotMerged
<1> QED
  BY <1>1, <1>2, <1>3 DEF Promise!Init, Promise!Nothing

LEMMA RunImplements ==
    ASSUME P2PInv, P2PInv', RunStep \/ Timer \/ Crash \/ MarkerUnreadable("wait")
    PROVE  [Promise!Next]_(Promise!experiment)
<1> USE DEF Alive, RunEnds
<1>1. ASSUME Alive, UNCHANGED <<stage, stats, merged>>
      PROVE  [Promise!Next]_(Promise!experiment)
  <2>1. CASE Alive'
    BY <1>1, <2>1, StutterImplements
  <2>2. CASE ~Alive'
    BY <1>1, <2>2, ReturnImplements DEF P2PInv, OutcomeInv, After
  <2> QED
    BY <2>1, <2>2
<1>2. CASE Launch("ready", "merge")
  <2>1. Alive /\ Alive' /\ UNCHANGED <<stats, merged>> /\ \A r \in Roles : stage[r] = "none"
    BY <1>2 DEF Launch, At, To, ToWith, P2PInv, PeersOfRun, Before
  <2> QED
    BY <1>1, <1>2, <2>1, LaunchImplements DEF Launch
<1>3. CASE Merge("complete")
  <2>1. Alive /\ Alive' /\ UNCHANGED <<stage, stats>> /\ merged = NotMerged
    BY <1>3 DEF Merge, At, To, ToWith, OtherThanCancel, P2PInv, MergedInv
  <2>2. CASE merged' = [state |-> "whole", n |-> [r \in Roles |-> stats[r].n]]
    <3>1. \A r \in Roles : stage[r] \in Ended
      BY <2>1, <2>2 DEF P2PInv, MergedInv
    <3> QED
      BY <2>1, <2>2, <3>1, MergeImplements
  <2>3. CASE merged' = merged \/ merged' = [NotMerged EXCEPT !.state = "torn"]
    BY <2>1, <2>3, StutterImplements
  <2> QED
    BY <1>3, <2>2, <2>3 DEF Merge
<1>4. CASE \/ Prepare("start") \/ RecordStart \/ Ready("connected") \/ PeerLost
           \/ RecordConnected \/ Wait \/ RecordStats \/ RecordCleanup \/ CloseEvents
  <2>1. Alive /\ UNCHANGED <<stage, stats, merged>>
    BY <1>4
    DEF Prepare, RecordStart, Ready, PeerLost, RecordConnected, Wait, RecordStats,
        RecordCleanup, CloseEvents, GiveUp, At, OtherThanCancel, peerVars
  <2> QED
    BY <1>1, <2>1
<1>5. CASE Timer \/ Crash \/ MarkerUnreadable("wait")
  <2>1. Alive /\ UNCHANGED <<stage, stats, merged>>
    BY <1>5 DEF Timer, ReadyTimeout, Crash, MarkerUnreadable, GiveUp, At, OtherThanCancel,
                peerVars
  <2> QED
    BY <1>1, <2>1
<1> QED
  BY <1>2, <1>3, <1>4, <1>5 DEF RunStep

LEMMA StepImplements ==
    P2PInv /\ P2PInv' /\ [Next]_vars => [Promise!Next]_(Promise!experiment)
<1> SUFFICES ASSUME P2PInv, P2PInv', [Next]_vars
             PROVE  [Promise!Next]_(Promise!experiment)
  OBVIOUS
<1>1. CASE UNCHANGED vars
  BY <1>1, StutterImplements DEF vars, peerVars, runVars, Alive
<1>2. CASE RunStep \/ Timer \/ Crash \/ MarkerUnreadable("wait")
  BY <1>2, RunImplements
<1>3. CASE Network
  BY <1>3, PeersImplement DEF Network, Still, Roles, P2PInv
<1>4. ASSUME NEW r \in Roles, PeerNext(r) \/ Supervise(r)
      PROVE  [Promise!Next]_(Promise!experiment)
  BY <1>4, PeersImplement DEF PeerNext, Supervise, Still, P2PInv
<1> QED
  BY <1>1, <1>2, <1>3, <1>4 DEF Next, Over

\* Whatever fails and whoever is killed, a run is one of Experiment: the peers
\* start together and once, the report is written once, from final logs, and
\* success is what Experiment calls success.
THEOREM P2PImplementsExperiment == Spec => ImplementsExperiment
<1>1. Init => Promise!Init
  BY InitImplements
<1>2. P2PInv /\ P2PInv' /\ [Next]_vars => [Promise!Next]_(Promise!experiment)
  BY StepImplements
<1> QED
  BY <1>1, <1>2, P2PInvariant, PTL DEF Spec, ImplementsExperiment, Promise!Spec

=============================================================================
