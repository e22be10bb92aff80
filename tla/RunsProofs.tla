----------------------------- MODULE RunsProofs -----------------------------
(***************************************************************************)
(* What is proved of the two peers and of the steps that both kinds of run *)
(* share, for any number of samples and faults.                            *)
(***************************************************************************)
EXTENDS Runs, TLAPS

-----------------------------------------------------------------------------
(* The invariant of the peers.                                             *)

\* Nothing is found half written, a step past a wait has heard what it waited
\* for, and so has a peer that has left its marker.
HeardInv ==
    /\ \A f \in Files : files[f] # "part"
    /\ \A r \in Roles :
        /\ stage[r] = "open" => "connected" \in heard[r]
        /\ stage[r] \in {"mark", "commitMark", "ok"} \cup Logging => heard[r] = Callbacks
        /\ files[Marker(r)] = "whole" => heard[r] = Callbacks

\* How much a peer has logged where it is: nothing before it opens its log,
\* two records at least when it has ended well.
LogInv ==
    \A r \in Roles :
        /\ stage[r] \notin {"first", "sample", "close"} \cup Ended => stats[r] = NoLog
        /\ stage[r] \in {"first", "sample", "close", "ok"} => stats[r].state = "whole"
        /\ stage[r] = "first" => stats[r].n = 0
        /\ stage[r] = "sample" => stats[r].n \in 1..(MaxSamples - 1)
        /\ stage[r] \in {"close", "ok"} => stats[r].n > 1

\* A peer is reaped when it has ended, with no error only if it ended well.
ReapInv ==
    \A r \in Roles :
        /\ reaped[r] # "no" => stage[r] \in Ended
        /\ reaped[r] = "nil" => stage[r] = "ok"

PeersInv == PeersTypeOK /\ HeardInv /\ LogInv /\ ReapInv

\* What no step of a peer, of the goroutine beside it or of the network undoes.
Onward ==
    /\ \A r \in Roles :
        /\ stage[r] \in Ended => stage'[r] = stage[r] /\ stats'[r] = stats[r]
        /\ stage'[r] = "none" <=> stage[r] = "none"
        /\ heard[r] \subseteq heard'[r]
        /\ reaped[r] # "no" => reaped'[r] = reaped[r]
    /\ cancelled => cancelled'
    /\ faults' <= faults
    /\ late => late'

LEMMA InitPeers == PeersInit => PeersInv
<1> SUFFICES ASSUME PeersInit PROVE PeersInv
  OBVIOUS
<1> USE PeersAssumption
    DEF PeersInit, Stages, Running, Signaling, Linking, Logging, Ended, NoLog
<1>1. PeersTypeOK
  <2>1. [state |-> "none", n |-> 0] \in Logs /\ MaxFaults \in 0..MaxFaults
    BY DEF Logs
  <2> QED
    BY <2>1 DEF PeersTypeOK
<1>2. \A r \in Roles : Marker(r) \in Files
  BY DEF Marker, Files
<1>3. HeardInv
  BY <1>2 DEF HeardInv
<1>4. LogInv /\ ReapInv
  BY DEF LogInv, ReapInv
<1> QED
  BY <1>1, <1>3, <1>4 DEF PeersInv

-----------------------------------------------------------------------------
(* Each of their steps keeps it.                                           *)

\* Where a call that may fail leads.
LEMMA TryKeeps ==
    ASSUME PeersInv, NEW r \in Roles, NEW next \in Stages \ {"none"}, Try(r, next),
           stage[r] \in Running,
           next = "open" => "connected" \in heard[r],
           next \in {"mark", "commitMark", "ok"} \cup Logging => heard[r] = Callbacks,
           next \notin {"first", "sample"} ,
           next = "ok" <=> stage[r] = "close",
           next # "close",
           stage[r] \in Stages \ {"first", "sample"}
    PROVE  PeersInv' /\ Onward
<1> USE PeersAssumption
    DEF PeersInv, PeersTypeOK, Try, Goto, Fault, Stages, Running, Signaling, Linking, Logging,
        Ended
<1>1. PeersTypeOK'
  OBVIOUS
<1>2. HeardInv'
  BY DEF HeardInv
<1>3. LogInv'
  BY DEF LogInv
<1>4. ReapInv'
  BY DEF ReapInv
<1>5. Onward
  BY DEF Onward
<1> QED
  BY <1>1, <1>2, <1>3, <1>4, <1>5

\* A step that leaves all but a peer's stage, its log and the faults alone.
LEMMA StatsChange ==
    ASSUME PeersInv, NEW r \in Roles, NEW l \in Logs, NEW s \in {"first", "sample", "close", "failed"},
           stage[r] \in {"log", "first", "sample"},
           stats' = [stats EXCEPT ![r] = l] /\ Goto(r, s),
           faults' = faults \/ Fault,
           s # "failed" => l.state = "whole",
           s = "first" => l.n = 0,
           s = "sample" => l.n \in 1..(MaxSamples - 1),
           s = "close" => l.n > 1,
           UNCHANGED <<files, transport, heard, reaped, cancelled, late>>
    PROVE  PeersInv' /\ Onward
<1> USE PeersAssumption
    DEF PeersInv, PeersTypeOK, Goto, Fault, Stages, Running, Signaling, Linking, Logging,
        Ended
<1>1. PeersTypeOK'
  OBVIOUS
<1>2. HeardInv'
  BY DEF HeardInv
<1>3. LogInv'
  BY DEF LogInv
<1>4. ReapInv'
  BY DEF ReapInv
<1>5. Onward
  BY DEF Onward
<1> QED
  BY <1>1, <1>2, <1>3, <1>4, <1>5

LEMMA LogKeeps ==
    ASSUME PeersInv, NEW r \in Roles, NEW next \in {"sample", "close"}, Log(r, next),
           stage[r] \in {"first", "sample"},
           next = "sample" => stats[r].n < MaxSamples - 1,
           next = "close" => stage[r] = "sample"
    PROVE  PeersInv' /\ Onward
<1>1. /\ stats[r] = [state |-> "whole", n |-> stats[r].n]
      /\ stats[r].n \in 0..(MaxSamples - 1)
      /\ stage[r] = "sample" => stats[r].n > 0
  BY PeersAssumption DEF PeersInv, PeersTypeOK, LogInv, Logs
<1>2. CASE stats' = [stats EXCEPT ![r].n = @ + 1] /\ Goto(r, next) /\ UNCHANGED faults
  <2> DEFINE l == [state |-> "whole", n |-> stats[r].n + 1]
  <2>1. l \in Logs /\ l.state = "whole" /\ l.n = stats[r].n + 1
    BY <1>1, PeersAssumption DEF Logs
  <2>2. [stats[r] EXCEPT !.n = @ + 1] = l
    BY <1>1
  <2>3. stats' = [stats EXCEPT ![r] = l]
    BY <1>2, <2>2
  <2>4. /\ next = "sample" => stats[r].n + 1 \in 1..(MaxSamples - 1)
        /\ next = "close" => stats[r].n + 1 > 1
        /\ UNCHANGED <<files, transport, heard, reaped, cancelled, late>>
    BY <1>1, PeersAssumption DEF Log
  <2> HIDE DEF l
  <2> QED
    BY <1>2, <2>1, <2>3, <2>4, StatsChange
<1>3. CASE Fault /\ stats' = [stats EXCEPT ![r].state = "torn"] /\ Goto(r, "failed")
  <2> DEFINE l == [state |-> "torn", n |-> stats[r].n]
  <2>1. l \in Logs
    BY <1>1, PeersAssumption DEF Logs
  <2>2. [stats[r] EXCEPT !.state = "torn"] = l
    BY <1>1
  <2>3. stats' = [stats EXCEPT ![r] = l]
    BY <1>3, <2>2
  <2> HIDE DEF l
  <2> QED
    BY <1>1, <1>3, <2>1, <2>3, StatsChange DEF Log
<1>4. CASE Fault /\ UNCHANGED stats /\ Goto(r, "failed")
  <2>1. stats' = [stats EXCEPT ![r] = stats[r]] /\ stats[r] \in Logs
    BY <1>4 DEF PeersInv, PeersTypeOK
  <2> QED
    BY <1>1, <1>4, <2>1, StatsChange DEF Log
<1> QED
  BY <1>2, <1>3, <1>4 DEF Log

LEMMA PeerStepKeeps ==
    ASSUME PeersInv, NEW r \in Roles, PeerStep(r)
    PROVE  PeersInv' /\ Onward
<1> USE PeersAssumption
    DEF PeersInv, PeersTypeOK, Goto, Fault, Stages, Running, Signaling, Linking, Logging,
        Ended, HeardInv, LogInv, ReapInv, Onward
<1>1. CASE Create(r)
  BY <1>1, TryKeeps DEF Create
<1>2. CASE Gather(r)
  BY <1>2, TryKeeps DEF Gather
<1>3. CASE Write(r)
  BY <1>3, TryKeeps DEF Write
<1>4. CASE Commit(r)
  BY <1>4, SMTT(30) DEF Commit, Publish, Sdp, Marker, Files, Roles
<1>5. CASE Accept(r)
  <2>1. Sdp(Other(r)) \in Files
    BY DEF Sdp, Other, Files, Roles
  <2>2. Try(r, IF r = "offerer" THEN "connect" ELSE "gather") /\ stage[r] = "await"
    BY <1>5, <2>1 DEF Accept
  <2> QED
    BY <2>2, TryKeeps
<1>6. CASE Connected(r)
  BY <1>6 DEF Connected
<1>7. CASE Opened(r)
  BY <1>7 DEF Opened, Callbacks
<1>8. CASE WriteMarker(r)
  BY <1>8, TryKeeps DEF WriteMarker
<1>9. CASE CommitMarker(r)
  BY <1>9 DEF CommitMarker, Publish, Sdp, Marker, Files, Roles
<1>10. CASE OpenLog(r)
  <2> DEFINE l == [state |-> "whole", n |-> 0]
  <2>1. l \in Logs /\ l.state = "whole" /\ l.n = 0
    BY DEF Logs
  <2>2. CASE stats' = [stats EXCEPT ![r] = l] /\ Goto(r, "first") /\ UNCHANGED faults
    <3> HIDE DEF l
    <3> QED
      BY <1>10, <2>1, <2>2, StatsChange DEF OpenLog
  <2>3. CASE Fault /\ Goto(r, "failed") /\ UNCHANGED stats
    <3>1. stats' = [stats EXCEPT ![r] = stats[r]] /\ stats[r] \in Logs
      BY <2>3
    <3> QED
      BY <1>10, <2>3, <3>1, StatsChange DEF OpenLog
  <2> QED
    BY <1>10, <2>2, <2>3 DEF OpenLog
<1>11. CASE FirstSample(r)
  BY <1>11, LogKeeps DEF FirstSample
<1>12. CASE Tick(r)
  BY <1>12, LogKeeps DEF Tick
<1>13. CASE Deadline(r)
  BY <1>13, LogKeeps DEF Deadline
<1>14. CASE CloseLog(r)
  BY <1>14, TryKeeps DEF CloseLog
<1> QED
  BY <1>1, <1>2, <1>3, <1>4, <1>5, <1>6, <1>7, <1>8, <1>9, <1>10, <1>11, <1>12,
     <1>13, <1>14 DEF PeerStep

LEMMA OtherStepsKeep ==
    ASSUME PeersInv, NEW r \in Roles,
           \/ Timeout(r) \/ SdpUnreadable(r) \/ Hear(r) \/ Handshake
           \/ Spawn(r, TRUE) \/ Spawn(r, FALSE) \/ Kill(r) \/ Reap(r)
    PROVE  PeersInv' /\ Onward
<1> USE PeersAssumption
    DEF PeersInv, PeersTypeOK, Goto, Fault, Stages, Running, Signaling, Linking, Logging,
        Ended, HeardInv, LogInv, ReapInv, Onward
<1>1. CASE Timeout(r)
  BY <1>1 DEF Timeout
<1>2. CASE Hear(r)
  BY <1>2 DEF Hear, Callbacks
<1>3. CASE Handshake
  BY <1>3 DEF Handshake
<1>4. CASE Spawn(r, TRUE) \/ Spawn(r, FALSE)
  BY <1>4 DEF Spawn
<1>5. CASE Kill(r)
  BY <1>5 DEF Kill
<1>6. CASE Reap(r)
  <2>1. reaped' \in [Roles -> {"no", "nil", "error"}] /\ cancelled' \in BOOLEAN
    BY <1>6 DEF Reap
  <2>2. UNCHANGED <<stage, files, transport, heard, stats, faults, late>>
    BY <1>6 DEF Reap
  <2>3. ReapInv' /\ Onward
    BY <1>6, <2>2 DEF Reap
  <2> QED
    BY <2>1, <2>2, <2>3
<1>7. CASE SdpUnreadable(r)
  <2>1. Try(r, "connect") /\ stage[r] = "await"
    BY <1>7 DEF SdpUnreadable, Try
  <2> QED
    BY <2>1, TryKeeps
<1> QED
  BY <1>1, <1>2, <1>3, <1>4, <1>5, <1>6, <1>7

\* A step of the run that touches no peer, but perhaps their context.
LEMMA PeersLeftAlone ==
    ASSUME PeersInv, UNCHANGED OtherThanCancel, cancelled' \in BOOLEAN, late' \in BOOLEAN,
           faults' = faults \/ Fault
    PROVE  PeersInv'
<1> USE DEF PeersInv, OtherThanCancel
<1>1. PeersTypeOK'
  BY PeersAssumption DEF PeersTypeOK, Fault
<1>2. HeardInv' /\ LogInv' /\ ReapInv'
  BY DEF HeardInv, LogInv, ReapInv
<1> QED
  BY <1>1, <1>2

LEMMA LaunchKeepsPeers ==
    ASSUME PeersInv, \A r \in Roles : stage[r] = "none", NEW next, NEW without,
           Launch(next, without)
    PROVE  PeersInv'
<1>1. CASE stage' = [r \in Roles |-> "spawn"] /\ UNCHANGED faults
  <2> USE <1>1 DEF Launch, PeersInv
  <2>1. PeersTypeOK'
    BY DEF PeersTypeOK, Stages
  <2>2. HeardInv' /\ LogInv' /\ ReapInv'
    BY DEF HeardInv, LogInv, ReapInv, Logging, Ended
  <2> QED
    BY <2>1, <2>2
<1>2. CASE Fault /\ UNCHANGED stage
  BY <1>2, PeersLeftAlone DEF Launch, OtherThanCancel, PeersInv, PeersTypeOK
<1> QED
  BY <1>1, <1>2 DEF Launch

-----------------------------------------------------------------------------
(* What the invariants of both kinds of run are made of.                   *)

\* No call has failed and no wait has timed out.
Smooth == faults = MaxFaults /\ ~late

\* No peer has failed or was killed.
AllWell == \A r \in Roles : stage[r] \notin {"failed", "killed"} /\ reaped[r] # "error"

\* No peer is running, or waited for, any more.
WaitedFor == \A r \in Roles : stage[r] = "none" \/ reaped[r] # "no"

\* A peer does not fail by itself, nor is it killed before it is waited for.
LEMMA SmoothPeers ==
    ASSUME PeersInv, NEW r \in Roles, Smooth', Smooth => AllWell,
           Smooth /\ cancelled => WaitedFor,
           \/ PeerStep(r) \/ Timeout(r) \/ SdpUnreadable(r) \/ Hear(r) \/ Handshake
           \/ Spawn(r, TRUE) \/ Kill(r) \/ Reap(r)
    PROVE  Smooth /\ AllWell' /\ UNCHANGED cancelled
<1>1. Onward
  BY PeerStepKeeps, OtherStepsKeep
<1>2. Smooth /\ AllWell /\ faults' = faults /\ UNCHANGED late
  <2>1. faults = MaxFaults /\ faults' = faults
    BY <1>1, PeersAssumption DEF Smooth, Onward, PeersInv, PeersTypeOK
  <2>2. late = FALSE /\ ~late'
    BY <1>1 DEF Smooth, Onward, PeersInv, PeersTypeOK
  <2>3. late' = FALSE
    BY <1>1, <2>2, PeerStepKeeps, OtherStepsKeep DEF PeersInv, PeersTypeOK
  <2> QED
    BY <2>1, <2>2, <2>3 DEF Smooth
<1>3. ~Fault
  BY <1>2, PeersAssumption DEF Fault, PeersInv, PeersTypeOK
<1>4. cancelled => stage[r] = "none" \/ (stage[r] \in Ended /\ reaped[r] # "no")
  BY <1>2 DEF WaitedFor, PeersInv, ReapInv
<1> USE <1>2, <1>3 DEF AllWell, PeersInv, PeersTypeOK, Goto, Smooth
<1>5. CASE PeerStep(r)
  <2>1. ~(stage[r] = "await" /\ files[Sdp(Other(r))] = "part")
    BY DEF HeardInv, Sdp, Other, Files, Roles
  <2>2. /\ \E s : s \notin {"failed", "killed"} /\ Goto(r, s)
        /\ UNCHANGED <<reaped, cancelled>>
    <3>1. CASE Create(r) \/ Gather(r) \/ Write(r) \/ WriteMarker(r) \/ CloseLog(r)
      BY <3>1 DEF Create, Gather, Write, WriteMarker, CloseLog, Try
    <3>2. CASE Commit(r) \/ CommitMarker(r)
      BY <3>2 DEF Commit, CommitMarker, Publish
    <3>3. CASE Accept(r)
      BY <2>1, <3>3 DEF Accept, Try
    <3>4. CASE Connected(r) \/ Opened(r) \/ OpenLog(r)
      BY <3>4 DEF Connected, Opened, OpenLog
    <3>5. CASE FirstSample(r) \/ Tick(r) \/ Deadline(r)
      BY <3>5 DEF FirstSample, Tick, Deadline, Log
    <3> QED
      BY <1>5, <3>1, <3>2, <3>3, <3>4, <3>5 DEF PeerStep
  <2> QED
    BY <2>2
<1>6. CASE Timeout(r) \/ SdpUnreadable(r) \/ Hear(r) \/ Handshake
  BY <1>6 DEF Timeout, SdpUnreadable, Hear, Handshake
<1>7. CASE Spawn(r, TRUE) \/ Kill(r)
  BY <1>4, <1>7 DEF Spawn, Kill, Ended, Running, Signaling, Linking, Logging
<1>8. CASE Reap(r)
  BY <1>4, <1>8 DEF Reap, Ended
<1> QED
  BY <1>5, <1>6, <1>7, <1>8

\* A record that is appended to the event log.
LEMMA EventsGrow ==
    ASSUME NEW phases, NEW statuses, NEW phase \in phases, NEW status \in statuses,
           events \in Seq(phases \X statuses), events' = Append(events, <<phase, status>>)
    PROVE  /\ events' \in Seq(phases \X statuses)
           /\ Len(events') = Len(events) + 1
           /\ events' # events
           /\ events'[Len(events) + 1] = <<phase, status>>
           /\ \A k \in 1..Len(events) : events'[k] = events[k]
           /\ \A other : other # phase => (Recorded(other)' => Recorded(other))
<1>1. /\ events' \in Seq(phases \X statuses)
      /\ Len(events) \in Nat
      /\ Len(events') = Len(events) + 1
      /\ events'[Len(events) + 1] = <<phase, status>>
      /\ \A k \in 1..Len(events) : events'[k] = events[k]
  OBVIOUS
<1>2. events' # events
  BY <1>1
<1>3. ASSUME NEW other, other # phase, Recorded(other)'
      PROVE  Recorded(other)
  <2>1. PICK k \in 1..Len(events') : events'[k][1] = other
    BY <1>3 DEF Recorded
  <2>2. k # Len(events) + 1
    BY <1>1, <1>3, <2>1
  <2>3. k \in 1..Len(events)
    BY <1>1, <2>1, <2>2
  <2> QED
    BY <1>1, <2>1, <2>3 DEF Recorded
<1> QED
  BY <1>1, <1>2, <1>3

-----------------------------------------------------------------------------
(* What each step is to Experiment.                                        *)

\* What becomes of a peer and its log: nothing that Experiment sees, or the
\* peer goes on or fails, or it ends well, or it logs a record.
GoesOn(r) ==
    /\ stage[r] \in Running \cup {"spawn"}
    /\ \E s \in Running \cup {"failed", "killed"} : Goto(r, s)
    /\ \A q \in Roles : stats'[q].n = stats[q].n
EndsWell(r) == stage[r] = "close" /\ Goto(r, "ok") /\ UNCHANGED stats
Logs1(r) ==
    /\ stage[r] \in Running
    /\ \E s \in Running : Goto(r, s)
    /\ stats[r].n < MaxSamples /\ stats'[r].n = stats[r].n + 1
    /\ \A q \in Roles \ {r} : stats'[q].n = stats[q].n

LEMMA LogShape ==
    ASSUME PeersInv, NEW r \in Roles, NEW next \in {"sample", "close"}, Log(r, next),
           stage[r] \in {"first", "sample"}
    PROVE  GoesOn(r) \/ Logs1(r)
<1> USE DEF Running, Signaling, Linking, Logging, PeersInv, PeersTypeOK
<1>1. stats[r] \in Logs /\ stats[r].n \in Nat /\ stats[r].n < MaxSamples
  BY PeersAssumption DEF LogInv, Logs
<1>2. CASE stats' = [stats EXCEPT ![r].n = @ + 1] /\ Goto(r, next)
  <2>1. stats'[r].n = stats[r].n + 1 /\ \A q \in Roles \ {r} : stats'[q] = stats[q]
    BY <1>1, <1>2 DEF Logs
  <2> QED
    BY <1>1, <1>2, <2>1 DEF Logs1
<1>3. CASE stats' = [stats EXCEPT ![r].state = "torn"] /\ Goto(r, "failed")
  <2>1. stats'[r].n = stats[r].n /\ \A q \in Roles \ {r} : stats'[q] = stats[q]
    BY <1>1, <1>3 DEF Logs
  <2> QED
    BY <1>3, <2>1 DEF GoesOn
<1>4. CASE UNCHANGED stats /\ Goto(r, "failed")
  BY <1>4 DEF GoesOn
<1> QED
  BY <1>2, <1>3, <1>4 DEF Log

LEMMA PeerShape ==
    ASSUME PeersInv, NEW r \in Roles,
           \/ PeerStep(r) \/ Timeout(r) \/ SdpUnreadable(r) \/ Hear(r) \/ Handshake
           \/ Spawn(r, TRUE) \/ Spawn(r, FALSE) \/ Kill(r) \/ Reap(r)
    PROVE  UNCHANGED <<stage, stats>> \/ GoesOn(r) \/ EndsWell(r) \/ Logs1(r)
<1> USE DEF GoesOn, Running, Signaling, Linking, Logging
<1>1. CASE Create(r) \/ Gather(r) \/ Write(r) \/ Accept(r) \/ WriteMarker(r)
  BY <1>1 DEF Create, Gather, Write, Accept, WriteMarker, Try
<1>2. CASE Commit(r) \/ CommitMarker(r) \/ Connected(r) \/ Opened(r)
  BY <1>2 DEF Commit, CommitMarker, Publish, Connected, Opened
<1>3. CASE OpenLog(r)
  <2>1. stage[r] = "log" /\ \E s \in {"first", "failed"} : Goto(r, s)
    BY <1>3 DEF OpenLog
  <2>2. stats[r].n = 0
    BY <2>1 DEF PeersInv, LogInv, NoLog, Ended
  <2>3. \A q \in Roles : stats'[q].n = stats[q].n
    BY <1>3, <2>2 DEF OpenLog, PeersInv, PeersTypeOK
  <2> QED
    BY <2>1, <2>3
<1>4. CASE FirstSample(r) \/ Tick(r) \/ Deadline(r)
  BY <1>4, LogShape DEF FirstSample, Tick, Deadline
<1>5. CASE CloseLog(r)
  BY <1>5 DEF CloseLog, Try, EndsWell
<1>6. CASE Timeout(r) \/ SdpUnreadable(r) \/ Hear(r) \/ Handshake
  BY <1>6 DEF Timeout, SdpUnreadable, Hear, Handshake
<1>7. CASE Spawn(r, TRUE) \/ Spawn(r, FALSE) \/ Kill(r) \/ Reap(r)
  BY <1>7 DEF Spawn, Kill, Reap
<1> QED
  BY <1>1, <1>2, <1>3, <1>4, <1>5, <1>6, <1>7 DEF PeerStep

LEMMA PeersImplement ==
    ASSUME PeersInv, NEW r \in Roles, UNCHANGED runVars,
           \/ PeerStep(r) \/ Timeout(r) \/ SdpUnreadable(r) \/ Hear(r) \/ Handshake
           \/ Spawn(r, TRUE) \/ Spawn(r, FALSE) \/ Kill(r) \/ Reap(r)
    PROVE  [Promise!Next]_(Promise!experiment)
<1> USE DEF Promise!experiment, runVars
<1>0. Verdict' = Verdict
  BY DEF Verdict, Alive
<1>1. CASE UNCHANGED <<stage, stats>>
  BY <1>0, <1>1 DEF Part
<1>2. CASE GoesOn(r)
  <2>1. PICK s \in Running \cup {"failed", "killed"} : Goto(r, s)
    BY <1>2 DEF GoesOn
  <2>2. /\ Part(r) = "running"
        /\ \A q \in Roles \ {r} : Part(q)' = Part(q)
        /\ Part(r)' = IF s \in Running THEN "running" ELSE "bad"
    BY <1>2, <2>1 DEF GoesOn, Part, Goto, PeersInv, PeersTypeOK, Running, Signaling, Linking,
                      Logging
  <2>3. [q \in Roles |-> stats[q].n]' = [q \in Roles |-> stats[q].n]
    BY <1>2 DEF GoesOn
  <2>4. CASE s \in Running
    BY <1>0, <2>2, <2>3, <2>4
  <2>5. CASE s \notin Running
    <3>1. [q \in Roles |-> Part(q)]' = [[q \in Roles |-> Part(q)] EXCEPT ![r] = "bad"]
      BY <2>2, <2>5
    <3>2. Promise!End(r)
      BY <1>0, <2>2, <2>3, <3>1 DEF Promise!End
    <3> QED
      BY <3>2 DEF Promise!Next
  <2> QED
    BY <2>4, <2>5
<1>3. CASE EndsWell(r)
  <2>1. /\ Part(r) = "running" /\ stats[r].n > 1
        /\ \A q \in Roles \ {r} : Part(q)' = Part(q)
        /\ Part(r)' = "good"
    BY <1>3 DEF EndsWell, Part, Goto, PeersInv, PeersTypeOK, LogInv
  <2>2. [q \in Roles |-> Part(q)]' = [[q \in Roles |-> Part(q)] EXCEPT ![r] = "good"]
    BY <2>1
  <2>3. Promise!End(r)
    BY <1>0, <1>3, <2>1, <2>2 DEF Promise!End, EndsWell
  <2> QED
    BY <2>3 DEF Promise!Next
<1>4. CASE Logs1(r)
  <2>1. /\ Part(r) = "running"
        /\ \A q \in Roles : Part(q)' = Part(q)
    BY <1>4 DEF Logs1, Part, Goto, PeersInv, PeersTypeOK, Running, Signaling, Linking, Logging
  <2>2. [q \in Roles |-> stats[q].n]'
          = [[q \in Roles |-> stats[q].n] EXCEPT ![r] = stats[r].n + 1]
    BY <1>4 DEF Logs1
  <2>3. Promise!Log(r)
    BY <1>0, <1>4, <2>1, <2>2 DEF Promise!Log, Logs1
  <2> QED
    BY <2>3 DEF Promise!Next
<1> QED
  BY <1>1, <1>2, <1>3, <1>4, PeerShape

LEMMA Verdicts ==
    /\ Alive => Verdict = "none"
    /\ ~Alive /\ run = "returned" /\ ~runErr => Verdict = "success"
    /\ ~Alive /\ ~(run = "returned" /\ ~runErr) => Verdict = "failure"
  BY DEF Verdict

LEMMA VerdictsNext ==
    /\ Alive' => Verdict' = "none"
    /\ ~Alive' /\ run' = "returned" /\ ~runErr' => Verdict' = "success"
    /\ ~Alive' /\ ~(run' = "returned" /\ ~runErr') => Verdict' = "failure"
  BY DEF Verdict

\* The steps of the run: the peers are launched, the report is written, the
\* run comes to its end, or Experiment does not see the step.
LEMMA LaunchImplements ==
    ASSUME Alive, Alive', \A r \in Roles : stage[r] = "none", UNCHANGED <<stats, merged>>,
           stage' = [r \in Roles |-> "spawn"]
    PROVE  Promise!Next
<1>1. \A r \in Roles : Part(r) = "none" /\ Part(r)' = "running"
  BY DEF Part
<1>2. Promise!Begin
  BY <1>1, Verdicts, VerdictsNext DEF Promise!Begin
<1> QED
  BY <1>2 DEF Promise!Next

LEMMA MergeImplements ==
    ASSUME Alive, Alive', UNCHANGED <<stage, stats>>, merged = NotMerged,
           \A r \in Roles : stage[r] \in Ended,
           merged' = [state |-> "whole", n |-> [r \in Roles |-> stats[r].n]]
    PROVE  Promise!Next
<1>1. \A r \in Roles : Part(r) \in {"good", "bad"} /\ Part(r)' = Part(r)
  BY DEF Part, Ended
<1>2. Promise!Report
  BY <1>1, Verdicts, VerdictsNext DEF Promise!Report, NotMerged, Promise!Nothing
<1> QED
  BY <1>2 DEF Promise!Next

LEMMA ReturnImplements ==
    ASSUME Alive, ~Alive', UNCHANGED <<stage, stats, merged>>,
           run' = "returned" /\ ~runErr' =>
              merged.state = "whole" /\ \A r \in Roles : stage[r] = "ok"
    PROVE  Promise!Next
<1>1. \A r \in Roles : Part(r)' = Part(r) /\ (stage[r] = "ok" => Part(r) = "good")
  BY DEF Part
<1>2. Promise!Conclude
  BY <1>1, Verdicts, VerdictsNext DEF Promise!Conclude
<1> QED
  BY <1>2 DEF Promise!Next

LEMMA StutterImplements ==
    ASSUME Alive <=> Alive', UNCHANGED <<stage, stats>>, ~Alive => UNCHANGED <<run, runErr>>,
           merged' = merged \/ (merged = NotMerged /\ merged' = [NotMerged EXCEPT !.state = "torn"])
    PROVE  UNCHANGED (Promise!experiment)
<1>1. \A r \in Roles : Part(r)' = Part(r)
  BY DEF Part
<1>2. merged'.n = merged.n /\ (merged'.state = "whole" <=> merged.state = "whole")
  BY DEF NotMerged
<1>3. Verdict' = Verdict
  BY Verdicts, VerdictsNext
<1> QED
  BY <1>1, <1>2, <1>3 DEF Promise!experiment

=============================================================================
