------------------------------- MODULE P2PRun -------------------------------
(***************************************************************************)
(* `lab webrtc p2p` (internal/lab/webrtc_p2p.go): the process that starts  *)
(* the two peers, waits until both have left their connected marker, waits *)
(* until both have ended, merges their statistics and writes events.jsonl. *)
(***************************************************************************)
EXTENDS Runs

CONSTANT MaxCrashes  \* how many times the run itself may be killed

ASSUME P2PAssumption == MaxCrashes \in Nat

VARIABLE crashes  \* how many times the run may still be killed

vars == <<peerVars, runVars, crashes>>

RunLabels == {"prepare", "start", "launch", "ready", "connected", "wait",
              "merge", "complete", "cleanup", "close"}

Phases == {"webrtc_start", "connected", "stats_complete", "cleanup"}

Init == RunsInit("prepare") /\ crashes = MaxCrashes

-----------------------------------------------------------------------------

RecordStart ==
    /\ At("start")
    /\ Record("webrtc_start", "ok", FALSE, "launch", "returned")
    /\ UNCHANGED <<OtherThanCancel, cancelled, late, merged>>

\* Mutant: a run that is not ready does not wait for the peers it cancels.
PeerLostNoWait ==
    /\ At("ready") /\ cancelled
    /\ GiveUp("merge") /\ UNCHANGED <<faults, late>>

\* A peer has failed and taken the context along, which the poll waits with.
PeerLost ==
    /\ At("ready") /\ cancelled
    /\ GiveUp("wait") /\ UNCHANGED <<faults, late>>

\* Mutant: the event is recorded at every poll from now on.
RecordConnectedAgain ==
    /\ At("connected")
    /\ \/ Record("connected", "ok", FALSE, "connected", "wait") /\ UNCHANGED cancelled
       \/ To("wait") /\ UNCHANGED <<cancelled, faults, events>>
    /\ UNCHANGED <<OtherThanCancel, late, merged>>

\* A run that cannot record the connection cancels the peers.
RecordConnected ==
    /\ At("connected")
    /\ Record("connected", "ok", FALSE, "wait", "wait")
    /\ cancelled' = (cancelled \/ events' = events)
    /\ UNCHANGED <<OtherThanCancel, late, merged>>

\* statusForError(mergeErr)
RecordStats ==
    /\ At("complete")
    /\ Record("stats_complete", IF merged.state = "whole" THEN "ok" ELSE "error", FALSE,
              "cleanup", "cleanup")
    /\ UNCHANGED <<OtherThanCancel, cancelled, late, merged>>

RecordCleanup ==
    /\ At("cleanup")
    /\ Record("cleanup", "ok", FALSE, "close", "close")
    /\ UNCHANGED <<OtherThanCancel, cancelled, late, merged>>

RunStep ==
    /\ \/ Prepare("start") \/ RecordStart \/ Launch("ready", "merge")
       \/ Ready("connected") \/ PeerLost \/ RecordConnected
       \/ Wait \/ Merge("complete") \/ RecordStats \/ RecordCleanup \/ CloseEvents
    /\ UNCHANGED crashes

Timer == ReadyTimeout("wait") /\ UNCHANGED crashes

\* The run is killed.  Its peers go on; nobody kills or reaps them any more.
Crash ==
    /\ Alive
    /\ crashes > 0 /\ crashes' = crashes - 1
    /\ run' = "crashed"
    /\ UNCHANGED <<peerVars, runErr, events, merged>>

-----------------------------------------------------------------------------

Still == UNCHANGED <<runVars, crashes>>

PeerNext(r) ==
    (PeerStep(r) \/ Timeout(r) \/ SdpUnreadable(r) \/ Hear(r)) /\ Still
Supervise(r) == Alive /\ (Spawn(r, TRUE) \/ Kill(r) \/ Reap(r)) /\ Still
Network == Handshake /\ Still

\* Nothing is left to do.
Over ==
    /\ ~Alive
    /\ \A r \in Roles : stage[r] \notin Running
    /\ UNCHANGED vars

Next ==
    \/ RunStep \/ Timer \/ Crash \/ Network \/ Over
    \/ MarkerUnreadable("wait") /\ UNCHANGED crashes
    \/ \E r \in Roles : PeerNext(r) \/ Supervise(r)

Spec == Init /\ [][Next]_vars

\* Whatever can run does; the network may never connect, no timer need fire
\* but the deadline of the statistics.
Untimed ==
    /\ WF_vars(RunStep)
    /\ \A r \in Roles :
        /\ WF_vars(PeerStep(r) /\ Still)
        /\ WF_vars(Supervise(r))

FairSpec == Spec /\ Untimed

\* The timers fire.
Timers ==
    /\ WF_vars(Timer)
    /\ \A r \in Roles : WF_vars(Timeout(r) /\ Still)

-----------------------------------------------------------------------------
(* Correctness.                                                            *)

TypeOK ==
    /\ RunsTypeOK(RunLabels, Phases, {"ok", "error"})
    /\ crashes \in 0..MaxCrashes

\* However it fails, the run returns only when no peer process is left in the
\* namespaces, where a destroy or the next run would meet it.
NoPeerOutlivesRun ==
    run = "returned" => \A r \in Roles : stage[r] \in Ended \cup {"none"}

\* "connected" in the event log means that the data channel was open on both
\* sides, although the run sees marker files only, and late.
ConnectedIsBoth ==
    Recorded("connected") => BothConnected

ExpectedEvents ==
    <<<<"webrtc_start", "ok">>, <<"connected", "ok">>,
      <<"stats_complete", "ok">>, <<"cleanup", "ok">>>>

\* A run that reports no error is one the user can evaluate: all four phases
\* are recorded, both peers ran to their deadline, and stats.jsonl has what
\* each logged from its connection to the end.
SuccessIsComplete ==
    run = "returned" /\ ~runErr =>
        /\ events = ExpectedEvents
        /\ merged.state = "whole"
        /\ \A r \in Roles : stage[r] = "ok" /\ merged.n[r] > 1

\* As long as no call has failed and no wait has timed out, no peer fails or
\* is killed and the run meets no error: files are never read half written,
\* and nobody cancels a run that is going well.
NoUnexplainedFailure ==
    faults = MaxFaults /\ ~late =>
        /\ ~runErr
        /\ \A r \in Roles : stage[r] \notin {"failed", "killed"}

\* One peer's failure ends the run at once: no timeout, of the run or of the
\* other peer, has to pass first.
FailFast ==
    \A r \in Roles : (Alive /\ stage[r] = "failed") ~> ~Alive

\* The run returns and both peers end whatever the network does, and the
\* peers end although the run that would have killed them was killed itself:
\* there is a timer on every wait.
Termination ==
    Timers => <>[](~Alive /\ \A r \in Roles : stage[r] \notin Running)

=============================================================================
