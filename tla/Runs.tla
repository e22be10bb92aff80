-------------------------------- MODULE Runs --------------------------------
(***************************************************************************)
(* What `lab webrtc p2p` and `lab scenario run` share: both record their   *)
(* phases in events.jsonl, start the two peers, wait until both have left  *)
(* their connected marker, wait until both have ended, and merge the two   *)
(* statistics logs.  The order of these steps, and where each error leads, *)
(* is in the modules that extend this one: the parameters of the steps say *)
(* where the run goes next.                                                *)
(***************************************************************************)
EXTENDS Peers

VARIABLES
    run,      \* what the run does next
    runErr,   \* whether runErr, or the error returned, is not nil
    events,   \* the phase and the status of each record of events.jsonl
    merged    \* stats.jsonl

runVars == <<run, runErr, events, merged>>

RunEnds == {"returned", "crashed"}

Alive == run \notin RunEnds

\* stats.jsonl is missing, torn, or has so many records of each peer.
NotMerged == [state |-> "none", n |-> [r \in Roles |-> 0]]

RunsInit(first) ==
    /\ PeersInit
    /\ run = first
    /\ runErr = FALSE
    /\ events = <<>>
    /\ merged = NotMerged

RunsTypeOK(labels, phases, statuses) ==
    /\ PeersTypeOK
    /\ run \in labels \cup RunEnds
    /\ runErr \in BOOLEAN
    /\ events \in Seq(phases \X statuses) /\ Len(events) <= 4
    /\ merged.state \in {"none", "torn", "whole"}
    /\ merged.n \in [Roles -> 0..MaxSamples]

-----------------------------------------------------------------------------

At(l) == run = l

To(l) == run' = l /\ UNCHANGED runErr
\* runErr = errors.Join(runErr, err): an error, once joined, stays.
ToWith(l, failed) == run' = l /\ runErr' = (runErr \/ failed)

OtherThanCancel == <<stage, files, transport, heard, stats, reaped>>

\* Appends a record to events.jsonl, with an error to be joined or not.
Record(phase, status, failed, ok, err) ==
    \/ events' = Append(events, <<phase, status>>) /\ ToWith(ok, failed) /\ UNCHANGED faults
    \/ Fault /\ ToWith(err, TRUE) /\ UNCHANGED events

\* Run id, directories, link and event log: no peer is started and no event
\* written if one of them fails.
Prepare(next) ==
    /\ At("prepare")
    /\ \/ To(next) /\ UNCHANGED faults
       \/ Fault /\ ToWith("returned", TRUE)
    /\ UNCHANGED <<OtherThanCancel, cancelled, late, events, merged>>

\* With no executable to run there are no peers to wait for.
Launch(next, without) ==
    /\ At("launch")
    /\ \/ /\ stage' = [r \in Roles |-> "spawn"]
          /\ To(next) /\ UNCHANGED faults
       \/ Fault /\ ToWith(without, TRUE) /\ UNCHANGED stage
    /\ UNCHANGED <<files, transport, heard, stats, reaped, cancelled, late, events, merged>>

\* Mutant: one marker will do.
ReadyWithOne(next) ==
    /\ At("ready")
    /\ \E r \in Roles : files[Marker(r)] = "whole"
    /\ To(next)
    /\ UNCHANGED <<peerVars, events, merged>>

\* The poll that has found both markers.
Ready(next) ==
    /\ At("ready")
    /\ \A r \in Roles : files[Marker(r)] = "whole"
    /\ To(next)
    /\ UNCHANGED <<peerVars, events, merged>>

\* The peers are cancelled, for the run is not ready.
GiveUp(next) ==
    /\ cancelled' = TRUE
    /\ ToWith(next, TRUE)
    /\ UNCHANGED <<OtherThanCancel, events, merged>>

\* The 20 seconds are over.
ReadyTimeout(next) ==
    /\ At("ready") /\ late' = TRUE
    /\ GiveUp(next) /\ UNCHANGED faults

\* os.Stat of a marker fails, not because the file is missing.
MarkerUnreadable(next) ==
    /\ At("ready") /\ Fault
    /\ GiveUp(next) /\ UNCHANGED late

\* Mutant: the error of the offerer, the last one joined, is all that counts.
WaitKeepsLastError ==
    /\ At("wait")
    /\ \A r \in Roles : stage[r] = "none" \/ reaped[r] # "no"
    /\ ToWith("merge", reaped["offerer"] = "error")
    /\ cancelled' = TRUE
    /\ UNCHANGED <<OtherThanCancel, faults, late, events, merged>>

\* Mutant: wg.Done is called once too often.
WaitForOne ==
    /\ At("wait")
    /\ \E r \in Roles : stage[r] = "none" \/ reaped[r] # "no"
    /\ ToWith("merge", \E r \in Roles : reaped[r] = "error")
    /\ UNCHANGED <<peerVars, events, merged>>

\* wg.Wait() if there are peers, the errors of both, and cancel.
Wait ==
    /\ At("wait")
    /\ \A r \in Roles : stage[r] = "none" \/ reaped[r] # "no"
    /\ ToWith("merge", \E r \in Roles : reaped[r] = "error")
    /\ cancelled' = TRUE
    /\ UNCHANGED <<OtherThanCancel, faults, late, events, merged>>

\* Mutant: the logs that can be read are merged.
MergeWhatIsThere(next) ==
    /\ At("merge")
    /\ merged' = [state |-> "whole", n |-> [r \in Roles |-> stats[r].n]]
    /\ To(next) /\ UNCHANGED faults
    /\ UNCHANGED <<OtherThanCancel, cancelled, late, events>>

\* mergeStatsLogs reads both logs before it creates the file it writes.
Merge(next) ==
    /\ At("merge")
    /\ \/ /\ \A r \in Roles : stats[r].state = "whole"
          /\ \/ /\ merged' = [state |-> "whole", n |-> [r \in Roles |-> stats[r].n]]
                /\ To(next) /\ UNCHANGED faults
             \/ /\ Fault
                /\ merged' = [NotMerged EXCEPT !.state = "torn"]
                /\ ToWith(next, TRUE)
       \/ /\ \E r \in Roles : stats[r].state # "whole"
          /\ ToWith(next, TRUE) /\ UNCHANGED <<faults, merged>>
       \/ Fault /\ ToWith(next, TRUE) /\ UNCHANGED merged
    /\ UNCHANGED <<OtherThanCancel, cancelled, late, events>>

CloseEvents ==
    /\ At("close")
    /\ \/ To("returned") /\ UNCHANGED faults
       \/ Fault /\ ToWith("returned", TRUE)
    /\ UNCHANGED <<OtherThanCancel, cancelled, late, events, merged>>

-----------------------------------------------------------------------------
(* Correctness.                                                            *)

Recorded(phase) == \E k \in 1..Len(events) : events[k][1] = phase

BothConnected == \A r \in Roles : heard[r] = Callbacks

\* stats.jsonl, of a failed run too, misses no record of either peer: nobody
\* logs any more when it is written.
MergedIsFinal ==
    merged.state = "whole" => \A r \in Roles : merged.n[r] = stats[r].n

Part(r) ==
    CASE stage[r] = "none"               -> "none"
      [] stage[r] = "ok"                 -> "good"
      [] stage[r] \in {"failed", "killed"} -> "bad"
      [] OTHER                           -> "running"

Verdict ==
    IF Alive THEN "none"
    ELSE IF run = "returned" /\ ~runErr THEN "success" ELSE "failure"

Promise == INSTANCE Experiment WITH
    part    <- [r \in Roles |-> Part(r)],
    log     <- [r \in Roles |-> stats[r].n],
    report  <- [written |-> merged.state = "whole", n |-> merged.n],
    verdict <- Verdict

\* The run keeps what Experiment promises, whatever fails and whenever it or
\* one of its peers ends: the report is written once, from the final logs of
\* peers that were started once, and success means both ended well.
ImplementsExperiment == Promise!Spec

=============================================================================
