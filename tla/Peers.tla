------------------------------- MODULE Peers -------------------------------
(***************************************************************************)
(* The two peer processes of a WebRTC run (internal/lab/webrtc_peer.go) and *)
(* the goroutines that start, kill and reap them (webrtc_p2p.go).  Each    *)
(* peer runs in the namespace of its node; they exchange session           *)
(* descriptions through files of the run directory, tell the run through a *)
(* marker file that they are connected, and log their statistics.          *)
(*                                                                         *)
(* The run itself is in the modules that extend this one.                  *)
(***************************************************************************)
EXTENDS Integers, Sequences

CONSTANTS
    MaxSamples,  \* the most statistics records a peer logs before its deadline
    MaxFaults    \* how many calls fail for a reason of their own

ASSUME PeersAssumption == MaxSamples \in Nat /\ MaxSamples > 1 /\ MaxFaults \in Nat

Roles == {"offerer", "answerer"}
Other(r) == IF r = "offerer" THEN "answerer" ELSE "offerer"

\* offer.json and answer.json, and connected.<node>.json of each node.
Files == {"sdp", "connected"} \X Roles
Sdp(r) == <<"sdp", r>>
Marker(r) == <<"connected", r>>

VARIABLES
    stage,      \* stage[r] is what peer r does next, or how it ended
    files,      \* what a reader finds under each name of the run directory
    transport,  \* whether the two peers have reached each other
    heard,      \* heard[r]: the callbacks that r's PeerConnection has made
    stats,      \* stats[r]: the statistics log of r
    reaped,     \* reaped[r]: what runCommand returned for r
    cancelled,  \* whether the context of the peers is cancelled
    faults,     \* how many calls may still fail for a reason of their own
    late        \* whether a wait has timed out

peerVars == <<stage, files, transport, heard, stats, reaped, cancelled, faults, late>>

Signaling == {"gather", "write", "commit", "await"}
Linking == {"connect", "open"}
Logging == {"log", "first", "sample", "close"}
Running == {"start"} \cup Signaling \cup Linking \cup {"mark", "commitMark"} \cup Logging
Ended == {"ok", "failed", "killed"}
Stages == {"none", "spawn"} \cup Running \cup Ended

Callbacks == {"connected", "open"}

\* A log is torn when a write to it has failed half way; a write that fails
\* with nothing written leaves it whole.
Logs == [state : {"none", "whole", "torn"}, n : 0..MaxSamples]
NoLog == [state |-> "none", n |-> 0]

PeersInit ==
    /\ stage = [r \in Roles |-> "none"]
    /\ files = [f \in Files |-> "none"]
    /\ transport = "down"
    /\ heard = [r \in Roles |-> {}]
    /\ stats = [r \in Roles |-> NoLog]
    /\ reaped = [r \in Roles |-> "no"]
    /\ cancelled = FALSE
    /\ faults = MaxFaults
    /\ late = FALSE

PeersTypeOK ==
    /\ stage \in [Roles -> Stages]
    /\ files \in [Files -> {"none", "part", "whole"}]
    /\ transport \in {"down", "up"}
    /\ heard \in [Roles -> SUBSET Callbacks]
    /\ stats \in [Roles -> Logs]
    /\ reaped \in [Roles -> {"no", "nil", "error"}]
    /\ cancelled \in BOOLEAN
    /\ faults \in 0..MaxFaults
    /\ late \in BOOLEAN

-----------------------------------------------------------------------------
(* Steps of a peer.  An error of any call ends the process.                *)

Goto(r, s) == stage' = [stage EXCEPT ![r] = s]

Fault == faults > 0 /\ faults' = faults - 1

\* A call that does nothing the model sees but succeed or fail.
Try(r, next) ==
    /\ \/ Goto(r, next) /\ UNCHANGED faults
       \/ Fault /\ Goto(r, "failed")
    /\ UNCHANGED <<files, transport, heard, stats, reaped, cancelled, late>>

\* PeerConnection, data channel and, for the offerer, the local offer.
Create(r) ==
    /\ stage[r] = "start"
    /\ Try(r, IF r = "offerer" THEN "gather" ELSE "await")

Gather(r) == stage[r] = "gather" /\ Try(r, "write")

\* Mutant: the description is written under its own name.
WriteInPlace(r) ==
    /\ stage[r] = "write"
    /\ files' = [files EXCEPT ![Sdp(r)] = "part"]
    /\ \/ Goto(r, "commit") /\ UNCHANGED faults
       \/ Fault /\ Goto(r, "failed")
    /\ UNCHANGED <<transport, heard, stats, reaped, cancelled, late>>

\* The temporary file, which nobody reads.
Write(r) == stage[r] = "write" /\ Try(r, "commit")

\* os.Rename of the temporary file, of a description or of a marker.
Publish(r, f, next) ==
    /\ \/ files' = [files EXCEPT ![f] = "whole"] /\ Goto(r, next) /\ UNCHANGED faults
       \/ Fault /\ Goto(r, "failed") /\ UNCHANGED files
    /\ UNCHANGED <<transport, heard, stats, reaped, cancelled, late>>

Commit(r) ==
    /\ stage[r] = "commit"
    /\ Publish(r, Sdp(r), IF r = "offerer" THEN "await" ELSE "connect")

\* The poll that finds the other's description, which is then set; the
\* answerer also creates its answer.  A description that does not parse is an
\* error, one that is not there yet is polled for again.
Accept(r) ==
    /\ stage[r] = "await"
    /\ \/ /\ files[Sdp(Other(r))] = "whole"
          /\ Try(r, IF r = "offerer" THEN "connect" ELSE "gather")
       \/ /\ files[Sdp(Other(r))] = "part"
          /\ Goto(r, "failed")
          /\ UNCHANGED <<files, transport, heard, stats, reaped, cancelled, faults, late>>

\* os.ReadFile of a description that is not there yet fails for another reason.
SdpUnreadable(r) ==
    /\ stage[r] = "await" /\ files[Sdp(Other(r))] = "none"
    /\ Fault /\ Goto(r, "failed")
    /\ UNCHANGED <<files, transport, heard, stats, reaped, cancelled, late>>

Connected(r) ==
    /\ stage[r] = "connect" /\ "connected" \in heard[r]
    /\ Goto(r, "open")
    /\ UNCHANGED <<files, transport, heard, stats, reaped, cancelled, faults, late>>

Opened(r) ==
    /\ stage[r] = "open" /\ "open" \in heard[r]
    /\ Goto(r, "mark")
    /\ UNCHANGED <<files, transport, heard, stats, reaped, cancelled, faults, late>>

WriteMarker(r) == stage[r] = "mark" /\ Try(r, "commitMark")

CommitMarker(r) == stage[r] = "commitMark" /\ Publish(r, Marker(r), "log")

\* Mutant: nothing bounds the wait for the data channel.
TimeoutButOpen(r) ==
    /\ stage[r] \in {"gather", "await", "connect"}
    /\ Goto(r, "failed")
    /\ late' = TRUE
    /\ UNCHANGED <<files, transport, heard, stats, reaped, cancelled, faults>>

\* Each wait has webRTCSignalTimeout.
Timeout(r) ==
    /\ stage[r] \in {"gather", "await"} \cup Linking
    /\ Goto(r, "failed")
    /\ late' = TRUE
    /\ UNCHANGED <<files, transport, heard, stats, reaped, cancelled, faults>>

-----------------------------------------------------------------------------
(* The statistics log.                                                     *)

OpenLog(r) ==
    /\ stage[r] = "log"
    /\ \/ /\ stats' = [stats EXCEPT ![r] = [state |-> "whole", n |-> 0]]
          /\ Goto(r, "first") /\ UNCHANGED faults
       \/ Fault /\ Goto(r, "failed") /\ UNCHANGED stats
    /\ UNCHANGED <<files, transport, heard, reaped, cancelled, late>>

\* A write that fails leaves part of the record in the file, or nothing.
Log(r, next) ==
    /\ \/ /\ stats' = [stats EXCEPT ![r].n = @ + 1]
          /\ Goto(r, next) /\ UNCHANGED faults
       \/ /\ Fault
          /\ stats' = [stats EXCEPT ![r].state = "torn"] \/ UNCHANGED stats
          /\ Goto(r, "failed")
    /\ UNCHANGED <<files, transport, heard, reaped, cancelled, late>>

\* One record at once, one at every tick, and one at the deadline.
FirstSample(r) == stage[r] = "first" /\ Log(r, "sample")
Tick(r) == stage[r] = "sample" /\ stats[r].n < MaxSamples - 1 /\ Log(r, "sample")
Deadline(r) == stage[r] = "sample" /\ Log(r, "close")

CloseLog(r) == stage[r] = "close" /\ Try(r, "ok")

PeerStep(r) ==
    \/ Create(r) \/ Gather(r) \/ Write(r) \/ Commit(r) \/ Accept(r)
    \/ Connected(r) \/ Opened(r) \/ WriteMarker(r) \/ CommitMarker(r)
    \/ OpenLog(r) \/ FirstSample(r) \/ Tick(r) \/ Deadline(r) \/ CloseLog(r)

-----------------------------------------------------------------------------
(* The network and the callbacks of the WebRTC library.                    *)

\* Both sides hold both descriptions, and what each sends reaches the other.
Handshake ==
    /\ transport = "down"
    /\ \A r \in Roles : stage[r] \in Linking
    /\ transport' = "up"
    /\ UNCHANGED <<stage, files, heard, stats, reaped, cancelled, faults, late>>

\* Callbacks come in any order, or never; they do not wait for the other side,
\* which may be gone by then.
Hear(r) ==
    /\ transport = "up"
    /\ stage[r] \in Running
    /\ \E c \in Callbacks \ heard[r] : heard' = [heard EXCEPT ![r] = @ \cup {c}]
    /\ UNCHANGED <<stage, files, transport, stats, reaped, cancelled, faults, late>>

-----------------------------------------------------------------------------
(* The goroutine of each peer: runCommand, then cancel if it failed.       *)

\* A command is not started once its context is cancelled, and `ip netns
\* exec` fails if no namespace has the node's name.
Spawn(r, present) ==
    /\ stage[r] = "spawn"
    /\ \/ ~cancelled /\ present /\ Goto(r, "start") /\ UNCHANGED faults
       \/ (cancelled \/ ~present) /\ Goto(r, "failed") /\ UNCHANGED faults
       \/ Fault /\ Goto(r, "failed")
    /\ UNCHANGED <<files, transport, heard, stats, reaped, cancelled, late>>

Kill(r) ==
    /\ cancelled
    /\ stage[r] \in Running
    /\ Goto(r, "killed")
    /\ UNCHANGED <<files, transport, heard, stats, reaped, cancelled, faults, late>>

\* Mutant: a peer that fails does not take the other one along.
ReapAlone(r) ==
    /\ stage[r] \in Ended
    /\ reaped[r] = "no"
    /\ reaped' = [reaped EXCEPT ![r] = IF stage[r] = "ok" THEN "nil" ELSE "error"]
    /\ UNCHANGED <<stage, files, transport, heard, stats, cancelled, faults, late>>

\* A process that ends well just when it is to be killed may count as killed.
Reap(r) ==
    /\ stage[r] \in Ended
    /\ reaped[r] = "no"
    /\ \/ stage[r] = "ok" /\ reaped' = [reaped EXCEPT ![r] = "nil"] /\ UNCHANGED cancelled
       \/ /\ stage[r] # "ok" \/ cancelled
          /\ reaped' = [reaped EXCEPT ![r] = "error"]
          /\ cancelled' = TRUE
    /\ UNCHANGED <<stage, files, transport, heard, stats, faults, late>>

=============================================================================
