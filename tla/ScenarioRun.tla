---------------------------- MODULE ScenarioRun ----------------------------
(***************************************************************************)
(* `lab scenario run` (internal/lab/scenario.go): the process that starts  *)
(* the two peers, and while they exchange data applies an impairment to    *)
(* the offerer's node, clears it, clears it once more, and records each    *)
(* phase.  Apply and clear are those of module Lab, called in the same     *)
(* process, on a lab of two nodes that create has left behind.  Meanwhile  *)
(* others may run apply, clear or destroy, once each.                      *)
(*                                                                         *)
(* The durations of the phases are left out: a phase takes as long as the  *)
(* peers and the other processes need.                                     *)
(***************************************************************************)
EXTENDS Runs

CONSTANTS
    Me,          \* the process of the run
    Others,      \* other processes, which run one invocation each
    Given,       \* the sets of impairment flags that the run may be given
    Before,      \* the impairments that its node may have already
    MaxCrashes,  \* how many processes may be killed
    Hasty,       \* whether a wait may time out while there is hope
    NoState      \* there is no state file

ASSUME ScenarioAssumption ==
    /\ Me \notin Others
    /\ Given \subseteq SUBSET {"delay", "loss", "jitter", "bw"}
    /\ Before \subseteq SUBSET {"delay", "loss", "jitter", "bw"}
    /\ MaxCrashes \in Nat
    /\ Hasty \in BOOLEAN

VARIABLES
    condition,                  \* what the run applies
    unwritten,                  \* history: the phases whose record failed
    host, stateFile, crashes,   \* as in Lab
    pc, undo, loc, result       \* as in Lab

\* The others ask for another impairment than the run does.
L == INSTANCE Lab WITH
    Procs         <- {Me} \cup Others,
    Ops           <- {"apply", "clear", "destroy"},
    SerialOps     <- {},
    Requests      <- {{"loss"}},
    FaultyCleanup <- FALSE,
    MaxNodes      <- 2,
    RuleCount     <- 1,
    HostForward   <- 0,
    HostRules     <- {}

\* As in Lab; INSTANCE does not bring the assumption along.
ASSUME StateAssumption == NoState \notin L!State

labVars == <<host, stateFile, pc, undo, loc, result, crashes>>
vars == <<peerVars, runVars, condition, unwritten, labVars>>

RunLabels == {"validate", "namespaces", "prepare", "launch", "ready", "baseline",
              "apply", "impaired", "clear", "recovery", "skip", "cleanup",
              "cleaned", "wait", "merge", "close", "abort"}

Phases == {"baseline", "impaired", "recovery", "cleanup"}
Statuses == {"ok", "error", "skipped", "cleared", "absent"}

\* --node and --peer.
NodeOf(r) == IF r = "offerer" THEN 1 ELSE 2
Node == NodeOf("offerer")

\* What `lab create --nodes 2` leaves, and perhaps an impairment since.
BuiltLab(impairment) ==
    [ L!UntouchedHost EXCEPT
        !.bridge = TRUE,
        !.netns = {1, 2}, !.ports = {1, 2}, !.eth0 = {1, 2},
        !.veth = [i \in 1..2 |-> "moved"],
        !.rules = [r \in 1..1 |-> 1],
        !.forward = 1,
        !.qdisc[Node] = impairment ]

Init ==
    /\ RunsInit("validate")
    /\ condition = {}
    /\ unwritten = {}
    /\ \E impairment \in Before : host = BuiltLab(impairment)
    /\ stateFile = [nodes |-> 2, forward |-> 0]
    /\ pc = [p \in {Me} \cup Others |-> "idle"]
    /\ undo = [p \in {Me} \cup Others |-> <<>>]
    /\ loc = [p \in {Me} \cup Others |-> L!Blank]
    /\ result = [p \in {Me} \cup Others |-> "none"]
    /\ crashes = MaxCrashes

-----------------------------------------------------------------------------
(* Before the peers are started.                                           *)

OnlyRun == UNCHANGED <<condition, unwritten, labVars>>

\* normalizeScenarioRunOptions: a congestion needs a bandwidth, if nothing else.
Normalized(flags) ==
    IF flags \cap {"delay", "loss", "bw"} = {} THEN flags \cup {"bw"} ELSE flags

ValidCondition(flags) == "jitter" \in flags => "delay" \in flags

\* The options and the environment, then the state file.
Validate ==
    /\ At("validate")
    /\ \E flags \in Given :
        /\ condition' = Normalized(flags)
        /\ \/ /\ ValidCondition(condition')
              /\ \A r \in Roles : L!Lists(stateFile, NodeOf(r))
              /\ To("namespaces") /\ UNCHANGED faults
           \/ /\ \/ ~ValidCondition(condition')
                 \/ \E r \in Roles : ~L!Lists(stateFile, NodeOf(r))
              /\ ToWith("returned", TRUE) /\ UNCHANGED faults
           \/ Fault /\ ToWith("returned", TRUE)
    /\ UNCHANGED <<OtherThanCancel, cancelled, late, events, merged, unwritten, labVars>>

Present(r) == NodeOf(r) \in host.netns

ValidateNamespaces ==
    /\ At("namespaces")
    /\ \/ (\A r \in Roles : Present(r)) /\ To("prepare") /\ UNCHANGED faults
       \/ (\E r \in Roles : ~Present(r)) /\ ToWith("returned", TRUE) /\ UNCHANGED faults
       \/ Fault /\ ToWith("returned", TRUE)
    /\ UNCHANGED <<OtherThanCancel, cancelled, late, events, merged>>
    /\ OnlyRun

-----------------------------------------------------------------------------
(* The phases.                                                             *)

Phase(name, status, failed, ok, err) ==
    /\ Record(name, status, failed, ok, err)
    /\ unwritten' = IF events' = events THEN unwritten \cup {name} ELSE unwritten
    /\ UNCHANGED <<OtherThanCancel, late, merged, condition, labVars>>

\* Without it the run returns, and its deferred calls cancel the peers.
Baseline ==
    /\ At("baseline")
    /\ Phase("baseline", "ok", FALSE, "apply", "abort")
    /\ cancelled' = (cancelled \/ run' = "abort")

\* The process is about to exit; what it does not kill by then stays.
Abort ==
    /\ At("abort")
    /\ To("returned")
    /\ UNCHANGED <<peerVars, events, merged>>
    /\ OnlyRun

\* Mutant: what is cleared is the other node.
CallClearsPeer(op, flags, next) ==
    /\ To(next)
    /\ \/ L!Start(Me, op, "tLoad", IF op = "clear" THEN NodeOf("answerer") ELSE Node, flags)
       \/ Fault /\ L!Fail(Me) /\ UNCHANGED <<host, stateFile, crashes>>
    /\ UNCHANGED <<OtherThanCancel, cancelled, late, events, merged, condition, unwritten>>

\* Calls apply or clear; tc or another part of the environment may be missing.
Call(op, flags, next) ==
    /\ To(next)
    /\ \/ L!Start(Me, op, "tLoad", Node, flags)
       \/ Fault /\ L!Fail(Me) /\ UNCHANGED <<host, stateFile, crashes>>
    /\ UNCHANGED <<OtherThanCancel, cancelled, late, events, merged, condition, unwritten>>

\* A step of the call, and its end.
CallStep ==
    /\ pc[Me] # "idle" /\ L!Step(Me)
    /\ UNCHANGED <<OtherThanCancel, cancelled, late, runVars, condition, unwritten>>
Called(l) == At(l) /\ pc[Me] = "idle"

Apply == At("apply") /\ Call("apply", condition, "impaired")

\* Mutant: an apply that fails ends the run.
ImpairedOrReturn ==
    LET ok == result[Me] = "applied"
    IN  /\ Called("impaired")
        /\ IF ok THEN Phase("impaired", "ok", FALSE, "clear", "clear")
                 ELSE Phase("impaired", "error", TRUE, "wait", "wait")
        /\ UNCHANGED cancelled

Impaired ==
    LET ok   == result[Me] = "applied"
        next == IF ok THEN "clear" ELSE "skip"
    IN  /\ Called("impaired")
        /\ Phase("impaired", IF ok THEN "ok" ELSE "error", ~ok, next, next)
        /\ UNCHANGED cancelled

Clear == At("clear") /\ Call("clear", {}, "recovery")

\* Mutant: the result is looked at before the error.
ClearStatusUnchecked == IF result[Me] = "absent" THEN "absent" ELSE "cleared"

\* statusForClear
ClearStatus == IF result[Me] \in {"cleared", "absent"} THEN result[Me] ELSE "error"

\* Mutant: a recovery that fails is not cleaned up after.
RecoveryOrWait ==
    LET next == IF ClearStatus = "error" THEN "wait" ELSE "cleanup"
    IN  /\ Called("recovery")
        /\ Phase("recovery", ClearStatus, ClearStatus = "error", next, next)
        /\ UNCHANGED cancelled

\* Mutant: the phase is recorded as skipped, too.
RecoveryAndSkip ==
    /\ Called("recovery")
    /\ Phase("recovery", ClearStatus, ClearStatus = "error", "skip", "skip")
    /\ UNCHANGED cancelled

Recovery ==
    /\ Called("recovery")
    /\ Phase("recovery", ClearStatus, ClearStatus = "error", "cleanup", "cleanup")
    /\ UNCHANGED cancelled

Skip ==
    /\ At("skip")
    /\ Phase("recovery", "skipped", FALSE, "cleanup", "cleanup")
    /\ UNCHANGED cancelled

Cleanup == At("cleanup") /\ Call("clear", {}, "cleaned")

\* Mutant: an error of the cleanup is recorded and forgotten.
CleanedUnjoined ==
    /\ Called("cleaned")
    /\ Phase("cleanup", ClearStatus, FALSE, "wait", "wait")
    /\ UNCHANGED cancelled

Cleaned ==
    /\ Called("cleaned")
    /\ Phase("cleanup", ClearStatus, ClearStatus = "error", "wait", "wait")
    /\ UNCHANGED cancelled

RunStep ==
    \/ Validate \/ ValidateNamespaces \/ CallStep
    \/ Baseline \/ Abort \/ Apply \/ Impaired \/ Clear \/ Recovery \/ Skip
    \/ Cleanup \/ Cleaned
    \/ /\ \/ Prepare("launch") \/ Launch("ready", "baseline") \/ Ready("baseline")
          \/ Wait \/ Merge("close") \/ CloseEvents
       /\ OnlyRun

\* What a wait of the run or of a peer waits for cannot come any more: a peer
\* has ended, or the lab has been taken away.
Hopeless ==
    \E r \in Roles : stage[r] \in Ended \/ NodeOf(r) \notin host.ports

\* The run waits for the markers with a context that a failed peer does not
\* cancel.
Timer == (Hasty \/ Hopeless) /\ ReadyTimeout("baseline") /\ OnlyRun

\* The run is killed, in the middle of a call perhaps.
Crash ==
    /\ Alive
    /\ crashes > 0 /\ crashes' = crashes - 1
    /\ run' = "crashed"
    /\ L!Return(Me, "crashed")
    /\ UNCHANGED <<peerVars, runErr, events, merged, condition, unwritten, host, stateFile>>

-----------------------------------------------------------------------------
(* The peers, the network between them, and the others.                    *)

Still == UNCHANGED <<runVars, condition, unwritten, labVars>>

PeerTimer(r) == (Hasty \/ Hopeless) /\ Timeout(r)

PeerNext(r) ==
    (PeerStep(r) \/ PeerTimer(r) \/ SdpUnreadable(r) \/ Hear(r)) /\ Still
Supervise(r) == Alive /\ (Spawn(r, Present(r)) \/ Kill(r) \/ Reap(r)) /\ Still

\* Both nodes are on the bridge.
Network ==
    /\ \A r \in Roles : NodeOf(r) \in host.ports
    /\ Handshake /\ Still

\* The namespaces of a destroyed lab stay as long as a peer runs in them.
Drain ==
    /\ \E r \in Roles : stage[r] \notin Running /\ L!Drain(NodeOf(r))
    /\ UNCHANGED <<OtherThanCancel, cancelled, late, runVars, condition, unwritten>>

\* The others impair no node but the run's, which is where they meet.
Elsewhere(p) ==
    /\ \/ pc[p] # "idle" /\ L!Step(p)
       \/ /\ result[p] = "none"
          /\ L!StartApply(p) \/ L!StartClear(p) \/ L!StartDestroy(p)
          /\ loc'[p].n \in {0, Node}
    /\ UNCHANGED <<OtherThanCancel, cancelled, late, runVars, condition, unwritten>>

\* Nothing is left to do.
Over ==
    /\ ~Alive
    /\ \A r \in Roles : stage[r] \notin Running
    /\ \A p \in Others : pc[p] = "idle"
    /\ UNCHANGED vars

Next ==
    \/ RunStep \/ Timer \/ Crash \/ Network \/ Drain \/ Over
    \/ MarkerUnreadable("baseline") /\ OnlyRun
    \/ \E r \in Roles : PeerNext(r) \/ Supervise(r)
    \/ \E p \in Others : Elsewhere(p)

Spec == Init /\ [][Next]_vars

\* Whatever can run does, and a wait ends in one way or the other: the timers
\* fire, while the network may never connect.
Fairness ==
    /\ WF_vars(RunStep \/ Timer)
    /\ \A r \in Roles :
        /\ WF_vars((PeerStep(r) \/ PeerTimer(r)) /\ Still)
        /\ WF_vars(Supervise(r))

FairSpec == Spec /\ Fairness

-----------------------------------------------------------------------------
(* Correctness.                                                            *)

TypeOK ==
    /\ RunsTypeOK(RunLabels, Phases, Statuses)
    /\ condition \in SUBSET L!Flags
    /\ unwritten \subseteq Phases
    /\ L!TypeOK

Returned == run = "returned" /\ Recorded("baseline")

\* Once it has recorded its first phase, a run goes through all of them in
\* order, whatever fails, a peer, an apply, the lab that a destroy takes away:
\* only a record that could not be written itself is missing.
AllPhases ==
    /\ Returned => \A phase \in Phases : Recorded(phase) \/ phase \in unwritten
    /\ \A j, k \in 1..Len(events) : j < k =>
        <<events[j][1], events[k][1]>> \in
            {"baseline"} \X {"impaired", "recovery", "cleanup"}
              \cup {"impaired"} \X {"recovery", "cleanup"}
              \cup {<<"recovery", "cleanup">>}

\* A run that has cleaned up leaves no impairment on its node, neither its own
\* nor one it found, if no more than one call failed: what is there then has
\* been applied by somebody else meanwhile.
NoImpairmentLeft ==
    Returned /\ MaxFaults - faults < 2 /\ host.qdisc[Node] # {} =>
        /\ host.qdisc[Node] # condition
        /\ \E p \in Others : result[p] = "applied"

Undisturbed == \A p \in Others : pc[p] = "idle" /\ result[p] = "none"

Has(phase, status) == \E k \in 1..Len(events) : events[k] = <<phase, status>>

\* The event log tells what was in force, which is what the statistics are
\* read against: from "impaired ok" until the run clears it the condition is,
\* from a "cleared" on nothing is, and an impaired phase that failed has
\* changed nothing; unless another command ran meanwhile.
EventsMatchHost ==
    Undisturbed =>
        /\ Has("impaired", "ok") /\ (run = "clear" \/ (run = "recovery" /\ pc[Me] # "idle"))
              => host.qdisc[Node] = condition
        /\ Has("impaired", "error") /\ run = "skip" => host.qdisc[Node] \in Before
        /\ Has("recovery", "cleared") \/ Has("cleanup", "cleared") \/ Has("cleanup", "absent")
              => host.qdisc[Node] = {}
        /\ Has("recovery", "cleared") => ~Has("cleanup", "cleared")

\* A run that reports no error is one the user can evaluate: its peers were
\* connected before the baseline and ran to their deadline, the condition was
\* applied, cleared and cleaned up, by the run or by somebody else, and both
\* logs are merged.  What went wrong before the run waits for its peers is not
\* forgotten while it does.
SuccessIsComplete ==
    ~runErr =>
        /\ Recorded("baseline") => BothConnected
        /\ run \in {"wait", "merge", "close", "returned"} =>
            /\ Len(events) = 4 /\ events[2] = <<"impaired", "ok">>
            /\ \A k \in {3, 4} : events[k][2] \in {"cleared", "absent"}
        /\ run = "returned" =>
            /\ merged.state = "whole"
            /\ \A r \in Roles : stage[r] = "ok" /\ merged.n[r] > 1

\* A run that has recorded its baseline returns only when no peer process is
\* left in the namespaces.  One that has not does not wait for its peers.
NoPeerOutlivesRun ==
    Returned => \A r \in Roles : stage[r] \in Ended \cup {"none"}

\* As long as no call has failed, no wait has timed out, nobody else has run a
\* command and the condition was valid, the run meets no error and no peer
\* fails or is killed.
NoUnexplainedFailure ==
    faults = MaxFaults /\ ~late /\ Undisturbed /\ ValidCondition(condition) =>
        /\ ~runErr
        /\ \A r \in Roles : stage[r] \notin {"failed", "killed"}

\* The run returns and both peers end whatever fails, whatever the network
\* does and whenever the run is killed, although it notices a failed peer no
\* sooner than it has waited for its marker and gone through all phases.
Termination == <>[](~Alive /\ \A r \in Roles : stage[r] \notin Running)

=============================================================================
