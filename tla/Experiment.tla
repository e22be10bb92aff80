----------------------------- MODULE Experiment -----------------------------
(***************************************************************************)
(* What a run of two peers promises to those who read its directory, be it *)
(* `lab webrtc p2p` or `lab scenario run`: both peers are started together *)
(* and at most once, the report is written at most once and only when both *)
(* have ended, so that it has all they have logged, and the run is called  *)
(* a success only if both ended well and the report is there.  A run may   *)
(* fail at any time, or be killed, and leave its peers behind.             *)
(***************************************************************************)
EXTENDS Integers

CONSTANTS Roles, MaxSamples

VARIABLES
    part,     \* how far each peer is
    log,      \* how many records each peer has logged
    report,   \* whether the report is written, with how many records of each
    verdict   \* what the run has come to

experiment == <<part, log, report, verdict>>

Nothing == [r \in Roles |-> 0]

Init ==
    /\ part = [r \in Roles |-> "none"]
    /\ log = Nothing
    /\ report = [written |-> FALSE, n |-> Nothing]
    /\ verdict = "none"

Begin ==
    /\ verdict = "none"
    /\ part = [r \in Roles |-> "none"]
    /\ part' = [r \in Roles |-> "running"]
    /\ UNCHANGED <<log, report, verdict>>

Log(r) ==
    /\ part[r] = "running" /\ log[r] < MaxSamples
    /\ log' = [log EXCEPT ![r] = @ + 1]
    /\ UNCHANGED <<part, report, verdict>>

\* The first record and the one at the deadline are never missing.
End(r) ==
    /\ part[r] = "running"
    /\ \/ log[r] > 1 /\ part' = [part EXCEPT ![r] = "good"]
       \/ part' = [part EXCEPT ![r] = "bad"]
    /\ UNCHANGED <<log, report, verdict>>

Report ==
    /\ verdict = "none" /\ ~report.written
    /\ \A r \in Roles : part[r] \in {"good", "bad"}
    /\ report' = [written |-> TRUE, n |-> log]
    /\ UNCHANGED <<part, log, verdict>>

Conclude ==
    /\ verdict = "none"
    /\ \/ verdict' = "failure"
       \/ /\ report.written
          /\ \A r \in Roles : part[r] = "good"
          /\ verdict' = "success"
    /\ UNCHANGED <<part, log, report>>

Next == Begin \/ Report \/ Conclude \/ \E r \in Roles : Log(r) \/ End(r)

Spec == Init /\ [][Next]_experiment

=============================================================================
