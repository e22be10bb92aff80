-------------------------------- MODULE Lab --------------------------------
(***************************************************************************)
(* The lab lifecycle of internal/lab: `lab create`, `lab destroy` with its *)
(* fallback for a missing state file, `lab impair apply` and `lab impair   *)
(* clear`, run by separate processes with no lock between them.  A step is *)
(* one external command, or one read or write of /run/rtc-emulator/lab.json *)
(* together with the branch the code takes on its outcome.                 *)
(*                                                                         *)
(* An operator starts a process's next invocation whenever it is idle.     *)
(* Any command may fail (Fault) and any process may be killed (Crash), a   *)
(* bounded number of times.                                                *)
(***************************************************************************)
EXTENDS Host, SequencesExt

CONSTANTS
    Procs,          \* the processes that run one CLI invocation after another
    Ops,            \* the subcommands they run
    SerialOps,      \* the subcommands never run while another one runs
    Requests,       \* the sets of impairment flags that may be asked for
    MaxFaults,      \* how many commands fail for a reason of their own
    MaxCrashes,     \* how many times a process is killed
    FaultyCleanup,  \* whether the commands of a rollback may be among those
    NoState         \* there is no state file

\* What the properties need of LabState: its nodes and IPForwardBefore.
\* Bridge and Rules are the same constants in every state file.
State == [nodes : Nodes, forward : {0, 1}]

ASSUME LabAssumption ==
    /\ Ops \subseteq {"create", "destroy", "apply", "clear"}
    /\ SerialOps \subseteq Ops
    /\ Requests \subseteq SUBSET Flags
    /\ MaxFaults \in Nat
    /\ MaxCrashes \in Nat
    /\ FaultyCleanup \in BOOLEAN
    /\ NoState \notin State

VARIABLES
    host,       \* the machine, see module Host
    stateFile,  \* the content of lab.json, or NoState
    pc,         \* pc[p] is the step p takes next
    undo,       \* undo[p] is the slice `cleanups` of p's create
    loc,        \* loc[p] holds the arguments and locals of p's invocation
    result,     \* result[p] is what p's last invocation returned
    faults,     \* how many commands may still fail for a reason of their own
    crashes     \* how many processes may still be killed

vars == <<host, stateFile, pc, undo, loc, result, faults, crashes>>

CreateLabels ==
    {"cLoad", "cBridge", "cNetns", "cAddBridge", "cSetBridge", "cReadForward",
     "cSetForward", "cRuleCheck", "cRuleAdd", "cNetnsAdd", "cVethAdd",
     "cVethMove", "cEnslave", "cRename", "cPing", "cSave", "cRollback"}
RecordedLabels == {"dNode", "dBridge", "dForward", "dForget"}
FallbackLabels == {"fBridge", "fList", "fPeer"}
SharedLabels == {"dLoad", "dDown", "dDel", "dRuleCheck", "dRuleDel"}
DestroyLabels == RecordedLabels \cup FallbackLabels \cup SharedLabels
ImpairLabels == {"tLoad", "tNetns", "tRun"}
Labels == {"idle"} \cup CreateLabels \cup DestroyLabels \cup ImpairLabels

Results == {"none", "created", "destroyed", "destroyedFallback", "applied",
            "cleared", "absent", "refused", "error", "crashed"}

Cleanups == [kind : {"bridge", "forward", "rule", "netns"}, id : Nat]
Cleanup(kind, id) == [kind |-> kind, id |-> id]

\* op, n and flags are the request: the node count of a create, the target
\* of an impairment.  at is the loop index, before ipForwardBefore, seen the
\* state file a destroy loaded and members the bridge peers still to delete.
Locals == [ op      : Ops \cup {"none"},
            n       : Nat,
            flags   : SUBSET Flags,
            at      : Nat,
            before  : {0, 1},
            seen    : State \cup {NoState},
            members : SUBSET Nodes ]

Blank == [ op |-> "none", n |-> 0, flags |-> {}, at |-> 1, before |-> 0,
           seen |-> NoState, members |-> {} ]

Init ==
    /\ host = UntouchedHost
    /\ stateFile = NoState
    /\ pc = [p \in Procs |-> "idle"]
    /\ undo = [p \in Procs |-> <<>>]
    /\ loc = [p \in Procs |-> Blank]
    /\ result = [p \in Procs |-> "none"]
    /\ faults = MaxFaults
    /\ crashes = MaxCrashes

-----------------------------------------------------------------------------
(* Control.  Where p goes next, with what happens to its locals.           *)

Goto(p, l) ==
    /\ pc' = [pc EXCEPT ![p] = l]
    /\ UNCHANGED <<undo, loc, result>>

GotoAt(p, l, i) ==
    /\ pc' = [pc EXCEPT ![p] = l]
    /\ loc' = [loc EXCEPT ![p].at = i]
    /\ UNCHANGED <<undo, result>>

\* cleanups = append(cleanups, ...)
Defer(p, l, cleanup) ==
    /\ pc' = [pc EXCEPT ![p] = l]
    /\ undo' = [undo EXCEPT ![p] = Append(@, cleanup)]
    /\ UNCHANGED <<loc, result>>

Return(p, r) ==
    /\ pc' = [pc EXCEPT ![p] = "idle"]
    /\ undo' = [undo EXCEPT ![p] = <<>>]
    /\ loc' = [loc EXCEPT ![p] = Blank]
    /\ result' = [result EXCEPT ![p] = r]

Fail(p) == Return(p, "error")

Fault == faults > 0 /\ faults' = faults - 1 /\ UNCHANGED host

\* A command that turns the host into `after` when it can.
Run(can, after, ok, err) ==
    \/ can /\ host' = after /\ UNCHANGED faults /\ ok
    \/ ~can /\ UNCHANGED <<host, faults>> /\ err
    \/ Fault /\ err

\* A command or a file that only answers a question.
Ask(question, yes, no, err) ==
    \/ UNCHANGED <<host, faults>> /\ ((question /\ yes) \/ (~question /\ no))
    \/ Fault /\ err

KeepState == UNCHANGED <<stateFile, crashes>>

-----------------------------------------------------------------------------
(* lab create                                                              *)

\* An error before the bridge exists returns without a rollback.
CreateLoad(p) ==
    /\ pc[p] = "cLoad"
    /\ Ask(stateFile = NoState, Goto(p, "cBridge"), Return(p, "refused"), Fail(p))
    /\ KeepState

CreateBridgeExists(p) ==
    /\ pc[p] = "cBridge"
    /\ Ask(host.bridge, Return(p, "refused"), Goto(p, "cNetns"), Fail(p))
    /\ KeepState

\* Mutant: create does not look for namespaces an earlier lab left behind.
CreateIgnoresNamespaces(p) ==
    /\ pc[p] = "cNetns"
    /\ Ask(TRUE, Goto(p, "cAddBridge"), Return(p, "refused"), Fail(p))
    /\ KeepState

CreateListNamespaces(p) ==
    /\ pc[p] = "cNetns"
    /\ Ask(host.netns = {}, Goto(p, "cAddBridge"), Return(p, "refused"), Fail(p))
    /\ KeepState

\* Mutant: a bridge that is there already is taken over.
AddBridgeTakesOver(p) ==
    /\ pc[p] = "cAddBridge"
    /\ Run(TRUE, BridgeAdd(host),
           Defer(p, "cSetBridge", Cleanup("bridge", 0)), Fail(p))
    /\ KeepState

AddBridge(p) ==
    /\ pc[p] = "cAddBridge"
    /\ Run(~host.bridge, BridgeAdd(host),
           Defer(p, "cSetBridge", Cleanup("bridge", 0)), Fail(p))
    /\ KeepState

\* From here on every error runs the cleanups.
SetBridge(p) ==
    /\ pc[p] = "cSetBridge"
    /\ Run(host.bridge, host, Goto(p, "cReadForward"), Goto(p, "cRollback"))
    /\ KeepState

ReadForward(p) ==
    /\ pc[p] = "cReadForward"
    /\ \/ /\ pc' = [pc EXCEPT ![p] = "cSetForward"]
          /\ loc' = [loc EXCEPT ![p].before = host.forward]
          /\ UNCHANGED <<host, faults, undo, result>>
       \/ Fault /\ Goto(p, "cRollback")
    /\ KeepState

EnableForward(p) ==
    /\ pc[p] = "cSetForward"
    /\ Run(TRUE, SetForward(host, 1),
           Defer(p, "cRuleCheck", Cleanup("forward", 0)), Goto(p, "cRollback"))
    /\ KeepState

\* The rule loop of create ends in the node loop, both from index 1.
AfterRule(p) ==
    IF loc[p].at < RuleCount
    THEN GotoAt(p, "cRuleCheck", loc[p].at + 1)
    ELSE GotoAt(p, "cNetnsAdd", 1)

\* Mutant: rules are appended without looking whether they are there.
EnsureRuleUnchecked(p) ==
    /\ pc[p] = "cRuleCheck"
    /\ Ask(TRUE, Goto(p, "cRuleAdd"), AfterRule(p), Goto(p, "cRollback"))
    /\ KeepState

\* A rule that is there already is kept, and not added to the cleanups.
EnsureRule(p) ==
    /\ pc[p] = "cRuleCheck"
    /\ Ask(host.rules[loc[p].at] > 0,
           AfterRule(p), Goto(p, "cRuleAdd"), Goto(p, "cRollback"))
    /\ KeepState

AddRule(p) ==
    LET r == loc[p].at
    IN  /\ pc[p] = "cRuleAdd"
        /\ \/ /\ host' = RuleAdd(host, r)
              /\ undo' = [undo EXCEPT ![p] = Append(@, Cleanup("rule", r))]
              /\ pc' = [pc EXCEPT ![p] =
                          IF r < RuleCount THEN "cRuleCheck" ELSE "cNetnsAdd"]
              /\ loc' = [loc EXCEPT ![p].at = IF r < RuleCount THEN r + 1 ELSE 1]
              /\ UNCHANGED <<faults, result>>
           \/ Fault /\ Goto(p, "cRollback")
        /\ KeepState

\* Mutant: the namespace gets no cleanup.
AddNetnsUndeferred(p) ==
    LET i == loc[p].at
    IN  /\ pc[p] = "cNetnsAdd"
        /\ Run(i \notin host.netns, NetnsAdd(host, i),
               Goto(p, "cVethAdd"), Goto(p, "cRollback"))
        /\ KeepState

AddNetns(p) ==
    LET i == loc[p].at
    IN  /\ pc[p] = "cNetnsAdd"
        /\ Run(i \notin host.netns, NetnsAdd(host, i),
               Defer(p, "cVethAdd", Cleanup("netns", i)), Goto(p, "cRollback"))
        /\ KeepState

\* The veth pair has no cleanup of its own: it is to go with its namespace.
AddVeth(p) ==
    LET i == loc[p].at
    IN  /\ pc[p] = "cVethAdd"
        /\ Run(host.veth[i] = "none", VethAdd(host, i),
               Goto(p, "cVethMove"), Goto(p, "cRollback"))
        /\ KeepState

\* A pair that could not be moved is not in the namespace the rollback deletes.
MoveVeth(p) ==
    LET i == loc[p].at
        can == host.veth[i] = "host" /\ i \in host.netns
    IN  /\ pc[p] = "cVethMove"
        /\ \/ /\ can
              /\ host' = VethMove(host, i)
              /\ Goto(p, "cEnslave")
              /\ UNCHANGED faults
           \/ /\ ~can \/ faults > 0
              /\ faults' = IF can THEN faults - 1 ELSE faults
              /\ host' = VethLeft(host, i)
              /\ Goto(p, "cRollback")
        /\ KeepState

EnslavePeer(p) ==
    LET i == loc[p].at
    IN  /\ pc[p] = "cEnslave"
        /\ Run(host.veth[i] # "none" /\ host.bridge, Enslave(host, i),
               Goto(p, "cRename"), Goto(p, "cRollback"))
        /\ KeepState

RenameVeth(p) ==
    LET i == loc[p].at
    IN  /\ pc[p] = "cRename"
        /\ Run(host.veth[i] = "moved", Rename(host, i),
               Goto(p, "cPing"), Goto(p, "cRollback"))
        /\ KeepState

\* Mutant: the node loop runs once too often.
PingBridgeOnceMore(p) ==
    LET i == loc[p].at
        next == IF i <= loc[p].n THEN GotoAt(p, "cNetnsAdd", i + 1)
                                 ELSE Goto(p, "cSave")
    IN  /\ pc[p] = "cPing"
        /\ Run(i \in host.eth0 \cap host.ports, host, next, Goto(p, "cRollback"))
        /\ KeepState

\* Address, route and ping: they leave nothing behind that outlives eth0.
PingBridge(p) ==
    LET i == loc[p].at
        next == IF i < loc[p].n THEN GotoAt(p, "cNetnsAdd", i + 1)
                                ELSE Goto(p, "cSave")
    IN  /\ pc[p] = "cPing"
        /\ Run(i \in host.eth0 \cap host.ports, host, next, Goto(p, "cRollback"))
        /\ KeepState

\* The file is written under another name and renamed: it appears whole.
SaveState(p) ==
    /\ pc[p] = "cSave"
    /\ \/ /\ stateFile' = [nodes |-> loc[p].n, forward |-> loc[p].before]
          /\ Return(p, "created")
          /\ UNCHANGED <<host, faults>>
       \/ Fault /\ Goto(p, "cRollback") /\ UNCHANGED stateFile
    /\ UNCHANGED crashes

\* What one deferred cleanup does, its errors ignored.
Undone(h, cleanup, before) ==
    CASE cleanup.kind = "bridge"  -> BridgeDel(h)
      [] cleanup.kind = "forward" -> SetForward(h, before)
      [] cleanup.kind = "rule"    -> RuleDel(h, cleanup.id)
      [] cleanup.kind = "netns"   -> NetnsDel(h, cleanup.id)

\* Mutant: the cleanups run first to last, like the steps they undo.
RollbackInOrder(p) ==
    /\ pc[p] = "cRollback"
    /\ IF undo[p] = <<>>
       THEN Fail(p) /\ UNCHANGED <<host, faults>>
       ELSE /\ host' = Undone(host, Head(undo[p]), loc[p].before)
            /\ undo' = [undo EXCEPT ![p] = Tail(@)]
            /\ UNCHANGED <<faults, pc, loc, result>>
    /\ KeepState

\* rollback() runs the cleanups last to first, then create returns.
Rollback(p) ==
    /\ pc[p] = "cRollback"
    /\ IF undo[p] = <<>>
       THEN Fail(p) /\ UNCHANGED <<host, faults>>
       ELSE /\ \/ /\ host' = Undone(host, Last(undo[p]), loc[p].before)
                  /\ UNCHANGED faults
               \/ FaultyCleanup /\ Fault
            /\ undo' = [undo EXCEPT ![p] = Front(@)]
            /\ UNCHANGED <<pc, loc, result>>
    /\ KeepState

CreateStep(p) ==
    \/ CreateLoad(p) \/ CreateBridgeExists(p) \/ CreateListNamespaces(p)
    \/ AddBridge(p) \/ SetBridge(p) \/ ReadForward(p) \/ EnableForward(p)
    \/ EnsureRule(p) \/ AddRule(p) \/ AddNetns(p) \/ AddVeth(p) \/ MoveVeth(p)
    \/ EnslavePeer(p) \/ RenameVeth(p) \/ PingBridge(p) \/ SaveState(p)
    \/ Rollback(p)

-----------------------------------------------------------------------------
(* lab destroy                                                             *)

DestroyLoad(p) ==
    /\ pc[p] = "dLoad"
    /\ \/ /\ pc' = [pc EXCEPT ![p] =
                      IF stateFile = NoState THEN "fBridge" ELSE "dNode"]
          /\ loc' = [loc EXCEPT ![p].seen = stateFile]
          /\ UNCHANGED <<host, faults, undo, result>>
       \/ Fault /\ Fail(p)
    /\ KeepState

\* Mutant: the last recorded node is left out.
DeleteNodeButLast(p) ==
    LET i == loc[p].at
        next == IF i < loc[p].seen.nodes - 1 THEN GotoAt(p, "dNode", i + 1)
                                             ELSE Goto(p, "dBridge")
    IN  /\ pc[p] = "dNode"
        /\ Run(TRUE, NetnsDel(host, i), next, Fail(p))
        /\ KeepState

\* Mutant: a namespace that cannot be deleted is passed over.
DeleteNodeRegardless(p) ==
    LET i == loc[p].at
        next == IF i < loc[p].seen.nodes THEN GotoAt(p, "dNode", i + 1)
                                         ELSE Goto(p, "dBridge")
    IN  /\ pc[p] = "dNode"
        /\ Run(TRUE, NetnsDel(host, i), next, next)
        /\ KeepState

\* A namespace that is gone already is no error.
DeleteNode(p) ==
    LET i == loc[p].at
        next == IF i < loc[p].seen.nodes THEN GotoAt(p, "dNode", i + 1)
                                         ELSE Goto(p, "dBridge")
    IN  /\ pc[p] = "dNode"
        /\ Run(TRUE, NetnsDel(host, i), next, Fail(p))
        /\ KeepState

\* Mutant: destroy takes it for granted that the bridge is still there.
DestroyExpectsBridge(p) ==
    /\ pc[p] = "dBridge"
    /\ Ask(TRUE, Goto(p, "dDown"), GotoAt(p, "dRuleCheck", 1), Fail(p))
    /\ KeepState

DestroyBridgeExists(p) ==
    /\ pc[p] = "dBridge"
    /\ Ask(host.bridge, Goto(p, "dDown"), GotoAt(p, "dRuleCheck", 1), Fail(p))
    /\ KeepState

\* The fallback, without a state file, starts from the bridge instead.
FallbackBridgeExists(p) ==
    /\ pc[p] = "fBridge"
    /\ Ask(host.bridge, Goto(p, "fList"), GotoAt(p, "dRuleCheck", 1), Fail(p))
    /\ KeepState

ListMembers(p) ==
    /\ pc[p] = "fList"
    /\ \/ /\ host.bridge
          /\ pc' = [pc EXCEPT ![p] = "fPeer"]
          /\ loc' = [loc EXCEPT ![p].members = host.ports]
          /\ UNCHANGED <<host, faults, undo, result>>
       \/ ~host.bridge /\ Fail(p) /\ UNCHANGED <<host, faults>>
       \/ Fault /\ Fail(p)
    /\ KeepState

\* A peer that is gone already is no error.
DeletePeer(p) ==
    /\ pc[p] = "fPeer"
    /\ \/ /\ loc[p].members = {}
          /\ Goto(p, "dDown")
          /\ UNCHANGED <<host, faults>>
       \/ \E i \in loc[p].members :
            Run(TRUE, PeerDel(host, i),
                /\ loc' = [loc EXCEPT ![p].members = @ \ {i}]
                /\ UNCHANGED <<pc, undo, result>>,
                Fail(p))
    /\ KeepState

BridgeDown(p) ==
    /\ pc[p] = "dDown"
    /\ Run(host.bridge, host, Goto(p, "dDel"), Fail(p))
    /\ KeepState

\* Mutant: a bridge that cannot be deleted is passed over.
DeleteBridgeRegardless(p) ==
    /\ pc[p] = "dDel"
    /\ Run(host.bridge, BridgeDel(host), GotoAt(p, "dRuleCheck", 1),
           GotoAt(p, "dRuleCheck", 1))
    /\ KeepState

DeleteBridge(p) ==
    /\ pc[p] = "dDel"
    /\ Run(host.bridge, BridgeDel(host), GotoAt(p, "dRuleCheck", 1), Fail(p))
    /\ KeepState

\* The next rule; after the last one the fallback is done, it knows no
\* ip_forward to restore.
NextRule(p) ==
    IF loc[p].at < RuleCount THEN GotoAt(p, "dRuleCheck", loc[p].at + 1)
    ELSE IF loc[p].seen = NoState THEN Return(p, "destroyedFallback")
    ELSE Goto(p, "dForward")

\* Mutant: every error of iptables -C is taken for a missing rule.
CheckRuleAnyError(p) ==
    /\ pc[p] = "dRuleCheck"
    /\ Ask(host.rules[loc[p].at] > 0, Goto(p, "dRuleDel"), NextRule(p), NextRule(p))
    /\ KeepState

CheckRule(p) ==
    /\ pc[p] = "dRuleCheck"
    /\ Ask(host.rules[loc[p].at] > 0, Goto(p, "dRuleDel"), NextRule(p), Fail(p))
    /\ KeepState

\* Mutant: iptables is given arguments that delete nothing.
DeleteRuleNothing(p) ==
    LET r == loc[p].at
    IN  /\ pc[p] = "dRuleDel"
        /\ \/ /\ host.rules[r] > 0
              /\ UNCHANGED <<host, faults>>
              /\ Goto(p, "dRuleCheck")
           \/ host.rules[r] = 0 /\ NextRule(p) /\ UNCHANGED <<host, faults>>
           \/ Fault /\ Fail(p)
        /\ KeepState

\* Every copy of the rule is deleted; one that is gone already ends the loop.
DeleteRule(p) ==
    LET r == loc[p].at
    IN  /\ pc[p] = "dRuleDel"
        /\ \/ /\ host.rules[r] > 0
              /\ host' = RuleDel(host, r)
              /\ UNCHANGED faults
              /\ Goto(p, "dRuleCheck")
           \/ host.rules[r] = 0 /\ NextRule(p) /\ UNCHANGED <<host, faults>>
           \/ Fault /\ Fail(p)
        /\ KeepState

RestoreForward(p) ==
    /\ pc[p] = "dForward"
    /\ Run(TRUE, SetForward(host, loc[p].seen.forward), Goto(p, "dForget"), Fail(p))
    /\ KeepState

DeleteStateFile(p) ==
    /\ pc[p] = "dForget"
    /\ \/ stateFile' = NoState /\ Return(p, "destroyed") /\ UNCHANGED <<host, faults>>
       \/ Fault /\ Fail(p) /\ UNCHANGED stateFile
    /\ UNCHANGED crashes

DestroyStep(p) ==
    \/ DestroyLoad(p) \/ DeleteNode(p) \/ DestroyBridgeExists(p)
    \/ FallbackBridgeExists(p) \/ ListMembers(p) \/ DeletePeer(p)
    \/ BridgeDown(p) \/ DeleteBridge(p) \/ CheckRule(p) \/ DeleteRule(p)
    \/ RestoreForward(p) \/ DeleteStateFile(p)

-----------------------------------------------------------------------------
(* lab impair apply and lab impair clear                                   *)

\* containsString(state.Nodes, node)
Lists(state, i) == state # NoState /\ i \in 1..state.nodes

ImpairLoad(p) ==
    /\ pc[p] = "tLoad"
    /\ Ask(Lists(stateFile, loc[p].n), Goto(p, "tNetns"), Fail(p), Fail(p))
    /\ KeepState

ImpairNamespace(p) ==
    /\ pc[p] = "tNetns"
    /\ Ask(loc[p].n \in host.netns, Goto(p, "tRun"), Fail(p), Fail(p))
    /\ KeepState

\* tc qdisc replace: what was asked for replaces what was there.
ApplyNetem(p) ==
    /\ pc[p] = "tRun"
    /\ loc[p].op = "apply"
    /\ Run(loc[p].n \in host.eth0, Netem(host, loc[p].n, loc[p].flags),
           Return(p, "applied"), Fail(p))
    /\ KeepState

\* tc qdisc del: nothing to delete is not an error.
ClearNetem(p) ==
    LET i == loc[p].n
    IN  /\ pc[p] = "tRun"
        /\ loc[p].op = "clear"
        /\ Run(i \in host.eth0, Netem(host, i, {}),
               Return(p, IF host.qdisc[i] = {} THEN "absent" ELSE "cleared"),
               Fail(p))
        /\ KeepState

ImpairStep(p) ==
    ImpairLoad(p) \/ ImpairNamespace(p) \/ ApplyNetem(p) \/ ClearNetem(p)

-----------------------------------------------------------------------------
(* The operator, and what may go wrong.                                    *)

AllIdle == \A p \in Procs : pc[p] = "idle"

MayStart(op) ==
    IF op \in SerialOps THEN AllIdle
    ELSE \A q \in Procs : loc[q].op \notin SerialOps

\* The checks an operation makes before it touches the state file or the host.
ValidCreate(n) == n \in 1..MaxNodes
ValidApply(flags) == flags # {} /\ ("jitter" \in flags => "delay" \in flags)

Start(p, op, first, n, flags) ==
    /\ pc[p] = "idle"
    /\ op \in Ops
    /\ MayStart(op)
    /\ pc' = [pc EXCEPT ![p] = first]
    /\ loc' = [loc EXCEPT ![p] = [Blank EXCEPT !.op = op, !.n = n, !.flags = flags]]
    /\ result' = [result EXCEPT ![p] = "none"]
    /\ UNCHANGED <<host, stateFile, undo, faults, crashes>>

StartCreate(p) ==
    \E n \in 0..(MaxNodes + 1) : ValidCreate(n) /\ Start(p, "create", "cLoad", n, {})

StartDestroy(p) == Start(p, "destroy", "dLoad", 0, {})

StartApply(p) ==
    \E i \in Nodes, flags \in Requests :
        ValidApply(flags) /\ Start(p, "apply", "tLoad", i, flags)

StartClear(p) == \E i \in Nodes : Start(p, "clear", "tLoad", i, {})

\* Bad arguments, another system than Linux, no root, a missing command.
Reject(p) ==
    /\ pc[p] = "idle"
    /\ \E op \in Ops : MayStart(op)
    /\ Fail(p)
    /\ UNCHANGED <<host, stateFile, faults, crashes>>

\* The process is killed: nothing it deferred runs, what it did stays.
Crash(p) ==
    /\ crashes > 0
    /\ pc[p] # "idle"
    /\ crashes' = crashes - 1
    /\ Return(p, "crashed")
    /\ UNCHANGED <<host, stateFile, faults>>

\* The kernel is done with a deleted namespace.
Drain(i) ==
    /\ host.veth[i] = "dying"
    /\ host' = PeerDel(host, i)
    /\ UNCHANGED <<stateFile, pc, undo, loc, result, faults, crashes>>

Step(p) == CreateStep(p) \/ DestroyStep(p) \/ ImpairStep(p)

Begin(p) ==
    StartCreate(p) \/ StartDestroy(p) \/ StartApply(p) \/ StartClear(p) \/ Reject(p)

Next ==
    \/ \E p \in Procs : Step(p) \/ Begin(p) \/ Crash(p)
    \/ \E i \in Nodes : Drain(i)

Spec == Init /\ [][Next]_vars

\* A process that runs goes on running; nobody has to start one.
FairSpec == Spec /\ \A p \in Procs : WF_vars(Step(p))

-----------------------------------------------------------------------------
(* Correctness.                                                            *)

\* Every variable has its type; in particular no index of a loop leaves the
\* rules or the nodes it runs over.
TypeOK ==
    /\ host \in HostStates
    /\ stateFile \in State \cup {NoState}
    /\ pc \in [Procs -> Labels]
    /\ undo \in [Procs -> Seq(Cleanups)]
    /\ loc \in [Procs -> Locals]
    /\ result \in [Procs -> Results]
    /\ faults \in 0..MaxFaults
    /\ crashes \in 0..MaxCrashes

Building(p) == undo[p] # <<>>
Destroying(p) == pc[p] \in DestroyLabels

\* Two creates never build at the same time: nothing locks, the checks at the
\* top of create are stale by the time it acts on them, and only the failure
\* of the second `ip link add rtcemu0` keeps its rollback off the first lab.
OneBuilder == \A p, q \in Procs : Building(p) /\ Building(q) => p = q

\* What a lab consists of is gone, and the host is as it was found, but for the
\* veth pair of a create that failed to move it, which no cleanup deletes, and
\* for what the kernel is still deleting.
Restored ==
    /\ ~host.bridge
    /\ host.netns = {}
    /\ host.ports = {}
    /\ host.rules = OwnRules
    /\ host.forward = HostForward
    /\ host.eth0 = {}
    /\ \A i \in Nodes :
          host.veth[i] \in {"none", "dying", "left"} /\ host.qdisc[i] = {}

\* A lab that no state file records leaves nothing on the host once nobody
\* builds or destroys, but for a veth pair whose move failed: a create
\* that failed at any step has undone the rest of what it had done.
UnrecordedIsRestored ==
    stateFile = NoState /\ (\A p \in Procs : ~Building(p) /\ ~Destroying(p))
        => Restored

\* The value destroy will restore is the one the host had before any lab,
\* not the 1 that a create, this one or another, has written meanwhile.
RecordedForwardIsOriginal ==
    stateFile # NoState => stateFile.forward = HostForward

TornDown(state) ==
    /\ ~host.bridge
    /\ host.netns \cap (1..state.nodes) = {}
    /\ \A r \in Rules : host.rules[r] = 0
    /\ host.forward = state.forward

\* The state file is the only way back to a full destroy: whatever failed,
\* was killed or raced, it goes only when all it records is torn down.
ForgetLast ==
    [][stateFile # NoState /\ stateFile' = NoState => TornDown(stateFile)]_vars

\* No namespace, port or impairment exists beside the recorded lab, after
\* any history of killed and half undone creates and destroys.
NothingBesideRecord ==
    stateFile # NoState =>
        /\ host.netns \cup host.ports \subseteq 1..stateFile.nodes
        /\ \A i \in Nodes : host.qdisc[i] # {} => i \in 1..stateFile.nodes

\* An impairment never outlives the record that lets `impair clear` reach it,
\* although apply reads that record well before it runs tc.
NoStuckQdisc ==
    \A i \in Nodes : host.qdisc[i] # {} => Lists(stateFile, i)

\* No rule is ever there twice: a copy left by a killed run is found by the
\* next create, which keeps it instead of appending another.
RuleOnce == \A r \in Rules : host.rules[r] <= 1

\* Every invocation returns, whatever fails and whoever else runs: the loop
\* that deletes every copy of a rule is the one that might not.
Termination == \A p \in Procs : pc[p] # "idle" ~> pc[p] = "idle"

\* A lab is gone in the end if only its destroy is repeated often enough: no
\* half done destroy leaves the host so that all later ones fail.
RetriedDestroyConverges ==
    ([]<>(\E p \in Procs : pc[p] = "dLoad"))
        => (stateFile # NoState ~> stateFile = NoState)

-----------------------------------------------------------------------------
(* What the documents say and the code does not do.                        *)

Destroyed(p) == result[p] \in {"destroyed", "destroyedFallback"}

\* A successful destroy leaves no interface of the lab behind, nor what a
\* create that failed earlier left of it, but for what the kernel is still
\* deleting.  docs/SCOPE.md, line 26.
DestroyLeavesNoInterface ==
    \A p \in Procs : Destroyed(p) =>
        \A i \in Nodes : host.veth[i] \in {"none", "dying"}

\* A successful destroy leaves the firewall as it was before the lab, the
\* rules the host had of its own included.  docs/SCOPE.md, line 26.
DestroyKeepsOwnRules == \A p \in Procs : Destroyed(p) => host.rules = OwnRules

\* A successful destroy removes what makes create refuse with the advice to
\* run destroy and retry.  The messages in create.go, lines 91 to 111.
DestroyUnblocksCreate ==
    \A p \in Procs : Destroyed(p) => ~host.bridge /\ host.netns = {}

\* With no command failing and no process killed, no namespace of a lab is
\* ever left without a state file.  docs/SCOPE.md, line 57.
NoStuckNamespace == stateFile = NoState /\ AllIdle => host.netns = {}

=============================================================================
