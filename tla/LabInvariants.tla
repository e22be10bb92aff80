--------------------------- MODULE LabInvariants ---------------------------
(***************************************************************************)
(* What is added to the invariants of Lab to make them inductive.          *)
(***************************************************************************)
EXTENDS Lab

NodeLoop == {"cNetnsAdd", "cVethAdd", "cVethMove", "cEnslave", "cRename", "cPing"}

\* A process at label l with locals v: where the code indexes by a node, the
\* index is one of the lab's nodes, and where it uses the loaded state file,
\* it has loaded one.
Indices(l, v) ==
    /\ l \in CreateLabels \cup ImpairLabels => v.n \in Nodes
    /\ l \in NodeLoop => v.at \in 1..v.n
    /\ l \in RecordedLabels => v.seen # NoState

\* The types of TypeOK, what concerns the machine apart from the processes.
MachineInv ==
    /\ host \in HostStates
    /\ stateFile \in State \cup {NoState}
    /\ faults \in 0..MaxFaults
    /\ crashes \in 0..MaxCrashes

ControlInv ==
    /\ pc \in [Procs -> Labels]
    /\ undo \in [Procs -> Seq(Cleanups)]
    /\ loc \in [Procs -> Locals]
    /\ result \in [Procs -> Results]
    /\ \A p \in Procs : Indices(pc[p], loc[p])

TypeInv == MachineInv /\ ControlInv

-----------------------------------------------------------------------------

\* Where the cleanups are not empty: after the bridge is up, and in rollback.
BuildLabels == (CreateLabels \ {"cLoad", "cBridge", "cNetns", "cAddBridge"}) \ {"cRollback"}

\* The bridge is the first thing a create adds and the last its rollback
\* deletes.
BridgeFirst(cleanups) ==
    cleanups # <<>> =>
        /\ cleanups[1].kind = "bridge"
        /\ \A k \in 2..Len(cleanups) : cleanups[k].kind # "bridge"

\* A process at label l with these cleanups, in an invocation of op.
Stage(l, cleanups, op) ==
    /\ l = "idle" => op = "none"
    /\ l \in CreateLabels => op = "create"
    /\ l \in DestroyLabels => op = "destroy"
    /\ l \in ImpairLabels => op \in {"apply", "clear"}
    /\ l \notin BuildLabels \cup {"cRollback"} => cleanups = <<>>
    /\ l \in BuildLabels => cleanups # <<>>
    /\ BridgeFirst(cleanups)

Stages == \A p \in Procs : Stage(pc[p], undo[p], loc[p].op)

\* A builder holds the bridge, and an operation that is never run while
\* another one runs runs alone.
Exclusion ==
    /\ OneBuilder
    /\ \A p \in Procs : Building(p) => host.bridge
    /\ \A p, q \in Procs : p # q /\ loc[p].op \in SerialOps => pc[q] = "idle"

ExclusionInv == TypeInv /\ Stages /\ Exclusion

-----------------------------------------------------------------------------

\* Creates run alone or destroys do: no lab is built while one is torn down.
Separate == "create" \in SerialOps \/ "destroy" \in SerialOps

\* What the kernel sees to: a bridge that is gone has no ports, an impairment
\* is on an interface that can be reached, which is in its namespace.
Consistent(h) ==
    /\ ~h.bridge => h.ports = {}
    /\ \A i \in Nodes :
        /\ h.qdisc[i] # {} => i \in h.eth0
        /\ i \in h.eth0 => h.veth[i] = "moved"
        /\ h.veth[i] = "moved" => i \in h.netns

HostInv == Consistent(host)

\* A destroy that has loaded a state file.
TearingDown(p) == pc[p] \in DestroyLabels \ {"dLoad"} /\ loc[p].seen # NoState

AfterBridge == {"dRuleCheck", "dRuleDel", "dForward", "dForget"}

\* The loops of an invocation start at the first rule or node.
BeforeLoops ==
    {"cLoad", "cBridge", "cNetns", "cAddBridge", "cSetBridge", "cReadForward",
     "cSetForward", "dLoad"}

FirstInv == \A p \in Procs : pc[p] \in BeforeLoops => loc[p].at = 1

\* What it has torn down by now stays torn down.
Torn(p) ==
    /\ stateFile \in {loc[p].seen, NoState}
    /\ pc[p] = "dNode" => \A i \in host.netns : i >= loc[p].at
    /\ pc[p] # "dNode" => \A i \in host.netns : i > loc[p].seen.nodes
    /\ pc[p] \in AfterBridge => ~host.bridge
    /\ pc[p] \in {"dRuleCheck", "dRuleDel"} =>
          \A r \in Rules : r < loc[p].at => host.rules[r] = 0
    /\ pc[p] \in {"dForward", "dForget"} => \A r \in Rules : host.rules[r] = 0
    /\ pc[p] = "dForget" => host.forward = loc[p].seen.forward

\* All that tear down a lab at a time have loaded the same record of it.
TearInv ==
    /\ \A p \in Procs : TearingDown(p) => Torn(p)
    /\ \A p, q \in Procs : TearingDown(p) /\ TearingDown(q) => loc[p].seen = loc[q].seen

\* A rule that is about to be appended is still missing.
RuleInv ==
    /\ RuleOnce
    /\ \A p \in Procs :
          pc[p] = "cRuleAdd" /\ loc[p].at \in Rules => host.rules[loc[p].at] = 0

\* A create that has seen no state file and no namespace is alone with what it
\* makes.
AloneInv ==
    /\ stateFile # NoState => host.netns \cup host.ports \subseteq 1..stateFile.nodes
    /\ \A p \in Procs :
        /\ pc[p] \in CreateLabels \ {"cLoad"} => stateFile = NoState
        /\ pc[p] = "cAddBridge" => host.netns = {}
        /\ pc[p] \in BuildLabels => host.netns \cup host.ports \subseteq 1..loc[p].n

-----------------------------------------------------------------------------

\* No process is killed, rollbacks run to their end, and the host has none of
\* a lab's rules of its own.
Orderly == MaxCrashes = 0 /\ ~FaultyCleanup /\ HostRules = {}

Untouched ==
    /\ ~host.bridge
    /\ host.netns = {}
    /\ \A r \in Rules : host.rules[r] = 0
    /\ host.forward = HostForward

\* The slice of cleanups has one for this.
Has(cleanups, kind, id) ==
    \E k \in 1..Len(cleanups) : cleanups[k] = Cleanup(kind, id)

Deferred(p, kind, id) == Has(undo[p], kind, id)

\* p has deferred to write back an ip_forward it has read.
Restoring(p) ==
    \E id \in {undo[p][k].id : k \in 1..Len(undo[p])} : Deferred(p, "forward", id)

\* The cleanups of a create undo all that is on the host, to the value of
\* ip_forward that was there before.
Undoable(p) ==
    /\ \A i \in host.netns : Deferred(p, "netns", i)
    /\ \A r \in Rules : host.rules[r] > 0 => Deferred(p, "rule", r)
    /\ host.forward # HostForward => Deferred(p, "forward", 0)
    /\ pc[p] \in {"cSetBridge", "cReadForward"} => Len(undo[p]) = 1
    /\ \/ pc[p] \in BuildLabels \ {"cSetBridge", "cReadForward"}
       \/ Restoring(p)
       => loc[p].before = HostForward

RuleLoop == {"cRuleCheck", "cRuleAdd"}

\* What a create has made by now is there.
Made(p) ==
    /\ host.netns \subseteq 1..loc[p].n
    /\ pc[p] \in RuleLoop => \A r \in Rules : r < loc[p].at => host.rules[r] > 0
    /\ pc[p] \in NodeLoop \cup {"cSave"} => \A r \in Rules : host.rules[r] > 0
    /\ pc[p] = "cNetnsAdd" => \A i \in 1..loc[p].n : i < loc[p].at => i \in host.netns
    /\ pc[p] \in NodeLoop \ {"cNetnsAdd"} =>
          \A i \in 1..loc[p].n : i <= loc[p].at => i \in host.netns
    /\ pc[p] = "cSave" => 1..loc[p].n \subseteq host.netns

\* Where nobody builds and nothing is recorded, nothing is left.
NobodyInv == stateFile = NoState /\ (\A p \in Procs : ~Building(p)) => Untouched

RecordedInv ==
    stateFile # NoState =>
        /\ stateFile.forward = HostForward
        /\ host.netns \subseteq 1..stateFile.nodes

BuilderInv(p) ==
    /\ Building(p) =>
        /\ stateFile = NoState
        /\ Undoable(p)
        /\ \A i \in Nodes : host.qdisc[i] = {}
    /\ pc[p] \in BuildLabels => Made(p)

\* What a process has read of the state file or the bridge that is still so.
ReaderInv(p) ==
    /\ TearingDown(p) => loc[p].seen.forward = HostForward
    /\ pc[p] \in {"cBridge", "cNetns", "cAddBridge"} /\ stateFile # NoState => host.bridge
    /\ pc[p] \in {"tNetns", "tRun"} => stateFile # NoState \/ "create" \in SerialOps

\* A pair both of whose ends are in the root namespace is about to be moved.
PairInv ==
    \A i \in Nodes : host.veth[i] = "host" =>
        \E p \in Procs : pc[p] = "cVethMove" /\ loc[p].at = i

CleanInv == NobodyInv /\ RecordedInv /\ \A p \in Procs : BuilderInv(p) /\ ReaderInv(p)

=============================================================================
