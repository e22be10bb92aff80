----------------------------- MODULE LabProofs -----------------------------
(***************************************************************************)
(* Proofs about module Lab, for any processes, nodes, rules, requests and  *)
(* any number of faults and crashes.                                       *)
(***************************************************************************)
EXTENDS LabInvariants, TLAPS

\* Each command that is applied to a node of the lab leaves a host behind.
LEMMA HostCommands ==
    ASSUME NEW h \in HostStates, NEW i \in Nodes
    PROVE  /\ VethAdd(h, i) \in HostStates
           /\ VethMove(h, i) \in HostStates
           /\ VethLeft(h, i) \in HostStates
           /\ Enslave(h, i) \in HostStates
           /\ Rename(h, i) \in HostStates
           /\ NetnsAdd(h, i) \in HostStates
           /\ \A flags \in SUBSET Flags : Netem(h, i, flags) \in HostStates
<1> USE DEF HostStates
<1>1. VethAdd(h, i) \in HostStates
  BY DEF VethStates, VethAdd
<1>2. VethMove(h, i) \in HostStates /\ VethLeft(h, i) \in HostStates
  BY DEF VethStates, VethMove, VethLeft
<1>3. Enslave(h, i) \in HostStates
  BY DEF Enslave
<1>4. Rename(h, i) \in HostStates
  BY DEF Rename
<1>5. NetnsAdd(h, i) \in HostStates
  BY DEF NetnsAdd
<1>6. \A flags \in SUBSET Flags : Netem(h, i, flags) \in HostStates
  BY DEF Netem
<1> QED
  BY <1>1, <1>2, <1>3, <1>4, <1>5, <1>6

\* So do the commands that concern the bridge, the rules and ip_forward, and
\* those that delete, for any index at all.
LEMMA HostCleanups ==
    ASSUME NEW h \in HostStates, NEW i \in Nat
    PROVE  /\ BridgeAdd(h) \in HostStates
           /\ BridgeDel(h) \in HostStates
           /\ PeerDel(h, i) \in HostStates
           /\ NetnsDel(h, i) \in HostStates
           /\ RuleAdd(h, i) \in HostStates
           /\ RuleDel(h, i) \in HostStates
           /\ \A v \in {0, 1} : SetForward(h, v) \in HostStates
<1> USE DEF HostStates
<1>1. BridgeAdd(h) \in HostStates
  BY DEF BridgeAdd
<1>2. BridgeDel(h) \in HostStates
  BY DEF BridgeDel
<1>3. \A g \in HostStates : PeerDel(g, i) \in HostStates
  BY DEF PeerDel, VethStates
<1>4. NetnsDel(h, i) \in HostStates
  BY DEF NetnsDel, VethStates
<1>5. RuleAdd(h, i) \in HostStates
  BY DEF RuleAdd
<1>6. RuleDel(h, i) \in HostStates
  BY DEF RuleDel
<1>7. \A v \in {0, 1} : SetForward(h, v) \in HostStates
  BY DEF SetForward
<1> QED
  BY <1>1, <1>2, <1>3, <1>4, <1>5, <1>6, <1>7

-----------------------------------------------------------------------------
(* Types.  First the moves of a process, then one step per action.         *)

\* A process that goes to label l with locals v, cleanups u and result r.
LEMMA MoveControl ==
    ASSUME ControlInv, NEW p \in Procs,
           NEW l \in Labels, NEW v \in Locals, Indices(l, v),
           NEW u \in Seq(Cleanups), NEW r \in Results,
           pc' = [pc EXCEPT ![p] = l], loc' = [loc EXCEPT ![p] = v],
           undo' = [undo EXCEPT ![p] = u], result' = [result EXCEPT ![p] = r]
    PROVE  ControlInv'
<1>1. /\ pc' \in [Procs -> Labels]
      /\ undo' \in [Procs -> Seq(Cleanups)]
      /\ loc' \in [Procs -> Locals]
      /\ result' \in [Procs -> Results]
  BY DEF ControlInv
<1>2. ASSUME NEW q \in Procs PROVE Indices(pc'[q], loc'[q])
  BY DEF ControlInv
<1> QED
  BY <1>1, <1>2 DEF ControlInv

LEMMA GotoControl ==
    ASSUME ControlInv, NEW p \in Procs, NEW l \in Labels, Indices(l, loc[p]),
           Goto(p, l)
    PROVE  ControlInv'
<1>1. /\ loc[p] \in Locals /\ undo[p] \in Seq(Cleanups) /\ result[p] \in Results
      /\ loc = [loc EXCEPT ![p] = loc[p]]
      /\ undo = [undo EXCEPT ![p] = undo[p]]
      /\ result = [result EXCEPT ![p] = result[p]]
  BY DEF ControlInv
<1> QED
  BY <1>1, MoveControl, ZenonT(60) DEF Goto

LEMMA GotoAtControl ==
    ASSUME ControlInv, NEW p \in Procs, NEW l \in Labels, NEW i \in Nat,
           Indices(l, [loc[p] EXCEPT !.at = i]), GotoAt(p, l, i)
    PROVE  ControlInv'
<1> DEFINE v == [loc[p] EXCEPT !.at = i]
<1>1. v \in Locals /\ loc' = [loc EXCEPT ![p] = v]
  BY DEF ControlInv, GotoAt, Locals
<1>2. /\ undo[p] \in Seq(Cleanups) /\ result[p] \in Results
      /\ undo = [undo EXCEPT ![p] = undo[p]]
      /\ result = [result EXCEPT ![p] = result[p]]
  BY DEF ControlInv
<1> QED
  BY <1>1, <1>2, MoveControl, ZenonT(60) DEF GotoAt

LEMMA DeferControl ==
    ASSUME ControlInv, NEW p \in Procs, NEW l \in Labels, Indices(l, loc[p]),
           NEW c \in Cleanups, Defer(p, l, c)
    PROVE  ControlInv'
<1>1. /\ loc[p] \in Locals /\ result[p] \in Results
      /\ loc = [loc EXCEPT ![p] = loc[p]]
      /\ result = [result EXCEPT ![p] = result[p]]
  BY DEF ControlInv
<1>2. Append(undo[p], c) \in Seq(Cleanups)
  BY DEF ControlInv
<1> QED
  BY <1>1, <1>2, MoveControl DEF Defer

LEMMA ReturnControl ==
    ASSUME ControlInv, NEW p \in Procs, NEW r \in Results, Return(p, r)
    PROVE  ControlInv'
<1>1. Blank \in Locals
  BY DEF Blank, Locals, Flags
<1>2. Indices("idle", Blank) /\ "idle" \in Labels
  BY DEF Indices, Labels, CreateLabels, ImpairLabels, NodeLoop, RecordedLabels
<1>3. <<>> \in Seq(Cleanups)
  OBVIOUS
<1> QED
  BY <1>1, <1>2, <1>3, MoveControl DEF Return

LEMMA StartControl ==
    ASSUME ControlInv, NEW p \in Procs, NEW op, NEW l \in {"cLoad", "dLoad", "tLoad"},
           NEW n \in Nodes \cup {0}, l # "dLoad" => n \in Nodes,
           NEW flags \in SUBSET Flags, Start(p, op, l, n, flags)
    PROVE  ControlInv'
<1> DEFINE v == [Blank EXCEPT !.op = op, !.n = n, !.flags = flags]
<1>0. op \in Ops /\ n \in Nat
  BY HostAssumption DEF Start, Nodes
<1>1. v \in Locals
  BY <1>0 DEF Blank, Locals
<1>2. Indices(l, v) /\ l \in Labels
  BY DEF Blank, Indices, Labels, CreateLabels, ImpairLabels, NodeLoop,
         DestroyLabels, RecordedLabels, SharedLabels
<1>3. /\ undo[p] \in Seq(Cleanups) /\ "none" \in Results
      /\ undo' = [undo EXCEPT ![p] = undo[p]]
  BY DEF ControlInv, Start, Results
<1> QED
  BY <1>1, <1>2, <1>3, MoveControl DEF Start

LEMMA NextRuleControl ==
    ASSUME ControlInv, NEW p \in Procs, NextRule(p)
    PROVE  ControlInv'
<1>1. loc[p] \in Locals
  BY DEF ControlInv
<1>2. CASE loc[p].at < RuleCount
  <2>1. Indices("dRuleCheck", [loc[p] EXCEPT !.at = loc[p].at + 1]) /\ loc[p].at + 1 \in Nat
    BY <1>1 DEF Locals, Indices, CreateLabels, ImpairLabels, NodeLoop, RecordedLabels
  <2>2. "dRuleCheck" \in Labels
    BY DEF Labels, DestroyLabels, SharedLabels
  <2> QED
    BY <1>2, <2>1, <2>2, GotoAtControl DEF NextRule
<1>3. CASE ~(loc[p].at < RuleCount) /\ loc[p].seen = NoState
  BY <1>3, ReturnControl DEF NextRule, Results
<1>4. CASE ~(loc[p].at < RuleCount) /\ loc[p].seen # NoState
  <2>1. Indices("dForward", loc[p]) /\ "dForward" \in Labels
    BY <1>4 DEF Indices, CreateLabels, ImpairLabels, NodeLoop, Labels,
       DestroyLabels, RecordedLabels
  <2> QED
    BY <1>4, <2>1, GotoControl DEF NextRule
<1> QED
  BY <1>2, <1>3, <1>4

\* Every action preserves the types; the names follow Step, Begin and Crash.
LEMMA TypeStep ==
    ASSUME TypeInv, NEW p \in Procs, Step(p) \/ Begin(p) \/ Crash(p)
    PROVE  TypeInv'
<1>0. /\ MachineInv /\ ControlInv
      /\ pc[p] \in Labels /\ loc[p] \in Locals /\ Indices(pc[p], loc[p])
      /\ undo[p] \in Seq(Cleanups) /\ result[p] \in Results
  BY DEF TypeInv, ControlInv
<1>same. /\ undo = [undo EXCEPT ![p] = undo[p]]
         /\ result = [result EXCEPT ![p] = result[p]]
         /\ loc = [loc EXCEPT ![p] = loc[p]]
         /\ pc = [pc EXCEPT ![p] = pc[p]]
  BY DEF TypeInv, ControlInv
<1>1. ASSUME CreateLoad(p) PROVE TypeInv'
  <2>1. ControlInv'
    BY <1>1, <1>0, GotoControl, ReturnControl, HostAssumption
    DEF CreateLoad, Ask, Fail, Indices, Locals, Results, Nodes, Labels,
        CreateLabels, ImpairLabels, DestroyLabels, RecordedLabels,
        FallbackLabels, SharedLabels, NodeLoop
  <2>2. MachineInv'
    BY <1>1, <1>0, LabAssumption
    DEF MachineInv, CreateLoad, Run, Ask, Fault, KeepState, Locals
  <2> QED
    BY <2>1, <2>2 DEF TypeInv
<1>2. ASSUME CreateBridgeExists(p) PROVE TypeInv'
  <2>1. ControlInv'
    BY <1>2, <1>0, GotoControl, ReturnControl, HostAssumption
    DEF CreateBridgeExists, Ask, Fail, Indices, Locals, Results, Nodes,
        Labels, CreateLabels, ImpairLabels, DestroyLabels, RecordedLabels,
        FallbackLabels, SharedLabels, NodeLoop
  <2>2. MachineInv'
    BY <1>2, <1>0, LabAssumption
    DEF MachineInv, CreateBridgeExists, Run, Ask, Fault, KeepState, Locals
  <2> QED
    BY <2>1, <2>2 DEF TypeInv
<1>3. ASSUME CreateListNamespaces(p) PROVE TypeInv'
  <2>1. ControlInv'
    BY <1>3, <1>0, GotoControl, ReturnControl, HostAssumption
    DEF CreateListNamespaces, Ask, Fail, Indices, Locals, Results, Nodes,
        Labels, CreateLabels, ImpairLabels, DestroyLabels, RecordedLabels,
        FallbackLabels, SharedLabels, NodeLoop
  <2>2. MachineInv'
    BY <1>3, <1>0, LabAssumption
    DEF MachineInv, CreateListNamespaces, Run, Ask, Fault, KeepState, Locals
  <2> QED
    BY <2>1, <2>2 DEF TypeInv
<1>4. ASSUME AddBridge(p) PROVE TypeInv'
  <2>1. ControlInv'
    BY <1>4, <1>0, DeferControl, ReturnControl, HostAssumption
    DEF AddBridge, Run, Fail, Cleanup, Cleanups, Indices, Locals, Results,
        Nodes, Labels, CreateLabels, ImpairLabels, DestroyLabels,
        RecordedLabels, FallbackLabels, SharedLabels, NodeLoop
  <2>2. MachineInv'
    BY <1>4, <1>0, LabAssumption, HostCleanups
    DEF MachineInv, AddBridge, Run, Ask, Fault, KeepState, Locals
  <2> QED
    BY <2>1, <2>2 DEF TypeInv
<1>5. ASSUME SetBridge(p) PROVE TypeInv'
  <2>1. ControlInv'
    BY <1>5, <1>0, GotoControl, HostAssumption
    DEF SetBridge, Run, Indices, Locals, Results, Nodes, Labels, CreateLabels,
        ImpairLabels, DestroyLabels, RecordedLabels, FallbackLabels,
        SharedLabels, NodeLoop
  <2>2. MachineInv'
    BY <1>5, <1>0, LabAssumption
    DEF MachineInv, SetBridge, Run, Ask, Fault, KeepState, Locals
  <2> QED
    BY <2>1, <2>2 DEF TypeInv
<1>6. ASSUME ReadForward(p) PROVE TypeInv'
  <2>1. ControlInv'
    <3> DEFINE v == [loc[p] EXCEPT !.before = host.forward]
    <3>1. v \in Locals /\ Indices("cSetForward", v)
      BY <1>6, <1>0 DEF ReadForward, MachineInv, HostStates, Locals, Indices,
         CreateLabels, ImpairLabels, NodeLoop, RecordedLabels
    <3>2. "cSetForward" \in Labels /\ Indices("cRollback", loc[p]) /\ "cRollback" \in Labels
      BY <1>6, <1>0 DEF ReadForward, Indices,
         Labels, CreateLabels, ImpairLabels, NodeLoop, RecordedLabels
    <3>3. CASE Goto(p, "cRollback")
      BY <3>2, <3>3, <1>0, GotoControl
    <3>4. CASE /\ pc' = [pc EXCEPT ![p] = "cSetForward"]
               /\ loc' = [loc EXCEPT ![p].before = host.forward]
               /\ UNCHANGED <<undo, result>>
      <4>1. loc' = [loc EXCEPT ![p] = v]
        BY <3>4, <1>0 DEF ControlInv
      <4>8. undo' = [undo EXCEPT ![p] = undo[p]] /\ result' = [result EXCEPT ![p] = result[p]]
        BY <3>4, <1>0, <1>same
      <4>9. pc' = [pc EXCEPT ![p] = "cSetForward"]
        BY <3>4, <1>0, <1>same
      <4> HIDE DEF v
      <4> QED
        BY <3>1, <3>2, <4>1, <4>8, <4>9, <1>0, MoveControl
    <3> QED
      BY <1>6, <3>3, <3>4 DEF ReadForward
  <2>2. MachineInv'
    BY <1>6, <1>0, LabAssumption
    DEF MachineInv, ReadForward, Run, Ask, Fault, KeepState, Locals
  <2> QED
    BY <2>1, <2>2 DEF TypeInv
<1>7. ASSUME EnableForward(p) PROVE TypeInv'
  <2>1. ControlInv'
    BY <1>7, <1>0, DeferControl, GotoControl, HostAssumption
    DEF EnableForward, Run, Cleanup, Cleanups, Indices, Locals, Results,
        Nodes, Labels, CreateLabels, ImpairLabels, DestroyLabels,
        RecordedLabels, FallbackLabels, SharedLabels, NodeLoop
  <2>2. MachineInv'
    BY <1>7, <1>0, LabAssumption, HostCleanups
    DEF MachineInv, EnableForward, Run, Ask, Fault, KeepState, Locals
  <2> QED
    BY <2>1, <2>2 DEF TypeInv
<1>8. ASSUME EnsureRule(p) PROVE TypeInv'
  <2>1. ControlInv'
    BY <1>8, <1>0, GotoControl, GotoAtControl, HostAssumption
    DEF EnsureRule, Ask, AfterRule, Indices, Locals, Results, Nodes, Labels,
        CreateLabels, ImpairLabels, DestroyLabels, RecordedLabels,
        FallbackLabels, SharedLabels, NodeLoop
  <2>2. MachineInv'
    BY <1>8, <1>0, LabAssumption
    DEF MachineInv, EnsureRule, Run, Ask, Fault, KeepState, Locals
  <2> QED
    BY <2>1, <2>2 DEF TypeInv
<1>9. ASSUME AddRule(p) PROVE TypeInv'
  <2>1. ControlInv'
    <3> DEFINE r == loc[p].at
                v == [loc[p] EXCEPT !.at = IF r < RuleCount THEN r + 1 ELSE 1]
                l == IF r < RuleCount THEN "cRuleCheck" ELSE "cNetnsAdd"
    <3>a. pc[p] = "cRuleAdd" /\ pc[p] \in CreateLabels
      BY <1>9 DEF AddRule, CreateLabels
    <3>b. r \in Nat /\ loc[p].n \in Nodes
      BY <3>a, <1>0 DEF Locals, Indices
    <3>c. v \in Locals
      BY <3>b, <1>0 DEF Locals
    <3>d. v.n = loc[p].n /\ (r >= RuleCount => v.at = 1)
      BY <3>b, <1>0, HostAssumption DEF Locals
    <3>e. l \in NodeLoop => v.at \in 1..v.n
      BY <3>b, <3>d, HostAssumption DEF NodeLoop, Nodes
    <3>f. l \in Labels /\ l \notin RecordedLabels
      BY DEF Labels, CreateLabels, RecordedLabels
    <3>1. v \in Locals /\ Indices(l, v) /\ l \in Labels
      <4> HIDE DEF v, l
      <4> QED
        BY <3>b, <3>c, <3>d, <3>e, <3>f DEF Indices
    <3>2. Indices("cRollback", loc[p]) /\ "cRollback" \in Labels
      BY <1>9, <1>0 DEF AddRule, Indices,
         Labels, CreateLabels, ImpairLabels, NodeLoop, RecordedLabels
    <3>3. Append(undo[p], Cleanup("rule", r)) \in Seq(Cleanups)
      BY <1>0 DEF Cleanup, Cleanups, Locals
    <3>4. CASE Goto(p, "cRollback")
      BY <3>2, <3>4, <1>0, GotoControl
    <3>5. CASE /\ undo' = [undo EXCEPT ![p] = Append(@, Cleanup("rule", r))]
               /\ pc' = [pc EXCEPT ![p] = l]
               /\ loc' = [loc EXCEPT ![p].at = IF r < RuleCount THEN r + 1 ELSE 1]
               /\ UNCHANGED result
      <4>1. loc' = [loc EXCEPT ![p] = v]
        BY <3>5, <1>0 DEF ControlInv
      <4>2. undo' = [undo EXCEPT ![p] = Append(undo[p], Cleanup("rule", r))]
        BY <3>5, <1>0 DEF ControlInv
      <4>3. result' = [result EXCEPT ![p] = result[p]]
        BY <3>5, <1>0, <1>same
      <4>4. pc' = [pc EXCEPT ![p] = l]
        BY <3>5
      <4> HIDE DEF v, l
      <4> QED
        BY <3>1, <3>3, <4>1, <4>2, <4>3, <4>4, <1>0, MoveControl
    <3> QED
      BY <1>9, <3>4, <3>5 DEF AddRule
  <2>0. loc[p].at \in Nat /\ host \in HostStates
    BY <1>0 DEF MachineInv, Locals
  <2>1a. RuleAdd(host, loc[p].at) \in HostStates
    BY <2>0, HostCleanups
  <2>2. MachineInv'
    BY <1>9, <1>0, LabAssumption, <2>1a
    DEF MachineInv, AddRule, Run, Ask, Fault, KeepState, Locals
  <2> QED
    BY <2>1, <2>2 DEF TypeInv
<1>10. ASSUME AddNetns(p) PROVE TypeInv'
  <2>1. ControlInv'
    BY <1>10, <1>0, DeferControl, GotoControl, HostAssumption
    DEF AddNetns, Run, Cleanup, Cleanups, Indices, Locals, Results, Nodes,
        Labels, CreateLabels, ImpairLabels, DestroyLabels, RecordedLabels,
        FallbackLabels, SharedLabels, NodeLoop
  <2>0. loc[p].at \in Nodes
    BY <1>10, <1>0, HostAssumption
    DEF AddNetns, Indices, Locals, CreateLabels, ImpairLabels, NodeLoop, Nodes
  <2>2. MachineInv'
    BY <1>10, <1>0, LabAssumption, <2>0, HostCommands
    DEF MachineInv, AddNetns, Run, Ask, Fault, KeepState, Locals
  <2> QED
    BY <2>1, <2>2 DEF TypeInv
<1>11. ASSUME AddVeth(p) PROVE TypeInv'
  <2>1. ControlInv'
    BY <1>11, <1>0, GotoControl, HostAssumption
    DEF AddVeth, Run, Indices, Locals, Results, Nodes, Labels, CreateLabels,
        ImpairLabels, DestroyLabels, RecordedLabels, FallbackLabels,
        SharedLabels, NodeLoop
  <2>0. loc[p].at \in Nodes
    BY <1>11, <1>0, HostAssumption
    DEF AddVeth, Indices, Locals, CreateLabels, ImpairLabels, NodeLoop, Nodes
  <2>2. MachineInv'
    BY <1>11, <1>0, LabAssumption, <2>0, HostCommands
    DEF MachineInv, AddVeth, Run, Ask, Fault, KeepState, Locals
  <2> QED
    BY <2>1, <2>2 DEF TypeInv
<1>12. ASSUME MoveVeth(p) PROVE TypeInv'
  <2>1. ControlInv'
    BY <1>12, <1>0, GotoControl, HostAssumption
    DEF MoveVeth, Indices, Locals, Results, Nodes, Labels, CreateLabels,
        ImpairLabels, DestroyLabels, RecordedLabels, FallbackLabels,
        SharedLabels, NodeLoop
  <2>0. loc[p].at \in Nodes
    BY <1>12, <1>0, HostAssumption
    DEF MoveVeth, Indices, Locals, CreateLabels, ImpairLabels, NodeLoop, Nodes
  <2>2. MachineInv'
    BY <1>12, <1>0, LabAssumption, <2>0, HostCommands
    DEF MachineInv, MoveVeth, KeepState
  <2> QED
    BY <2>1, <2>2 DEF TypeInv
<1>13. ASSUME EnslavePeer(p) PROVE TypeInv'
  <2>1. ControlInv'
    BY <1>13, <1>0, GotoControl, HostAssumption
    DEF EnslavePeer, Run, Indices, Locals, Results, Nodes, Labels,
        CreateLabels, ImpairLabels, DestroyLabels, RecordedLabels,
        FallbackLabels, SharedLabels, NodeLoop
  <2>0. loc[p].at \in Nodes
    BY <1>13, <1>0, HostAssumption
    DEF EnslavePeer, Indices, Locals, CreateLabels, ImpairLabels, NodeLoop,
        Nodes
  <2>2. MachineInv'
    BY <1>13, <1>0, LabAssumption, <2>0, HostCommands
    DEF MachineInv, EnslavePeer, Run, Ask, Fault, KeepState, Locals
  <2> QED
    BY <2>1, <2>2 DEF TypeInv
<1>14. ASSUME RenameVeth(p) PROVE TypeInv'
  <2>1. ControlInv'
    BY <1>14, <1>0, GotoControl, HostAssumption
    DEF RenameVeth, Run, Indices, Locals, Results, Nodes, Labels,
        CreateLabels, ImpairLabels, DestroyLabels, RecordedLabels,
        FallbackLabels, SharedLabels, NodeLoop
  <2>0. loc[p].at \in Nodes
    BY <1>14, <1>0, HostAssumption
    DEF RenameVeth, Indices, Locals, CreateLabels, ImpairLabels, NodeLoop,
        Nodes
  <2>2. MachineInv'
    BY <1>14, <1>0, LabAssumption, <2>0, HostCommands
    DEF MachineInv, RenameVeth, Run, Ask, Fault, KeepState, Locals
  <2> QED
    BY <2>1, <2>2 DEF TypeInv
<1>15. ASSUME PingBridge(p) PROVE TypeInv'
  <2>1. ControlInv'
    BY <1>15, <1>0, GotoControl, GotoAtControl, HostAssumption
    DEF PingBridge, Run, Indices, Locals, Results, Nodes, Labels,
        CreateLabels, ImpairLabels, DestroyLabels, RecordedLabels,
        FallbackLabels, SharedLabels, NodeLoop
  <2>2. MachineInv'
    BY <1>15, <1>0, LabAssumption
    DEF MachineInv, PingBridge, Run, Ask, Fault, KeepState, Locals
  <2> QED
    BY <2>1, <2>2 DEF TypeInv
<1>16. ASSUME SaveState(p) PROVE TypeInv'
  <2>1. ControlInv'
    BY <1>16, <1>0, GotoControl, ReturnControl, HostAssumption
    DEF SaveState, Indices, Locals, Results, Nodes, Labels, CreateLabels,
        ImpairLabels, DestroyLabels, RecordedLabels, FallbackLabels,
        SharedLabels, NodeLoop
  <2>2. MachineInv'
    BY <1>16, <1>0, LabAssumption
    DEF MachineInv, SaveState, Run, Ask, Fault, KeepState, Locals, State,
        Nodes, Indices, CreateLabels, ImpairLabels, RecordedLabels
  <2> QED
    BY <2>1, <2>2 DEF TypeInv
<1>17. ASSUME Rollback(p) PROVE TypeInv'
  <2>1. ControlInv'
    <3>1. CASE undo[p] = <<>>
      BY <1>17, <1>0, <3>1, ReturnControl DEF Rollback, Fail, Results
    <3>2. CASE undo[p] # <<>>
      <4>1. undo' = [undo EXCEPT ![p] = Front(undo[p])] /\ UNCHANGED <<pc, loc, result>>
        BY <1>17, <3>2, <1>0 DEF Rollback, ControlInv
      <4>2. Front(undo[p]) \in Seq(Cleanups)
        BY <1>0, <3>2 DEF Front
      <4>3. /\ undo' = [undo EXCEPT ![p] = Front(undo[p])]
            /\ pc' = [pc EXCEPT ![p] = pc[p]]
            /\ loc' = [loc EXCEPT ![p] = loc[p]]
            /\ result' = [result EXCEPT ![p] = result[p]]
        BY <4>1, <1>0, <1>same
      <4> QED
        BY <4>2, <4>3, <1>0, MoveControl
    <3> QED
      BY <3>1, <3>2
  <2>2. MachineInv'
    <3>1. CASE undo[p] = <<>> \/ Fault
      BY <1>17, <1>0, <3>1, LabAssumption DEF MachineInv, Rollback, Fault, KeepState
    <3>2. CASE undo[p] # <<>> /\ host' = Undone(host, Last(undo[p]), loc[p].before)
                /\ UNCHANGED faults
      <4>1. Last(undo[p]) \in Cleanups
        BY <1>0, <3>2 DEF Last
      <4>2. Undone(host, Last(undo[p]), loc[p].before) \in HostStates
        BY <4>1, <1>0, HostCleanups DEF MachineInv, Undone, Cleanups, Locals
      <4> QED
        BY <1>17, <1>0, <3>2, <4>2 DEF MachineInv, Rollback, KeepState
    <3> QED
      BY <1>17, <3>1, <3>2 DEF Rollback
  <2> QED
    BY <2>1, <2>2 DEF TypeInv
<1>18. ASSUME DestroyLoad(p) PROVE TypeInv'
  <2>1. ControlInv'
    <3> DEFINE v == [loc[p] EXCEPT !.seen = stateFile]
                l == IF stateFile = NoState THEN "fBridge" ELSE "dNode"
    <3>1. v \in Locals /\ Indices(l, v) /\ l \in Labels
      BY <1>0 DEF MachineInv, Locals, Indices, Labels, CreateLabels, ImpairLabels,
         DestroyLabels, RecordedLabels, FallbackLabels, NodeLoop
    <3>2. CASE Fail(p)
      BY <3>2, <1>0, ReturnControl DEF Fail, Results
    <3>3. CASE /\ pc' = [pc EXCEPT ![p] = l]
               /\ loc' = [loc EXCEPT ![p].seen = stateFile]
               /\ UNCHANGED <<undo, result>>
      <4>1. loc' = [loc EXCEPT ![p] = v] /\ pc' = [pc EXCEPT ![p] = l]
        BY <3>3, <1>0 DEF ControlInv
      <4>8. undo' = [undo EXCEPT ![p] = undo[p]] /\ result' = [result EXCEPT ![p] = result[p]]
        BY <3>3, <1>0, <1>same
      <4>9. pc' = [pc EXCEPT ![p] = l]
        BY <3>3, <1>0, <1>same
      <4> HIDE DEF v, l
      <4> QED
        BY <3>1, <4>1, <4>8, <4>9, <1>0, MoveControl
    <3> QED
      BY <1>18, <3>2, <3>3 DEF DestroyLoad
  <2>2. MachineInv'
    BY <1>18, <1>0, LabAssumption
    DEF MachineInv, DestroyLoad, Run, Ask, Fault, KeepState, Locals
  <2> QED
    BY <2>1, <2>2 DEF TypeInv
<1>19. ASSUME DeleteNode(p) PROVE TypeInv'
  <2>1. ControlInv'
    BY <1>19, <1>0, GotoControl, GotoAtControl, ReturnControl, HostAssumption
    DEF DeleteNode, Run, Fail, Indices, Locals, Results, Nodes, Labels,
        CreateLabels, ImpairLabels, DestroyLabels, RecordedLabels,
        FallbackLabels, SharedLabels, NodeLoop
  <2>0. loc[p].at \in Nat /\ host \in HostStates
    BY <1>0 DEF MachineInv, Locals
  <2>1a. NetnsDel(host, loc[p].at) \in HostStates
    BY <2>0, HostCleanups
  <2>2. MachineInv'
    BY <1>19, <1>0, LabAssumption, <2>1a
    DEF MachineInv, DeleteNode, Run, Ask, Fault, KeepState, Locals
  <2> QED
    BY <2>1, <2>2 DEF TypeInv
<1>20. ASSUME DestroyBridgeExists(p) PROVE TypeInv'
  <2>1. ControlInv'
    BY <1>20, <1>0, GotoControl, GotoAtControl, ReturnControl, HostAssumption
    DEF DestroyBridgeExists, Ask, Fail, Indices, Locals, Results, Nodes,
        Labels, CreateLabels, ImpairLabels, DestroyLabels, RecordedLabels,
        FallbackLabels, SharedLabels, NodeLoop
  <2>2. MachineInv'
    BY <1>20, <1>0, LabAssumption
    DEF MachineInv, DestroyBridgeExists, Run, Ask, Fault, KeepState, Locals
  <2> QED
    BY <2>1, <2>2 DEF TypeInv
<1>21. ASSUME FallbackBridgeExists(p) PROVE TypeInv'
  <2>1. ControlInv'
    BY <1>21, <1>0, GotoControl, GotoAtControl, ReturnControl, HostAssumption
    DEF FallbackBridgeExists, Ask, Fail, Indices, Locals, Results, Nodes,
        Labels, CreateLabels, ImpairLabels, DestroyLabels, RecordedLabels,
        FallbackLabels, SharedLabels, NodeLoop
  <2>2. MachineInv'
    BY <1>21, <1>0, LabAssumption
    DEF MachineInv, FallbackBridgeExists, Run, Ask, Fault, KeepState, Locals
  <2> QED
    BY <2>1, <2>2 DEF TypeInv
<1>22. ASSUME ListMembers(p) PROVE TypeInv'
  <2>1. ControlInv'
    <3> DEFINE v == [loc[p] EXCEPT !.members = host.ports]
    <3>1. v \in Locals /\ Indices("fPeer", v) /\ "fPeer" \in Labels
      BY <1>0 DEF MachineInv, HostStates, Locals, Indices, Labels, CreateLabels,
         ImpairLabels, DestroyLabels, RecordedLabels, FallbackLabels, NodeLoop
    <3>2. CASE Fail(p)
      BY <3>2, <1>0, ReturnControl DEF Fail, Results
    <3>3. CASE /\ pc' = [pc EXCEPT ![p] = "fPeer"]
               /\ loc' = [loc EXCEPT ![p].members = host.ports]
               /\ UNCHANGED <<undo, result>>
      <4>1. loc' = [loc EXCEPT ![p] = v]
        BY <3>3, <1>0 DEF ControlInv
      <4>8. undo' = [undo EXCEPT ![p] = undo[p]] /\ result' = [result EXCEPT ![p] = result[p]]
        BY <3>3, <1>0, <1>same
      <4>9. pc' = [pc EXCEPT ![p] = "fPeer"]
        BY <3>3, <1>0, <1>same
      <4> HIDE DEF v
      <4> QED
        BY <3>1, <4>1, <4>8, <4>9, <1>0, MoveControl
    <3> QED
      BY <1>22, <3>2, <3>3 DEF ListMembers
  <2>2. MachineInv'
    BY <1>22, <1>0, LabAssumption
    DEF MachineInv, ListMembers, Run, Ask, Fault, KeepState, Locals
  <2> QED
    BY <2>1, <2>2 DEF TypeInv
<1>23. ASSUME DeletePeer(p) PROVE TypeInv'
  <2>1. ControlInv'
    <3>1. CASE Fail(p)
      BY <3>1, <1>0, ReturnControl DEF Fail, Results
    <3>2. CASE Goto(p, "dDown")
      BY <3>2, <1>0, GotoControl DEF Indices, Labels, CreateLabels, ImpairLabels,
         DestroyLabels, RecordedLabels, SharedLabels, NodeLoop
    <3>3. ASSUME NEW i \in loc[p].members, UNCHANGED <<pc, undo, result>>,
                 loc' = [loc EXCEPT ![p].members = @ \ {i}]
          PROVE  ControlInv'
      <4> DEFINE v == [loc[p] EXCEPT !.members = @ \ {i}]
      <4>1. v \in Locals /\ Indices(pc[p], v)
        BY <1>0 DEF Locals, Indices
      <4>2. loc' = [loc EXCEPT ![p] = v]
        BY <3>3, <1>0 DEF ControlInv
      <4>8. undo' = [undo EXCEPT ![p] = undo[p]] /\ result' = [result EXCEPT ![p] = result[p]]
        BY <3>3, <1>0, <1>same
      <4>9. pc' = [pc EXCEPT ![p] = pc[p]]
        BY <3>3, <1>0, <1>same
      <4> HIDE DEF v
      <4> QED
        BY <4>1, <4>2, <4>8, <4>9, <1>0, MoveControl
    <3> QED
      BY <1>23, <3>1, <3>2, <3>3 DEF DeletePeer, Run
  <2>2. MachineInv'
    <3>1. ASSUME NEW i \in loc[p].members PROVE PeerDel(host, i) \in HostStates
      <4>1. i \in Nat /\ host \in HostStates
        BY <1>0, HostAssumption DEF MachineInv, Locals, Nodes
      <4> QED
        BY <4>1, HostCleanups
    <3> QED
      BY <1>23, <1>0, <3>1, LabAssumption DEF MachineInv, DeletePeer, Run, Fault, KeepState
  <2> QED
    BY <2>1, <2>2 DEF TypeInv
<1>24. ASSUME BridgeDown(p) PROVE TypeInv'
  <2>1. ControlInv'
    BY <1>24, <1>0, GotoControl, ReturnControl, HostAssumption
    DEF BridgeDown, Run, Fail, Indices, Locals, Results, Nodes, Labels,
        CreateLabels, ImpairLabels, DestroyLabels, RecordedLabels,
        FallbackLabels, SharedLabels, NodeLoop
  <2>2. MachineInv'
    BY <1>24, <1>0, LabAssumption
    DEF MachineInv, BridgeDown, Run, Ask, Fault, KeepState, Locals
  <2> QED
    BY <2>1, <2>2 DEF TypeInv
<1>25. ASSUME DeleteBridge(p) PROVE TypeInv'
  <2>1. ControlInv'
    BY <1>25, <1>0, GotoControl, GotoAtControl, ReturnControl, HostAssumption
    DEF DeleteBridge, Run, Fail, Indices, Locals, Results, Nodes, Labels,
        CreateLabels, ImpairLabels, DestroyLabels, RecordedLabels,
        FallbackLabels, SharedLabels, NodeLoop
  <2>2. MachineInv'
    BY <1>25, <1>0, LabAssumption, HostCleanups
    DEF MachineInv, DeleteBridge, Run, Ask, Fault, KeepState, Locals
  <2> QED
    BY <2>1, <2>2 DEF TypeInv
<1>26. ASSUME CheckRule(p) PROVE TypeInv'
  <2>1. ControlInv'
    BY <1>26, <1>0, GotoControl, NextRuleControl, ReturnControl,
       HostAssumption
    DEF CheckRule, Ask, Fail, Indices, Locals, Results, Nodes, Labels,
        CreateLabels, ImpairLabels, DestroyLabels, RecordedLabels,
        FallbackLabels, SharedLabels, NodeLoop
  <2>2. MachineInv'
    BY <1>26, <1>0, LabAssumption
    DEF MachineInv, CheckRule, Run, Ask, Fault, KeepState, Locals
  <2> QED
    BY <2>1, <2>2 DEF TypeInv
<1>27. ASSUME DeleteRule(p) PROVE TypeInv'
  <2>1. ControlInv'
    BY <1>27, <1>0, GotoControl, NextRuleControl, ReturnControl,
       HostAssumption
    DEF DeleteRule, Fail, Indices, Locals, Results, Nodes, Labels,
        CreateLabels, ImpairLabels, DestroyLabels, RecordedLabels,
        FallbackLabels, SharedLabels, NodeLoop
  <2>0. loc[p].at \in Nat /\ host \in HostStates
    BY <1>0 DEF MachineInv, Locals
  <2>1a. RuleDel(host, loc[p].at) \in HostStates
    BY <2>0, HostCleanups
  <2>2. MachineInv'
    BY <1>27, <1>0, LabAssumption, <2>1a
    DEF MachineInv, DeleteRule, Run, Ask, Fault, KeepState, Locals
  <2> QED
    BY <2>1, <2>2 DEF TypeInv
<1>28. ASSUME RestoreForward(p) PROVE TypeInv'
  <2>1. ControlInv'
    BY <1>28, <1>0, GotoControl, ReturnControl, HostAssumption
    DEF RestoreForward, Run, Fail, Indices, Locals, Results, Nodes, Labels,
        CreateLabels, ImpairLabels, DestroyLabels, RecordedLabels,
        FallbackLabels, SharedLabels, NodeLoop
  <2>2. MachineInv'
    BY <1>28, <1>0, LabAssumption, HostCleanups
    DEF MachineInv, RestoreForward, Run, Ask, Fault, KeepState, Locals,
        Indices, CreateLabels, ImpairLabels, RecordedLabels, State
  <2> QED
    BY <2>1, <2>2 DEF TypeInv
<1>29. ASSUME DeleteStateFile(p) PROVE TypeInv'
  <2>1. ControlInv'
    BY <1>29, <1>0, ReturnControl, HostAssumption
    DEF DeleteStateFile, Fail, Indices, Locals, Results, Nodes, Labels,
        CreateLabels, ImpairLabels, DestroyLabels, RecordedLabels,
        FallbackLabels, SharedLabels, NodeLoop
  <2>2. MachineInv'
    BY <1>29, <1>0, LabAssumption
    DEF MachineInv, DeleteStateFile, Run, Ask, Fault, KeepState, Locals
  <2> QED
    BY <2>1, <2>2 DEF TypeInv
<1>30. ASSUME ImpairLoad(p) PROVE TypeInv'
  <2>1. ControlInv'
    BY <1>30, <1>0, GotoControl, ReturnControl, HostAssumption
    DEF ImpairLoad, Ask, Fail, Indices, Locals, Results, Nodes, Labels,
        CreateLabels, ImpairLabels, DestroyLabels, RecordedLabels,
        FallbackLabels, SharedLabels, NodeLoop
  <2>2. MachineInv'
    BY <1>30, <1>0, LabAssumption
    DEF MachineInv, ImpairLoad, Run, Ask, Fault, KeepState, Locals
  <2> QED
    BY <2>1, <2>2 DEF TypeInv
<1>31. ASSUME ImpairNamespace(p) PROVE TypeInv'
  <2>1. ControlInv'
    BY <1>31, <1>0, GotoControl, ReturnControl, HostAssumption
    DEF ImpairNamespace, Ask, Fail, Indices, Locals, Results, Nodes, Labels,
        CreateLabels, ImpairLabels, DestroyLabels, RecordedLabels,
        FallbackLabels, SharedLabels, NodeLoop
  <2>2. MachineInv'
    BY <1>31, <1>0, LabAssumption
    DEF MachineInv, ImpairNamespace, Run, Ask, Fault, KeepState, Locals
  <2> QED
    BY <2>1, <2>2 DEF TypeInv
<1>32. ASSUME ApplyNetem(p) PROVE TypeInv'
  <2>1. ControlInv'
    BY <1>32, <1>0, ReturnControl, HostAssumption
    DEF ApplyNetem, Run, Fail, Indices, Locals, Results, Nodes, Labels,
        CreateLabels, ImpairLabels, DestroyLabels, RecordedLabels,
        FallbackLabels, SharedLabels, NodeLoop
  <2>0. loc[p].n \in Nodes
    BY <1>32, <1>0, HostAssumption
    DEF ApplyNetem, Indices, Locals, CreateLabels, ImpairLabels, NodeLoop,
        Nodes
  <2>2. MachineInv'
    BY <1>32, <1>0, LabAssumption, <2>0, HostCommands, SMTT(30)
    DEF MachineInv, ApplyNetem, Run, Ask, Fault, KeepState, Locals
  <2> QED
    BY <2>1, <2>2 DEF TypeInv
<1>33. ASSUME ClearNetem(p) PROVE TypeInv'
  <2>1. ControlInv'
    BY <1>33, <1>0, ReturnControl, HostAssumption
    DEF ClearNetem, Run, Fail, Indices, Locals, Results, Nodes, Labels,
        CreateLabels, ImpairLabels, DestroyLabels, RecordedLabels,
        FallbackLabels, SharedLabels, NodeLoop
  <2>0. loc[p].n \in Nodes
    BY <1>33, <1>0, HostAssumption
    DEF ClearNetem, Indices, Locals, CreateLabels, ImpairLabels, NodeLoop,
        Nodes
  <2>1a. Netem(host, loc[p].n, {}) \in HostStates
    BY <1>0, <2>0, HostCommands DEF MachineInv
  <2>2. MachineInv'
    BY <1>33, <1>0, LabAssumption, <2>1a
    DEF MachineInv, ClearNetem, Run, Ask, Fault, KeepState, Locals
  <2> QED
    BY <2>1, <2>2 DEF TypeInv
<1>34. ASSUME StartCreate(p) PROVE TypeInv'
  <2>1. ControlInv'
    <3>1. PICK n \in Nodes : Start(p, "create", "cLoad", n, {})
      BY <1>34 DEF StartCreate, ValidCreate, Nodes
    <3>2. /\ n \in Nodes \cup {0} /\ {} \in SUBSET Flags
          /\ "cLoad" \in {"cLoad", "dLoad", "tLoad"}
      BY <3>1
    <3> QED
      BY <3>1, <3>2, <1>0, StartControl, Zenon
  <2>2. MachineInv'
    BY <1>34, <1>0, LabAssumption
    DEF MachineInv, StartCreate, Run, Ask, Fault, KeepState, Locals, Start
  <2> QED
    BY <2>1, <2>2 DEF TypeInv
<1>35. ASSUME StartDestroy(p) PROVE TypeInv'
  <2>1. ControlInv'
    <3>1. Start(p, "destroy", "dLoad", 0, {})
      BY <1>35 DEF StartDestroy
    <3>2. /\ 0 \in Nodes \cup {0} /\ {} \in SUBSET Flags
          /\ "dLoad" \in {"cLoad", "dLoad", "tLoad"}
      OBVIOUS
    <3> QED
      BY <3>1, <3>2, <1>0, StartControl, Zenon
  <2>2. MachineInv'
    BY <1>35, <1>0, LabAssumption
    DEF MachineInv, StartDestroy, Run, Ask, Fault, KeepState, Locals, Start
  <2> QED
    BY <2>1, <2>2 DEF TypeInv
<1>36. ASSUME StartApply(p) PROVE TypeInv'
  <2>1. ControlInv'
    <3>1. PICK i \in Nodes, flags \in Requests :
                 Start(p, "apply", "tLoad", i, flags)
      BY <1>36 DEF StartApply
    <3>2. /\ i \in Nodes \cup {0} /\ flags \in SUBSET Flags
          /\ "tLoad" \in {"cLoad", "dLoad", "tLoad"}
      BY <3>1, LabAssumption
    <3> QED
      BY <3>1, <3>2, <1>0, StartControl, Zenon
  <2>2. MachineInv'
    BY <1>36, <1>0, LabAssumption
    DEF MachineInv, StartApply, Run, Ask, Fault, KeepState, Locals, Start
  <2> QED
    BY <2>1, <2>2 DEF TypeInv
<1>37. ASSUME StartClear(p) PROVE TypeInv'
  <2>1. ControlInv'
    <3>1. PICK i \in Nodes : Start(p, "clear", "tLoad", i, {})
      BY <1>37 DEF StartClear
    <3>2. /\ i \in Nodes \cup {0} /\ {} \in SUBSET Flags
          /\ "tLoad" \in {"cLoad", "dLoad", "tLoad"}
      BY <3>1
    <3> QED
      BY <3>1, <3>2, <1>0, StartControl, Zenon
  <2>2. MachineInv'
    BY <1>37, <1>0, LabAssumption
    DEF MachineInv, StartClear, Run, Ask, Fault, KeepState, Locals, Start
  <2> QED
    BY <2>1, <2>2 DEF TypeInv
<1>38. ASSUME Reject(p) PROVE TypeInv'
  <2>1. ControlInv'
    BY <1>38, <1>0, ReturnControl, HostAssumption
    DEF Reject, Fail, Indices, Locals, Results, Nodes, Labels, CreateLabels,
        ImpairLabels, DestroyLabels, RecordedLabels, FallbackLabels,
        SharedLabels, NodeLoop
  <2>2. MachineInv'
    BY <1>38, <1>0, LabAssumption
    DEF MachineInv, Reject, Run, Ask, Fault, KeepState, Locals
  <2> QED
    BY <2>1, <2>2 DEF TypeInv
<1>39. ASSUME Crash(p) PROVE TypeInv'
  <2>1. ControlInv'
    BY <1>39, <1>0, ReturnControl, HostAssumption
    DEF Crash, Indices, Locals, Results, Nodes, Labels, CreateLabels,
        ImpairLabels, DestroyLabels, RecordedLabels, FallbackLabels,
        SharedLabels, NodeLoop
  <2>2. MachineInv'
    BY <1>39, <1>0, LabAssumption
    DEF MachineInv, Crash, Run, Ask, Fault, KeepState, Locals
  <2> QED
    BY <2>1, <2>2 DEF TypeInv
<1> QED
  BY <1>1, <1>2, <1>3, <1>4, <1>5, <1>6, <1>7, <1>8, <1>9, <1>10, <1>11,
     <1>12, <1>13, <1>14, <1>15, <1>16, <1>17, <1>18, <1>19, <1>20, <1>21,
     <1>22, <1>23, <1>24, <1>25, <1>26, <1>27, <1>28, <1>29, <1>30, <1>31,
     <1>32, <1>33, <1>34, <1>35, <1>36, <1>37, <1>38, <1>39
  DEF Step, CreateStep, DestroyStep, ImpairStep, Begin

LEMMA InitTypes == Init => TypeInv
<1> SUFFICES ASSUME Init PROVE TypeInv
  OBVIOUS
<1>1. UntouchedHost \in HostStates
  BY HostAssumption DEF UntouchedHost, HostStates, VethStates, OwnRules
<1>2. MachineInv
  BY <1>1, LabAssumption DEF Init, MachineInv
<1>3. Blank \in Locals /\ Indices("idle", Blank)
  BY DEF Blank, Locals, Indices, CreateLabels, ImpairLabels, NodeLoop, RecordedLabels
<1>4. ControlInv
  BY <1>3 DEF Init, ControlInv, Labels, Results
<1> QED
  BY <1>2, <1>4 DEF TypeInv

LEMMA TypesPreserved == TypeInv /\ [Next]_vars => TypeInv'
<1>1. TypeInv /\ UNCHANGED vars => TypeInv'
  BY DEF vars, TypeInv, MachineInv, ControlInv
<1>2. ASSUME TypeInv, NEW i \in Nodes, Drain(i) PROVE TypeInv'
  <2>1. host' \in HostStates
    BY <1>2, HostCleanups DEF Drain, TypeInv, MachineInv, Nodes
  <2>2. MachineInv'
    BY <1>2, <2>1 DEF Drain, TypeInv, MachineInv
  <2>3. ControlInv'
    BY <1>2 DEF Drain, TypeInv, ControlInv
  <2> QED
    BY <2>2, <2>3 DEF TypeInv
<1>3. TypeInv /\ Next => TypeInv'
  BY <1>2, TypeStep DEF Next
<1> QED
  BY <1>1, <1>3

\* Type correctness: TypeOK is an invariant of every instance of Lab.
THEOREM TypeCorrect == Spec => []TypeOK
<1>1. TypeInv => TypeOK
  BY DEF TypeInv, MachineInv, ControlInv, TypeOK
<1> QED
  BY <1>1, InitTypes, TypesPreserved, PTL DEF Spec

=============================================================================
