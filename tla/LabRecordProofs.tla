-------------------------- MODULE LabRecordProofs --------------------------
(***************************************************************************)
(* What the state file says of the host, for any processes, nodes, rules   *)
(* and faults: a record is forgotten only when what it records is gone, no *)
(* rule is there twice, nothing exists beside the record; and, if nobody   *)
(* is killed, whatever is not recorded is undone and Lab implements        *)
(* LabLifecycle.  The first lemmas say once what a step of each operation  *)
(* does; the invariants are then shown from those outcomes alone.          *)
(***************************************************************************)
EXTENDS LabExclusion, LabRefinement

\* A step of p leaves it at label l with cleanups u and locals v.
At(p, l, u, v) ==
    /\ pc'[p] = l
    /\ undo'[p] = u
    /\ loc'[p] = v
    /\ Others(p)

\* The step changed neither the host nor the state file.
Silent == UNCHANGED <<host, stateFile>>

SetAt(p, i) == [loc[p] EXCEPT !.at = i]

LEMMA GotoIs ==
    ASSUME ControlInv, NEW p \in Procs, NEW l, Goto(p, l)
    PROVE  At(p, l, undo[p], loc[p])
  BY DEF ControlInv, Goto, At, Others

LEMMA GotoAtIs ==
    ASSUME ControlInv, NEW p \in Procs, NEW l, NEW i, GotoAt(p, l, i)
    PROVE  At(p, l, undo[p], SetAt(p, i))
  BY DEF ControlInv, GotoAt, At, Others, SetAt

LEMMA DeferIs ==
    ASSUME ControlInv, NEW p \in Procs, NEW l, NEW c, Defer(p, l, c)
    PROVE  At(p, l, Append(undo[p], c), loc[p])
  BY DEF ControlInv, Defer, At, Others

LEMMA ReturnIs ==
    ASSUME ControlInv, NEW p \in Procs, NEW r, Return(p, r)
    PROVE  At(p, "idle", <<>>, Blank)
  BY DEF ControlInv, Return, At, Others

-----------------------------------------------------------------------------
(* What a step of create may do.                                           *)

\* It returns with nothing to undo.
Quits(p) == undo[p] = <<>> /\ Silent /\ At(p, "idle", <<>>, Blank)

\* An error after the bridge is up starts the rollback.
Aborts(p) ==
    /\ pc[p] \in BuildLabels
    /\ host' = IF pc[p] = "cVethMove" THEN VethLeft(host, loc[p].at) ELSE host
    /\ UNCHANGED stateFile
    /\ At(p, "cRollback", undo[p], loc[p])

\* A check at the top of create passes.
Looks(p) ==
    /\ Silent
    /\ undo[p] = <<>>
    /\ \/ pc[p] = "cLoad" /\ stateFile = NoState /\ At(p, "cBridge", undo[p], loc[p])
       \/ pc[p] = "cBridge" /\ At(p, "cNetns", undo[p], loc[p])
       \/ pc[p] = "cNetns" /\ host.netns = {} /\ At(p, "cAddBridge", undo[p], loc[p])

AddsBridge(p) ==
    /\ pc[p] = "cAddBridge"
    /\ undo[p] = <<>>
    /\ ~host.bridge
    /\ host' = BridgeAdd(host) /\ UNCHANGED stateFile
    /\ At(p, "cSetBridge", <<Cleanup("bridge", 0)>>, loc[p])

SetsBridge(p) ==
    pc[p] = "cSetBridge" /\ Silent /\ At(p, "cReadForward", undo[p], loc[p])

ReadsForward(p) ==
    /\ pc[p] = "cReadForward"
    /\ Silent
    /\ At(p, "cSetForward", undo[p], [loc[p] EXCEPT !.before = host.forward])

SetsForward(p) ==
    /\ pc[p] = "cSetForward"
    /\ host' = SetForward(host, 1) /\ UNCHANGED stateFile
    /\ At(p, "cRuleCheck", Append(undo[p], Cleanup("forward", 0)), loc[p])

\* Rule `at` is dealt with, and u are the cleanups by now.
RuleDone(p, u) ==
    \/ loc[p].at < RuleCount /\ At(p, "cRuleCheck", u, SetAt(p, loc[p].at + 1))
    \/ loc[p].at >= RuleCount /\ At(p, "cNetnsAdd", u, SetAt(p, 1))

KeepsRule(p) ==
    /\ pc[p] = "cRuleCheck" /\ host.rules[loc[p].at] > 0
    /\ Silent
    /\ RuleDone(p, undo[p])

MissesRule(p) ==
    /\ pc[p] = "cRuleCheck" /\ ~(host.rules[loc[p].at] > 0)
    /\ Silent
    /\ At(p, "cRuleAdd", undo[p], loc[p])

AddsRule(p) ==
    /\ pc[p] = "cRuleAdd"
    /\ host' = RuleAdd(host, loc[p].at) /\ UNCHANGED stateFile
    /\ RuleDone(p, Append(undo[p], Cleanup("rule", loc[p].at)))

AddsNetns(p) ==
    /\ pc[p] = "cNetnsAdd" /\ loc[p].at \notin host.netns
    /\ host' = NetnsAdd(host, loc[p].at) /\ UNCHANGED stateFile
    /\ At(p, "cVethAdd", Append(undo[p], Cleanup("netns", loc[p].at)), loc[p])

\* The node gets its interfaces.
Wires(p) ==
    LET i == loc[p].at
    IN  /\ UNCHANGED stateFile
        /\ \/ /\ pc[p] = "cVethAdd" /\ host.veth[i] = "none"
              /\ host' = VethAdd(host, i) /\ At(p, "cVethMove", undo[p], loc[p])
           \/ /\ pc[p] = "cVethMove" /\ host.veth[i] = "host" /\ i \in host.netns
              /\ host' = VethMove(host, i) /\ At(p, "cEnslave", undo[p], loc[p])
           \/ /\ pc[p] = "cEnslave" /\ host.bridge
              /\ host' = Enslave(host, i) /\ At(p, "cRename", undo[p], loc[p])
           \/ /\ pc[p] = "cRename" /\ host.veth[i] = "moved"
              /\ host' = Rename(host, i) /\ At(p, "cPing", undo[p], loc[p])

NodeDone(p) ==
    /\ pc[p] = "cPing"
    /\ Silent
    /\ \/ loc[p].at < loc[p].n /\ At(p, "cNetnsAdd", undo[p], SetAt(p, loc[p].at + 1))
       \/ loc[p].at >= loc[p].n /\ At(p, "cSave", undo[p], loc[p])

Records(p) ==
    /\ pc[p] = "cSave"
    /\ UNCHANGED host
    /\ stateFile' = [nodes |-> loc[p].n, forward |-> loc[p].before]
    /\ At(p, "idle", <<>>, Blank)

Undoes(p) ==
    /\ pc[p] = "cRollback" /\ undo[p] # <<>>
    /\ \/ host' = Undone(host, Last(undo[p]), loc[p].before)
       \/ FaultyCleanup /\ host' = host
    /\ UNCHANGED stateFile
    /\ At(p, "cRollback", Front(undo[p]), loc[p])

LEMMA CreateDoes ==
    ASSUME TypeInv, Stages, NEW p \in Procs, CreateStep(p)
    PROVE  /\ pc[p] \in CreateLabels
           /\ \/ Quits(p) \/ Aborts(p) \/ Looks(p) \/ AddsBridge(p)
              \/ SetsBridge(p) \/ ReadsForward(p) \/ SetsForward(p)
              \/ KeepsRule(p) \/ MissesRule(p) \/ AddsRule(p)
              \/ AddsNetns(p) \/ Wires(p) \/ NodeDone(p) \/ Records(p) \/ Undoes(p)
<1>0. /\ ControlInv /\ Stage(pc[p], undo[p], loc[p].op)
      /\ loc[p].at \in Nat /\ loc[p].n \in Nat /\ RuleCount \in Nat
      /\ host \in HostStates
  BY HostAssumption DEF TypeInv, ControlInv, MachineInv, Stages, Locals
<1>1. /\ pc[p] \in {"cLoad", "cBridge", "cNetns", "cAddBridge"} => undo[p] = <<>>
      /\ pc[p] \in BuildLabels => undo[p] # <<>>
  BY <1>0 DEF Stage, BuildLabels, CreateLabels
<1>2. Append(<<>>, Cleanup("bridge", 0)) = <<Cleanup("bridge", 0)>>
  BY DEF Cleanup
<1> USE <1>0, <1>1 DEF Ask, Run, Fault, Fail, KeepState, Silent, CreateLabels, BuildLabels
<1>3. ASSUME CreateLoad(p) \/ CreateBridgeExists(p) \/ CreateListNamespaces(p)
      PROVE  (Quits(p) \/ Looks(p)) /\ pc[p] \in CreateLabels
  BY <1>3, GotoIs, ReturnIs
  DEF CreateLoad, CreateBridgeExists, CreateListNamespaces, Quits, Looks
<1>4. ASSUME AddBridge(p) PROVE (Quits(p) \/ AddsBridge(p)) /\ pc[p] \in CreateLabels
  BY <1>4, <1>2, DeferIs, ReturnIs DEF AddBridge, Quits, AddsBridge
<1>5. ASSUME SetBridge(p) PROVE (Aborts(p) \/ SetsBridge(p)) /\ pc[p] \in CreateLabels
  BY <1>5, GotoIs DEF SetBridge, Aborts, SetsBridge
<1>6. ASSUME ReadForward(p) PROVE (Aborts(p) \/ ReadsForward(p)) /\ pc[p] \in CreateLabels
  BY <1>6, GotoIs DEF ReadForward, Aborts, ReadsForward, At, Others, ControlInv
<1>7. ASSUME EnableForward(p) PROVE (Aborts(p) \/ SetsForward(p)) /\ pc[p] \in CreateLabels
  BY <1>7, GotoIs, DeferIs DEF EnableForward, Aborts, SetsForward
<1>8. ASSUME EnsureRule(p)
      PROVE  (Aborts(p) \/ KeepsRule(p) \/ MissesRule(p)) /\ pc[p] \in CreateLabels
  <2>1. AfterRule(p) => RuleDone(p, undo[p])
    BY GotoAtIs DEF AfterRule, RuleDone
  <2> QED
    BY <1>8, <2>1, GotoIs DEF EnsureRule, Aborts, KeepsRule, MissesRule
<1>9. ASSUME AddRule(p) PROVE (Aborts(p) \/ AddsRule(p)) /\ pc[p] \in CreateLabels
  <2>1. ASSUME /\ undo' = [undo EXCEPT ![p] = Append(@, Cleanup("rule", loc[p].at))]
             /\ pc' = [pc EXCEPT ![p] =
                  IF loc[p].at < RuleCount THEN "cRuleCheck" ELSE "cNetnsAdd"]
             /\ loc' = [loc EXCEPT ![p].at =
                  IF loc[p].at < RuleCount THEN loc[p].at + 1 ELSE 1]
        PROVE  RuleDone(p, Append(undo[p], Cleanup("rule", loc[p].at)))
    <3> DEFINE u == Append(undo[p], Cleanup("rule", loc[p].at))
    <3>1. undo'[p] = u /\ Others(p)
      BY <2>1 DEF Others, ControlInv
    <3>2. CASE loc[p].at < RuleCount
      <4>1. pc'[p] = "cRuleCheck" /\ loc'[p] = SetAt(p, loc[p].at + 1)
        BY <2>1, <3>2 DEF ControlInv, SetAt
      <4> QED
        BY <3>1, <3>2, <4>1 DEF RuleDone, At
    <3>3. CASE ~(loc[p].at < RuleCount)
      <4>1. pc'[p] = "cNetnsAdd" /\ loc'[p] = SetAt(p, 1)
        BY <2>1, <3>3 DEF ControlInv, SetAt
      <4> QED
        BY <3>1, <3>3, <4>1 DEF RuleDone, At
    <3> QED
      BY <3>2, <3>3
  <2>2. CASE host' = host /\ Goto(p, "cRollback")
    BY <2>2, <1>9, GotoIs DEF AddRule, Aborts
  <2>3. CASE host' = RuleAdd(host, loc[p].at)
        /\ RuleDone(p, Append(undo[p], Cleanup("rule", loc[p].at)))
    BY <2>3, <1>9 DEF AddRule, AddsRule
  <2> QED
    BY <2>1, <2>2, <2>3, <1>9 DEF AddRule
<1>10. ASSUME AddNetns(p) PROVE (Aborts(p) \/ AddsNetns(p)) /\ pc[p] \in CreateLabels
  BY <1>10, GotoIs, DeferIs DEF AddNetns, Aborts, AddsNetns
<1>11. ASSUME AddVeth(p) \/ MoveVeth(p) \/ EnslavePeer(p) \/ RenameVeth(p)
       PROVE  (Aborts(p) \/ Wires(p)) /\ pc[p] \in CreateLabels
  BY <1>11, GotoIs DEF AddVeth, MoveVeth, EnslavePeer, RenameVeth, Aborts, Wires
<1>12. ASSUME PingBridge(p) PROVE (Aborts(p) \/ NodeDone(p)) /\ pc[p] \in CreateLabels
  BY <1>12, GotoIs, GotoAtIs DEF PingBridge, Aborts, NodeDone
<1>13. ASSUME SaveState(p) PROVE (Aborts(p) \/ Records(p)) /\ pc[p] \in CreateLabels
  BY <1>13, GotoIs, ReturnIs DEF SaveState, Aborts, Records
<1>14. ASSUME Rollback(p) PROVE (Quits(p) \/ Undoes(p)) /\ pc[p] \in CreateLabels
  BY <1>14, ReturnIs DEF Rollback, Quits, Undoes, At, Others, ControlInv
<1> QED
  BY <1>3, <1>4, <1>5, <1>6, <1>7, <1>8, <1>9, <1>10, <1>11, <1>12, <1>13, <1>14
  DEF CreateStep

\* The error itself changes nothing but the state of a pair it leaves behind.
LEMMA AbortsTakes ==
    ASSUME TypeInv, NEW p \in Procs, Aborts(p)
    PROVE  /\ host'.bridge = host.bridge /\ host'.netns = host.netns
           /\ host'.ports = host.ports /\ host'.eth0 = host.eth0
           /\ host'.rules = host.rules /\ host'.forward = host.forward
           /\ host'.qdisc = host.qdisc
  BY DEF TypeInv, MachineInv, HostStates, Aborts, VethLeft

-----------------------------------------------------------------------------
(* What a step of destroy may do.                                          *)

\* It returns, with the lab as it is by now.
Leaves(p) == Silent /\ At(p, "idle", <<>>, Blank)

Loads(p) ==
    /\ pc[p] = "dLoad"
    /\ Silent
    /\ At(p, IF stateFile = NoState THEN "fBridge" ELSE "dNode", undo[p],
             [loc[p] EXCEPT !.seen = stateFile])

DeletesNetns(p) ==
    /\ pc[p] = "dNode"
    /\ host' = NetnsDel(host, loc[p].at) /\ UNCHANGED stateFile
    /\ \/ loc[p].at < loc[p].seen.nodes
          /\ At(p, "dNode", undo[p], SetAt(p, loc[p].at + 1))
       \/ loc[p].at >= loc[p].seen.nodes /\ At(p, "dBridge", undo[p], loc[p])

\* It goes on without having changed anything.
Proceeds(p) ==
    /\ Silent
    /\ \/ pc[p] = "dBridge" /\ At(p, "dDown", undo[p], loc[p])
       \/ pc[p] = "fBridge" /\ At(p, "fList", undo[p], loc[p])
       \/ pc[p] = "fList" /\ At(p, "fPeer", undo[p],
                               [loc[p] EXCEPT !.members = host.ports])
       \/ pc[p] = "fPeer" /\ At(p, "dDown", undo[p], loc[p])
       \/ pc[p] = "dDown" /\ At(p, "dDel", undo[p], loc[p])
       \/ pc[p] = "dRuleCheck" /\ At(p, "dRuleDel", undo[p], loc[p])

FindsNoBridge(p) ==
    /\ pc[p] \in {"dBridge", "fBridge"} /\ ~host.bridge
    /\ Silent
    /\ At(p, "dRuleCheck", undo[p], SetAt(p, 1))

DeletesPeer(p) ==
    /\ pc[p] = "fPeer"
    /\ \E i \in Nodes :
          /\ host' = PeerDel(host, i) /\ UNCHANGED stateFile
          /\ At(p, "fPeer", undo[p], [loc[p] EXCEPT !.members = @ \ {i}])

DeletesBridge(p) ==
    /\ pc[p] = "dDel" /\ host.bridge
    /\ host' = BridgeDel(host) /\ UNCHANGED stateFile
    /\ At(p, "dRuleCheck", undo[p], SetAt(p, 1))

FindsNoRule(p) ==
    /\ pc[p] \in {"dRuleCheck", "dRuleDel"} /\ ~(host.rules[loc[p].at] > 0)
    /\ Silent
    /\ \/ loc[p].at < RuleCount
          /\ At(p, "dRuleCheck", undo[p], SetAt(p, loc[p].at + 1))
       \/ loc[p].at >= RuleCount /\ loc[p].seen # NoState
          /\ At(p, "dForward", undo[p], loc[p])

DeletesRule(p) ==
    /\ pc[p] = "dRuleDel" /\ host.rules[loc[p].at] > 0
    /\ host' = RuleDel(host, loc[p].at) /\ UNCHANGED stateFile
    /\ At(p, "dRuleCheck", undo[p], loc[p])

RestoresForward(p) ==
    /\ pc[p] = "dForward"
    /\ host' = SetForward(host, loc[p].seen.forward) /\ UNCHANGED stateFile
    /\ At(p, "dForget", undo[p], loc[p])

Forgets(p) ==
    /\ pc[p] = "dForget"
    /\ stateFile' = NoState /\ UNCHANGED host
    /\ At(p, "idle", <<>>, Blank)

LEMMA DestroyDoes ==
    ASSUME TypeInv, NEW p \in Procs, DestroyStep(p)
    PROVE  /\ pc[p] \in DestroyLabels
           /\ \/ Leaves(p) \/ Loads(p) \/ DeletesNetns(p) \/ Proceeds(p)
              \/ FindsNoBridge(p) \/ DeletesPeer(p) \/ DeletesBridge(p)
              \/ FindsNoRule(p) \/ DeletesRule(p) \/ RestoresForward(p) \/ Forgets(p)
<1>0. /\ ControlInv /\ host \in HostStates
      /\ loc[p].at \in Nat /\ RuleCount \in Nat /\ loc[p].members \subseteq Nodes
      /\ pc[p] \in RecordedLabels => loc[p].seen \in State /\ loc[p].seen.nodes \in Nat
  BY HostAssumption DEF TypeInv, ControlInv, MachineInv, Locals, Indices, State, Nodes
<1> USE <1>0 DEF Ask, Run, Fault, Fail, KeepState, Silent, DestroyLabels,
                 RecordedLabels, FallbackLabels, SharedLabels
<1>1. ASSUME DestroyLoad(p) PROVE (Leaves(p) \/ Loads(p)) /\ pc[p] \in DestroyLabels
  <2>1. CASE Return(p, "error") /\ host' = host
    BY <1>1, <2>1, ReturnIs DEF DestroyLoad, Leaves
  <2>2. CASE /\ pc' = [pc EXCEPT ![p] =
                          IF stateFile = NoState THEN "fBridge" ELSE "dNode"]
             /\ loc' = [loc EXCEPT ![p].seen = stateFile]
             /\ UNCHANGED <<host, undo>>
    BY <1>1, <2>2 DEF DestroyLoad, Loads, At, Others, ControlInv
  <2> QED
    BY <1>1, <2>1, <2>2 DEF DestroyLoad
<1>2. ASSUME DeleteNode(p) PROVE (Leaves(p) \/ DeletesNetns(p)) /\ pc[p] \in DestroyLabels
  BY <1>2, GotoIs, GotoAtIs, ReturnIs DEF DeleteNode, Leaves, DeletesNetns
<1>3. ASSUME DestroyBridgeExists(p) \/ FallbackBridgeExists(p)
      PROVE  (Leaves(p) \/ Proceeds(p) \/ FindsNoBridge(p)) /\ pc[p] \in DestroyLabels
  BY <1>3, GotoIs, GotoAtIs, ReturnIs
  DEF DestroyBridgeExists, FallbackBridgeExists, Leaves, Proceeds, FindsNoBridge
<1>4. ASSUME ListMembers(p) PROVE (Leaves(p) \/ Proceeds(p)) /\ pc[p] \in DestroyLabels
  BY <1>4, ReturnIs DEF ListMembers, Leaves, Proceeds, At, Others, ControlInv
<1>5. ASSUME DeletePeer(p)
      PROVE  (Leaves(p) \/ Proceeds(p) \/ DeletesPeer(p)) /\ pc[p] \in DestroyLabels
  <2>1. CASE Return(p, "error") /\ host' = host
    BY <1>5, <2>1, ReturnIs DEF DeletePeer, Leaves
  <2>2. CASE Goto(p, "dDown") /\ host' = host
    BY <1>5, <2>2, GotoIs DEF DeletePeer, Proceeds
  <2>3. ASSUME NEW i \in Nodes, host' = PeerDel(host, i),
               loc' = [loc EXCEPT ![p].members = @ \ {i}],
               UNCHANGED <<pc, undo, result>>
        PROVE  DeletesPeer(p)
    <3>1. At(p, "fPeer", undo[p], [loc[p] EXCEPT !.members = @ \ {i}])
      BY <1>5, <2>3 DEF DeletePeer, At, Others, ControlInv
    <3> QED
      BY <1>5, <2>3, <3>1 DEF DeletePeer, DeletesPeer
  <2> QED
    BY <1>5, <2>1, <2>2, <2>3 DEF DeletePeer
<1>6. ASSUME BridgeDown(p) PROVE (Leaves(p) \/ Proceeds(p)) /\ pc[p] \in DestroyLabels
  BY <1>6, GotoIs, ReturnIs DEF BridgeDown, Leaves, Proceeds
<1>7. ASSUME DeleteBridge(p) PROVE (Leaves(p) \/ DeletesBridge(p)) /\ pc[p] \in DestroyLabels
  BY <1>7, GotoAtIs, ReturnIs DEF DeleteBridge, Leaves, DeletesBridge
<1>8. ASSUME NextRule(p), pc[p] \in {"dRuleCheck", "dRuleDel"},
             ~(host.rules[loc[p].at] > 0), Silent
      PROVE  Leaves(p) \/ FindsNoRule(p)
  BY <1>8, GotoIs, GotoAtIs, ReturnIs DEF NextRule, Leaves, FindsNoRule
<1>9. ASSUME CheckRule(p)
      PROVE  (Leaves(p) \/ Proceeds(p) \/ FindsNoRule(p)) /\ pc[p] \in DestroyLabels
  BY <1>9, <1>8, GotoIs, ReturnIs DEF CheckRule, Leaves, Proceeds
<1>10. ASSUME DeleteRule(p)
       PROVE  (Leaves(p) \/ DeletesRule(p) \/ FindsNoRule(p)) /\ pc[p] \in DestroyLabels
  BY <1>10, <1>8, GotoIs, ReturnIs DEF DeleteRule, Leaves, DeletesRule
<1>11. ASSUME RestoreForward(p)
       PROVE  (Leaves(p) \/ RestoresForward(p)) /\ pc[p] \in DestroyLabels
  BY <1>11, GotoIs, ReturnIs DEF RestoreForward, Leaves, RestoresForward
<1>12. ASSUME DeleteStateFile(p) PROVE (Leaves(p) \/ Forgets(p)) /\ pc[p] \in DestroyLabels
  BY <1>12, ReturnIs DEF DeleteStateFile, Leaves, Forgets
<1> QED
  BY <1>1, <1>2, <1>3, <1>4, <1>5, <1>6, <1>7, <1>9, <1>10, <1>11, <1>12
  DEF DestroyStep

-----------------------------------------------------------------------------
(* What the other steps may do.                                            *)

\* A step of an impair command that touches nothing.
ImpairsNothing(p) ==
    /\ Silent
    /\ \/ At(p, "idle", <<>>, Blank)
       \/ pc[p] = "tLoad" /\ stateFile # NoState /\ At(p, "tNetns", undo[p], loc[p])
       \/ pc[p] = "tNetns" /\ At(p, "tRun", undo[p], loc[p])

Impairs(p) ==
    /\ pc[p] = "tRun" /\ loc[p].n \in host.eth0
    /\ \E flags \in SUBSET Flags : host' = Netem(host, loc[p].n, flags)
    /\ UNCHANGED stateFile
    /\ At(p, "idle", <<>>, Blank)

LEMMA ImpairDoes ==
    ASSUME TypeInv, NEW p \in Procs, ImpairStep(p)
    PROVE  pc[p] \in ImpairLabels /\ (ImpairsNothing(p) \/ Impairs(p))
<1>0. ControlInv /\ loc[p].flags \in SUBSET Flags /\ {} \in SUBSET Flags
  BY DEF TypeInv, ControlInv, Locals
<1> USE <1>0 DEF Ask, Run, Fault, Fail, KeepState, Silent, ImpairLabels, Lists
<1>1. CASE ImpairLoad(p) \/ ImpairNamespace(p)
  BY <1>1, GotoIs, ReturnIs DEF ImpairLoad, ImpairNamespace, ImpairsNothing
<1>2. CASE ApplyNetem(p)
  BY <1>2, ReturnIs DEF ApplyNetem, ImpairsNothing, Impairs
<1>3. CASE ClearNetem(p)
  BY <1>3, ReturnIs DEF ClearNetem, ImpairsNothing, Impairs
<1> QED
  BY <1>1, <1>2, <1>3 DEF ImpairStep

\* The start of an invocation; until then p was idle, with nothing to undo.
Starts(p) ==
    /\ Silent
    /\ pc[p] = "idle"
    /\ \E l \in {"cLoad", "dLoad", "tLoad"}, v \in Locals :
          v.at = 1 /\ At(p, l, undo[p], v)

LEMMA BeginDoes ==
    ASSUME TypeInv, NEW p \in Procs, Begin(p) \/ Crash(p)
    PROVE  \/ Starts(p)
           \/ Leaves(p) /\ (pc[p] = "idle" \/ crashes > 0)
<1>0. ControlInv /\ {} \in SUBSET Flags /\ 0 \in Nat
  BY DEF TypeInv, ControlInv
<1>1. ASSUME NEW op, NEW l \in {"cLoad", "dLoad", "tLoad"}, NEW n \in Nat,
             NEW flags \in SUBSET Flags, Start(p, op, l, n, flags)
      PROVE  Starts(p)
  <2> DEFINE v == [Blank EXCEPT !.op = op, !.n = n, !.flags = flags]
  <2>1. v \in Locals /\ v.at = 1
    BY <1>1 DEF Start, Blank, Locals
  <2>2. pc[p] = "idle" /\ Silent /\ At(p, l, undo[p], v)
    BY <1>0, <1>1 DEF Start, Silent, At, Others, ControlInv
  <2> HIDE DEF v
  <2> QED
    BY <2>1, <2>2 DEF Starts
<1>2. CASE StartCreate(p)
  <2>1. PICK n \in Nat : Start(p, "create", "cLoad", n, {})
    BY <1>2, HostAssumption DEF StartCreate
  <2> QED
    BY <2>1, <1>0, <1>1
<1>3. CASE StartDestroy(p)
  BY <1>0, <1>1, <1>3 DEF StartDestroy
<1>4. CASE StartApply(p)
  <2>1. PICK i \in Nat, flags \in SUBSET Flags : Start(p, "apply", "tLoad", i, flags)
    BY <1>4, LabAssumption, HostAssumption DEF StartApply, Nodes
  <2> QED
    BY <2>1, <1>1
<1>5. CASE StartClear(p)
  <2>1. PICK i \in Nat : Start(p, "clear", "tLoad", i, {})
    BY <1>5, HostAssumption DEF StartClear, Nodes
  <2> QED
    BY <2>1, <1>0, <1>1
<1>6. CASE Reject(p) \/ Crash(p)
  BY <1>0, <1>6, ReturnIs DEF Reject, Crash, Fail, Leaves, Silent
<1> QED
  BY <1>2, <1>3, <1>4, <1>5, <1>6 DEF Begin

-----------------------------------------------------------------------------
(* The kernel keeps its own books: no command leaves ports without a bridge *)
(* or an impairment on an interface nobody can reach.                       *)

LEMMA ConsistentCommands ==
    ASSUME NEW h \in HostStates, Consistent(h), NEW i \in Nat
    PROVE  /\ Consistent(BridgeAdd(h))
           /\ Consistent(BridgeDel(h))
           /\ Consistent(PeerDel(h, i))
           /\ Consistent(NetnsDel(h, i))
           /\ Consistent(NetnsAdd(h, i))
           /\ Consistent(RuleAdd(h, i))
           /\ Consistent(RuleDel(h, i))
           /\ \A v \in {0, 1} : Consistent(SetForward(h, v))
           /\ h.veth[i] = "none" => Consistent(VethAdd(h, i))
           /\ i \in h.netns => Consistent(VethMove(h, i))
           /\ Consistent(VethLeft(h, i))
           /\ h.bridge => Consistent(Enslave(h, i))
           /\ h.veth[i] = "moved" => Consistent(Rename(h, i))
           /\ i \in h.eth0 => \A f \in SUBSET Flags : Consistent(Netem(h, i, f))
<1> USE DEF HostStates, Consistent
<1>1. Consistent(BridgeAdd(h)) /\ Consistent(BridgeDel(h))
  BY DEF BridgeAdd, BridgeDel
<1>2. Consistent(PeerDel(h, i))
  BY DEF PeerDel
<1>3. Consistent(NetnsDel(h, i))
  BY DEF NetnsDel
<1>4. Consistent(NetnsAdd(h, i))
  BY DEF NetnsAdd
<1>5. Consistent(RuleAdd(h, i)) /\ Consistent(RuleDel(h, i))
  BY DEF RuleAdd, RuleDel
<1>6. \A v \in {0, 1} : Consistent(SetForward(h, v))
  BY DEF SetForward
<1>7. h.veth[i] = "none" => Consistent(VethAdd(h, i))
  BY DEF VethAdd
<1>8. (i \in h.netns => Consistent(VethMove(h, i))) /\ Consistent(VethLeft(h, i))
  BY DEF VethMove, VethLeft
<1>9. h.bridge => Consistent(Enslave(h, i))
  BY DEF Enslave
<1>10. h.veth[i] = "moved" => Consistent(Rename(h, i))
  BY DEF Rename
<1>11. i \in h.eth0 => \A f \in SUBSET Flags : Consistent(Netem(h, i, f))
  BY DEF Netem
<1> QED
  BY <1>1, <1>2, <1>3, <1>4, <1>5, <1>6, <1>7, <1>8, <1>9, <1>10, <1>11

LEMMA HostKept ==
    ASSUME TypeInv, Stages, HostInv, [Next]_vars
    PROVE  HostInv'
<1>0. host \in HostStates /\ Consistent(host)
  BY DEF TypeInv, MachineInv, HostInv
<1>1. ASSUME NEW p \in Procs, CreateStep(p) PROVE Consistent(host')
  <2>0. /\ loc[p].at \in Nat /\ loc[p].before \in {0, 1} /\ 1 \in {0, 1}
        /\ undo[p] \in Seq(Cleanups)
    BY DEF TypeInv, ControlInv, Locals
  <2>1. CASE Undoes(p)
    <3>1. Last(undo[p]) \in Cleanups
      BY <2>0, <2>1 DEF Undoes, Last
    <3>2. Last(undo[p]).kind \in {"bridge", "forward", "rule", "netns"}
           /\ Last(undo[p]).id \in Nat
      BY <3>1 DEF Cleanups
    <3> QED
      BY <1>0, <2>0, <2>1, <3>2, ConsistentCommands DEF Undoes, Undone
  <2>2. CASE Aborts(p) \/ Wires(p)
    BY <1>0, <2>0, <2>2, ConsistentCommands DEF Aborts, Wires
  <2>3. CASE AddsBridge(p) \/ SetsForward(p) \/ AddsRule(p) \/ AddsNetns(p)
    BY <1>0, <2>0, <2>3, ConsistentCommands DEF AddsBridge, SetsForward, AddsRule, AddsNetns
  <2>4. CASE host' = host
    BY <1>0, <2>4
  <2> QED
    BY <1>1, CreateDoes, <2>1, <2>2, <2>3, <2>4
    DEF Silent, Quits, Looks, SetsBridge, ReadsForward, KeepsRule, MissesRule,
        NodeDone, Records
<1>2. ASSUME NEW p \in Procs, DestroyStep(p) PROVE Consistent(host')
  <2>0. loc[p].at \in Nat /\ (pc[p] = "dForward" => loc[p].seen.forward \in {0, 1})
    BY DEF TypeInv, ControlInv, Locals, Indices, RecordedLabels, State
  <2>1. CASE DeletesPeer(p)
    BY <1>0, <2>1, ConsistentCommands, HostAssumption DEF DeletesPeer, Nodes
  <2>2. CASE DeletesNetns(p) \/ DeletesBridge(p) \/ DeletesRule(p) \/ RestoresForward(p)
    BY <1>0, <2>0, <2>2, ConsistentCommands
    DEF DeletesNetns, DeletesBridge, DeletesRule, RestoresForward
  <2>3. CASE host' = host
    BY <1>0, <2>3
  <2> QED
    BY <1>2, DestroyDoes, <2>1, <2>2, <2>3
    DEF Silent, Leaves, Loads, Proceeds, FindsNoBridge, FindsNoRule, Forgets
<1>3. ASSUME NEW p \in Procs, ImpairStep(p) PROVE Consistent(host')
  <2>0. loc[p].n \in Nat
    BY DEF TypeInv, ControlInv, Locals
  <2> QED
    BY <1>0, <1>3, <2>0, ImpairDoes, ConsistentCommands
    DEF Silent, ImpairsNothing, Impairs
<1>4. ASSUME NEW p \in Procs, Begin(p) \/ Crash(p) PROVE Consistent(host')
  BY <1>0, <1>4, BeginDoes DEF Silent, Starts, Leaves
<1>5. ASSUME NEW i \in Nodes, Drain(i) PROVE Consistent(host')
  BY <1>0, <1>5, ConsistentCommands, HostAssumption DEF Drain, Nodes
<1>6. ASSUME UNCHANGED vars PROVE Consistent(host')
  BY <1>0, <1>6 DEF vars
<1>7. Consistent(host')
  BY <1>1, <1>2, <1>3, <1>4, <1>5, <1>6 DEF Next, Step
<1> QED
  BY <1>7 DEF HostInv, Consistent

\* What the commands do to the bridge, the namespaces and the rules.
LEMMA HostParts ==
    ASSUME NEW h \in HostStates, NEW i
    PROVE  /\ RuleAdd(h, i).bridge = h.bridge /\ RuleAdd(h, i).netns = h.netns
           /\ \A s \in Rules \ {i} : RuleAdd(h, i).rules[s] = h.rules[s]
           /\ i \in Rules => RuleAdd(h, i).rules[i] = h.rules[i] + 1
           /\ RuleDel(h, i).bridge = h.bridge /\ RuleDel(h, i).netns = h.netns
           /\ \A s \in Rules \ {i} : RuleDel(h, i).rules[s] = h.rules[s]
           /\ i \in Rules /\ h.rules[i] \in {0, 1} => RuleDel(h, i).rules[i] = 0
           /\ NetnsDel(h, i).bridge = h.bridge /\ NetnsDel(h, i).rules = h.rules
           /\ NetnsDel(h, i).netns = h.netns \ {i}
           /\ ~BridgeDel(h).bridge /\ BridgeDel(h).netns = h.netns
           /\ BridgeDel(h).rules = h.rules
<1>1. /\ RuleAdd(h, i).bridge = h.bridge /\ RuleAdd(h, i).netns = h.netns
      /\ \A s \in Rules \ {i} : RuleAdd(h, i).rules[s] = h.rules[s]
      /\ i \in Rules => RuleAdd(h, i).rules[i] = h.rules[i] + 1
  BY DEF RuleAdd, HostStates
<1>2. /\ RuleDel(h, i).bridge = h.bridge /\ RuleDel(h, i).netns = h.netns
      /\ \A s \in Rules \ {i} : RuleDel(h, i).rules[s] = h.rules[s]
      /\ i \in Rules /\ h.rules[i] \in {0, 1} => RuleDel(h, i).rules[i] = 0
  BY DEF RuleDel, HostStates
<1>3. /\ NetnsDel(h, i).bridge = h.bridge /\ NetnsDel(h, i).rules = h.rules
      /\ NetnsDel(h, i).netns = h.netns \ {i}
  BY DEF NetnsDel, HostStates
<1>4. /\ ~BridgeDel(h).bridge /\ BridgeDel(h).netns = h.netns
      /\ BridgeDel(h).rules = h.rules
  BY DEF BridgeDel, HostStates
<1> QED
  BY <1>1, <1>2, <1>3, <1>4

-----------------------------------------------------------------------------
(* Most steps only take things away.                                       *)

\* Host g has nothing that host h lacks.
Less(g, h) ==
    /\ g.bridge => h.bridge
    /\ g.netns \subseteq h.netns
    /\ g.ports \subseteq h.ports
    /\ \A r \in Rules : g.rules[r] <= h.rules[r]

LEMMA LessCommands ==
    ASSUME NEW h \in HostStates, NEW i \in Nat
    PROVE  /\ Less(h, h)
           /\ Less(BridgeDel(h), h) /\ BridgeDel(h).forward = h.forward
           /\ Less(PeerDel(h, i), h) /\ PeerDel(h, i).forward = h.forward
           /\ Less(NetnsDel(h, i), h) /\ NetnsDel(h, i).forward = h.forward
           /\ Less(RuleDel(h, i), h) /\ RuleDel(h, i).forward = h.forward
           /\ \A v : Less(SetForward(h, v), h) /\ SetForward(h, v).forward = v
           /\ \A f : Less(Netem(h, i, f), h) /\ Netem(h, i, f).forward = h.forward
<1> USE DEF HostStates, Less
<1>1. Less(h, h) /\ Less(BridgeDel(h), h) /\ BridgeDel(h).forward = h.forward
  BY DEF BridgeDel
<1>2. Less(PeerDel(h, i), h) /\ PeerDel(h, i).forward = h.forward
  BY DEF PeerDel
<1>3. Less(NetnsDel(h, i), h) /\ NetnsDel(h, i).forward = h.forward
  BY DEF NetnsDel
<1>4. Less(RuleDel(h, i), h) /\ RuleDel(h, i).forward = h.forward
  BY DEF RuleDel
<1>5. \A v : Less(SetForward(h, v), h) /\ SetForward(h, v).forward = v
  BY DEF SetForward
<1>6. \A f : Less(Netem(h, i, f), h) /\ Netem(h, i, f).forward = h.forward
  BY DEF Netem
<1> QED
  BY <1>1, <1>2, <1>3, <1>4, <1>5, <1>6

\* A destroy takes things away, and restores ip_forward when all is gone.
LEMMA DestroyTakes ==
    ASSUME TypeInv, NEW p \in Procs, DestroyStep(p)
    PROVE  /\ Less(host', host)
           /\ \/ host'.forward = host.forward
              \/ RestoresForward(p) /\ host'.forward = loc[p].seen.forward
           /\ UNCHANGED stateFile \/ Forgets(p)
           /\ Others(p)
<1>0. host \in HostStates /\ loc[p].at \in Nat
  BY DEF TypeInv, MachineInv, ControlInv, Locals
<1>1. CASE DeletesPeer(p)
  BY <1>0, <1>1, LessCommands, HostAssumption DEF DeletesPeer, Nodes, At
<1>2. CASE DeletesNetns(p) \/ DeletesBridge(p) \/ DeletesRule(p) \/ RestoresForward(p)
  BY <1>0, <1>2, LessCommands
  DEF DeletesNetns, DeletesBridge, DeletesRule, RestoresForward, At
<1>3. CASE Leaves(p) \/ Loads(p) \/ Proceeds(p) \/ FindsNoBridge(p) \/ FindsNoRule(p)
           \/ Forgets(p)
  BY <1>0, <1>3, LessCommands
  DEF Silent, Leaves, Loads, Proceeds, FindsNoBridge, FindsNoRule, Forgets, At
<1> QED
  BY DestroyDoes, <1>1, <1>2, <1>3

\* An undone cleanup takes its part away, and may restore ip_forward.
LEMMA UndoesTakes ==
    ASSUME TypeInv, NEW p \in Procs, Undoes(p)
    PROVE  /\ Less(host', host)
           /\ UNCHANGED stateFile
           /\ Others(p)
           /\ Last(undo[p]) \in Cleanups
           /\ \/ host'.forward = host.forward
              \/ Last(undo[p]).kind = "forward" /\ host'.forward = loc[p].before
<1>0. host \in HostStates /\ undo[p] \in Seq(Cleanups)
  BY DEF TypeInv, MachineInv, ControlInv
<1>1. Last(undo[p]) \in Cleanups
  BY <1>0 DEF Undoes, Last
<1>2. Last(undo[p]).kind \in {"bridge", "forward", "rule", "netns"}
      /\ Last(undo[p]).id \in Nat
  BY <1>1 DEF Cleanups
<1> QED
  BY <1>0, <1>1, <1>2, LessCommands DEF Undoes, Undone, At

\* The steps that are neither a create's nor a destroy's.
LEMMA OtherStepsTake ==
    ASSUME TypeInv, NEW p \in Procs, ImpairStep(p) \/ Begin(p) \/ Crash(p)
    PROVE  /\ Less(host', host)
           /\ host'.forward = host.forward
           /\ UNCHANGED stateFile
           /\ Others(p)
<1>0. host \in HostStates /\ loc[p].n \in Nat
  BY DEF TypeInv, MachineInv, ControlInv, Locals
<1>1. CASE ImpairStep(p)
  BY <1>0, <1>1, ImpairDoes, LessCommands DEF Impairs, ImpairsNothing, Silent, At
<1>2. CASE Begin(p) \/ Crash(p)
  BY <1>0, <1>2, BeginDoes, LessCommands DEF Starts, Leaves, Silent, At
<1> QED
  BY <1>1, <1>2

\* The kernel finishes with a namespace, or nothing happens at all.
LEMMA IdleStepsTake ==
    ASSUME TypeInv, UNCHANGED vars \/ \E i \in Nodes : Drain(i)
    PROVE  /\ Less(host', host)
           /\ host'.forward = host.forward
           /\ UNCHANGED <<stateFile, pc, undo, loc>>
<1>0. host \in HostStates
  BY DEF TypeInv, MachineInv
<1>1. CASE UNCHANGED vars
  BY <1>0, <1>1, LessCommands, HostAssumption DEF vars
<1>2. CASE \E i \in Nodes : Drain(i)
  BY <1>0, <1>2, LessCommands, HostAssumption DEF Drain, Nodes
<1> QED
  BY <1>1, <1>2

-----------------------------------------------------------------------------
(* Loops start at their first index; no rule is there twice.               *)

LEMMA FirstKept ==
    ASSUME TypeInv, Stages, FirstInv, [Next]_vars
    PROVE  FirstInv'
<1>1. ASSUME NEW p \in Procs, Others(p), pc'[p] \in BeforeLoops => loc'[p].at = 1
      PROVE  FirstInv'
  BY <1>1 DEF FirstInv, Others
<1> USE DEF At, BeforeLoops
<1>2. ASSUME NEW p \in Procs, CreateStep(p) PROVE FirstInv'
  <2>0. loc[p] \in Locals /\ (pc[p] \in BeforeLoops => loc[p].at = 1)
    BY DEF TypeInv, ControlInv, FirstInv
  <2>1. Others(p) /\ (pc'[p] \in BeforeLoops => loc'[p].at = 1)
    BY <1>2, <2>0, CreateDoes
    DEF Quits, Aborts, Looks, AddsBridge, SetsBridge, ReadsForward, SetsForward,
        KeepsRule, MissesRule, AddsRule, RuleDone, AddsNetns, Wires, NodeDone,
        Records, Undoes, Locals
  <2> QED
    BY <1>1, <2>1
<1>3. ASSUME NEW p \in Procs, DestroyStep(p) PROVE FirstInv'
  <2>1. Others(p) /\ (pc'[p] \in BeforeLoops => loc'[p].at = 1)
    BY <1>3, DestroyDoes
    DEF Leaves, Loads, DeletesNetns, Proceeds, FindsNoBridge, DeletesPeer, DeletesBridge,
        FindsNoRule, DeletesRule, RestoresForward, Forgets
  <2> QED
    BY <1>1, <2>1
<1>4. ASSUME NEW p \in Procs, ImpairStep(p) PROVE FirstInv'
  <2>1. Others(p) /\ (pc'[p] \in BeforeLoops => loc'[p].at = 1)
    BY <1>4, ImpairDoes DEF Impairs, ImpairsNothing
  <2> QED
    BY <1>1, <2>1
<1>5. ASSUME NEW p \in Procs, Begin(p) \/ Crash(p) PROVE FirstInv'
  <2>1. Others(p) /\ (pc'[p] \in BeforeLoops => loc'[p].at = 1)
    BY <1>5, BeginDoes DEF Starts, Leaves
  <2> QED
    BY <1>1, <2>1
<1>6. ASSUME UNCHANGED vars \/ \E i \in Nodes : Drain(i) PROVE FirstInv'
  BY <1>6, IdleStepsTake DEF FirstInv
<1> QED
  BY <1>2, <1>3, <1>4, <1>5, <1>6 DEF Next, Step

LEMMA RulesKept ==
    ASSUME ExclusionInv, RuleInv, [Next]_vars
    PROVE  RuleInv'
<1>0. TypeInv /\ Stages /\ OneBuilder /\ RuleOnce /\ host \in HostStates /\ host' \in HostStates
  BY TypesPreserved DEF ExclusionInv, Exclusion, RuleInv, TypeInv, MachineInv
<1>rules. \A r \in Rules : host.rules[r] \in Nat /\ host'.rules[r] \in Nat
  BY <1>0 DEF HostStates
<1>1. ASSUME NEW p \in Procs, Others(p),
             \A r \in Rules : host'.rules[r] <= host.rules[r],
             pc'[p] = "cRuleAdd" /\ loc'[p].at \in Rules => host'.rules[loc'[p].at] = 0
      PROVE  RuleInv'
  <2>1. RuleOnce'
    BY <1>0, <1>rules, <1>1 DEF RuleOnce, Less
  <2>2. ASSUME NEW q \in Procs, pc'[q] = "cRuleAdd", loc'[q].at \in Rules
        PROVE  host'.rules[loc'[q].at] = 0
    <3>1. CASE q # p
      BY <1>rules, <1>1, <2>2, <3>1 DEF Others, Less, RuleInv
    <3> QED
      BY <1>1, <2>2, <3>1
  <2> QED
    BY <2>1, <2>2 DEF RuleInv
<1> USE DEF At
<1>2. ASSUME NEW p \in Procs, CreateStep(p) PROVE RuleInv'
  <2>1. CASE AddsRule(p)
    <3>0. loc[p].at \in Nat /\ (loc[p].at \in Rules => host.rules[loc[p].at] = 0)
      BY <1>0, <2>1 DEF AddsRule, TypeInv, ControlInv, Locals, RuleInv
    <3>1. RuleOnce'
      BY <1>0, <1>rules, <2>1, <3>0 DEF AddsRule, RuleAdd, RuleOnce, HostStates
    <3>2. ASSUME NEW q \in Procs PROVE pc'[q] # "cRuleAdd"
      <4>1. CASE q = p
        BY <2>1, <4>1 DEF AddsRule, RuleDone
      <4>2. CASE q # p
        <5>1. Building(p) /\ (pc[q] = "cRuleAdd" => Building(q))
          BY <1>0, <2>1 DEF AddsRule, Stages, Stage, BuildLabels, CreateLabels, Building
        <5>2. pc[q] # "cRuleAdd"
          BY <1>0, <4>2, <5>1 DEF OneBuilder
        <5>3. pc'[q] = pc[q]
          BY <2>1, <4>2 DEF AddsRule, RuleDone, Others
        <5> QED
          BY <5>2, <5>3
      <4> QED
        BY <4>1, <4>2
    <3> QED
      BY <3>1, <3>2 DEF RuleInv
  <2>2. CASE AddsBridge(p) \/ SetsForward(p) \/ AddsNetns(p) \/ Wires(p) \/ Aborts(p)
    <3>1. host'.rules = host.rules /\ Others(p) /\ pc'[p] # "cRuleAdd"
      BY <1>0, <2>2, AbortsTakes DEF Aborts, AddsBridge, SetsForward, AddsNetns, Wires, HostStates, BridgeAdd,
         SetForward, NetnsAdd, VethAdd, VethMove, Enslave, Rename
    <3> QED
      BY <1>1, <1>rules, <3>1
  <2>3. CASE Undoes(p)
    <3>1. Less(host', host) /\ Others(p) /\ pc'[p] # "cRuleAdd"
      BY <1>0, <2>3, UndoesTakes DEF Undoes
    <3> QED
      BY <1>1, <3>1 DEF Less
  <2>4. CASE host' = host /\ Others(p) /\
             (pc'[p] = "cRuleAdd" => ~(host.rules[loc[p].at] > 0) /\ loc'[p] = loc[p])
    BY <1>1, <1>rules, <2>4
  <2> QED
    BY <1>0, <1>2, CreateDoes, <2>1, <2>2, <2>3, <2>4
    DEF Silent, Quits, Looks, SetsBridge, ReadsForward, KeepsRule, RuleDone,
        MissesRule, NodeDone, Records
<1>3. ASSUME NEW p \in Procs, DestroyStep(p) PROVE RuleInv'
  <2>1. pc'[p] # "cRuleAdd"
    BY <1>0, <1>3, DestroyDoes
    DEF Leaves, Loads, DeletesNetns, Proceeds, FindsNoBridge, DeletesPeer, DeletesBridge,
        FindsNoRule, DeletesRule, RestoresForward, Forgets
  <2> QED
    BY <1>0, <1>1, <1>3, <2>1, DestroyTakes DEF Less
<1>4. ASSUME NEW p \in Procs, ImpairStep(p) \/ Begin(p) \/ Crash(p) PROVE RuleInv'
  <2>1. pc'[p] # "cRuleAdd"
    BY <1>0, <1>4, ImpairDoes, BeginDoes DEF Impairs, ImpairsNothing, Starts, Leaves
  <2> QED
    BY <1>0, <1>1, <1>4, <2>1, OtherStepsTake DEF Less
<1>5. ASSUME UNCHANGED vars \/ \E i \in Nodes : Drain(i) PROVE RuleInv'
  BY <1>0, <1>rules, <1>5, IdleStepsTake DEF RuleInv, RuleOnce, Less
<1> QED
  BY <1>2, <1>3, <1>4, <1>5 DEF Next, Step

-----------------------------------------------------------------------------
(* What a destroy has torn down stays torn down.                           *)

\* A create or an impairment of p does not make p a destroy; a create leaves
\* it in create or idle.
LEMMA CreateStays ==
    ASSUME TypeInv, Stages, NEW p \in Procs, CreateStep(p)
    PROVE  pc'[p] \in CreateLabels \cup {"idle"} /\ Others(p)
  BY CreateDoes DEF At, CreateLabels,
     Quits, Aborts, Looks, AddsBridge, SetsBridge, ReadsForward, SetsForward,
     KeepsRule, MissesRule, AddsRule, RuleDone, AddsNetns, Wires, NodeDone,
     Records, Undoes

LEMMA OthersStay ==
    ASSUME TypeInv, NEW p \in Procs, ImpairStep(p) \/ Begin(p) \/ Crash(p)
    PROVE  pc'[p] \in {"idle", "cLoad", "dLoad"} \cup ImpairLabels
<1> USE DEF At, ImpairLabels
<1>1. CASE ImpairStep(p)
  BY <1>1, ImpairDoes DEF Impairs, ImpairsNothing
<1>2. CASE Begin(p) \/ Crash(p)
  BY <1>2, BeginDoes DEF Starts, Leaves
<1> QED
  BY <1>1, <1>2

LEMMA DestroyStays ==
    ASSUME TypeInv, NEW p \in Procs, DestroyStep(p)
    PROVE  pc'[p] \in (DestroyLabels \ {"dLoad"}) \cup {"idle"}
  BY DestroyDoes DEF At, DestroyLabels, RecordedLabels, FallbackLabels, SharedLabels,
     Leaves, Loads, DeletesNetns, Proceeds, FindsNoBridge, DeletesPeer, DeletesBridge,
     FindsNoRule, DeletesRule, RestoresForward, Forgets

LEMMA Disjoint ==
    /\ CreateLabels \cap DestroyLabels = {} /\ CreateLabels \cap ImpairLabels = {}
    /\ DestroyLabels \cap ImpairLabels = {}
    /\ "idle" \notin CreateLabels \cup DestroyLabels \cup ImpairLabels
    /\ "dLoad" \in DestroyLabels /\ "cLoad" \in CreateLabels
    /\ BuildLabels \subseteq CreateLabels \ {"cLoad", "cRollback"}
  BY DEF CreateLabels, DestroyLabels, RecordedLabels, FallbackLabels, SharedLabels,
     ImpairLabels, BuildLabels

\* Nobody destroys, before or after the step of a create.
LEMMA NoTearDown ==
    ASSUME Separate, ExclusionInv, NEW p \in Procs, CreateStep(p), NEW q \in Procs
    PROVE  pc[q] \notin DestroyLabels /\ pc'[q] \notin DestroyLabels
<1>1. pc[p] \in CreateLabels /\ pc'[p] \in CreateLabels \cup {"idle"} /\ Others(p)
  BY CreateDoes, CreateStays DEF ExclusionInv
<1>2. pc[q] \notin DestroyLabels
  BY <1>1, NoMix DEF ExclusionInv
<1> QED
  BY <1>1, <1>2, Disjoint DEF Others

\* Nobody creates, before or after the step of a destroy.
LEMMA NoBuildUp ==
    ASSUME Separate, ExclusionInv, NEW p \in Procs, DestroyStep(p), NEW q \in Procs
    PROVE  /\ pc[q] \notin CreateLabels /\ pc'[q] \notin CreateLabels
           /\ ~Building(q) /\ ~Building(q)'
<1>1. pc[p] \in DestroyLabels /\ pc'[p] \in (DestroyLabels \ {"dLoad"}) \cup {"idle"}
      /\ Others(p)
  BY DestroyDoes, DestroyStays, DestroyTakes DEF ExclusionInv
<1>2. pc[q] \notin CreateLabels
  BY <1>1, NoMix DEF ExclusionInv
<1>3. ~Building(q)
  BY <1>2, BuilderCreates DEF ExclusionInv
<1>4. pc'[q] \notin CreateLabels
  BY <1>1, <1>2, Disjoint DEF Others
<1>5. undo'[p] = undo[p] \/ undo'[p] = <<>>
  BY DestroyDoes DEF ExclusionInv, At,
     Leaves, Loads, DeletesNetns, Proceeds, FindsNoBridge, DeletesPeer, DeletesBridge,
     FindsNoRule, DeletesRule, RestoresForward, Forgets
<1>6. undo[p] = <<>>
  BY <1>1, Disjoint, BuilderCreates DEF ExclusionInv, Building
<1>7. ~Building(q)'
  BY <1>1, <1>3, <1>5, <1>6 DEF Others, Building
<1> QED
  BY <1>2, <1>3, <1>4, <1>7

LEMMA TornStays ==
    ASSUME TypeInv, TypeInv', NEW q \in Procs, TearingDown(q), Torn(q), Less(host', host),
           pc'[q] = pc[q], loc'[q] = loc[q], stateFile' \in {stateFile, NoState},
           host'.forward \in {host.forward, loc[q].seen.forward}
    PROVE  Torn(q)'
<1>1. \A r \in Rules : host.rules[r] \in Nat /\ host'.rules[r] \in Nat
  BY DEF TypeInv, MachineInv, HostStates
<1> QED
  BY <1>1 DEF Torn, Less

\* What the destroy that takes the step has torn down by then.
LEMMA TearsDown ==
    ASSUME TypeInv, TypeInv', FirstInv, TearInv, NEW p \in Procs, DestroyStep(p),
           TearingDown(p)'
    PROVE  /\ Torn(p)'
           /\ \/ TearingDown(p) /\ loc'[p].seen = loc[p].seen
              \/ stateFile # NoState /\ loc'[p].seen = stateFile
<1>0. /\ host \in HostStates /\ host' \in HostStates /\ loc[p] \in Locals
      /\ stateFile \in State \cup {NoState}
      /\ pc[p] \in DestroyLabels
      /\ TearingDown(p) => Torn(p)
      /\ RuleCount \in Nat
  BY DestroyDoes, HostAssumption DEF TypeInv, MachineInv, ControlInv, TearInv
<1>types. /\ loc[p].at \in Nat
          /\ \A r \in Rules : host.rules[r] \in Nat /\ host'.rules[r] \in Nat
          /\ \A i \in host.netns : i \in Nat /\ i >= 1
          /\ Rules \subseteq Nat
          /\ loc[p].seen # NoState => loc[p].seen.nodes \in Nat
  BY <1>0, HostAssumption DEF Locals, HostStates, Nodes, Rules, State
<1>1. CASE Loads(p)
  <2>1. loc[p].at = 1
    BY <1>1 DEF Loads, FirstInv, BeforeLoops
  <2>2. /\ pc'[p] = "dNode" /\ stateFile # NoState /\ loc'[p].seen = stateFile
        /\ loc'[p].at = 1 /\ host' = host /\ stateFile' = stateFile
    BY <1>0, <1>1, <2>1 DEF Loads, At, TearingDown, Silent, Locals
  <2>3. \A i \in host'.netns : i >= loc'[p].at
    BY <1>types, <2>2
  <2> QED
    BY <2>2, <2>3 DEF Torn, AfterBridge
<1>2. ASSUME ~Loads(p), ~Leaves(p), ~Forgets(p)
      PROVE  /\ TearingDown(p) /\ loc'[p].seen = loc[p].seen /\ stateFile' = stateFile
             /\ pc[p] # "dLoad" /\ pc'[p] # "idle"
  BY <1>0, <1>2, DestroyDoes
  DEF At, DeletesNetns, Proceeds, FindsNoBridge, DeletesPeer, DeletesBridge, SetAt, Silent,
      FindsNoRule, DeletesRule, RestoresForward, TearingDown, Locals, DestroyLabels,
      RecordedLabels, FallbackLabels, SharedLabels
<1>3. CASE Leaves(p) \/ Forgets(p)
  BY <1>3, Disjoint DEF Leaves, Forgets, At, TearingDown
<1>4. ASSUME TearingDown(p), loc'[p].seen = loc[p].seen, stateFile' = stateFile,
             ~Loads(p), ~Leaves(p), ~Forgets(p)
      PROVE  Torn(p)'
  <2>0. Torn(p)
    BY <1>0, <1>4
  <2>1. CASE DeletesNetns(p)
    <3>0. host' = NetnsDel(host, loc[p].at) /\ pc[p] = "dNode"
      BY <2>1 DEF DeletesNetns
    <3>1. host'.netns = host.netns \ {loc[p].at} /\ pc[p] = "dNode"
      BY <1>0, <3>0, HostParts
    <3>2. /\ \A i \in host.netns : i >= loc[p].at
          /\ stateFile' \in {loc[p].seen, NoState}
      BY <2>0, <3>1, <1>4 DEF Torn
    <3>3. CASE loc[p].at < loc[p].seen.nodes
      <4>0. loc[p].seen.nodes \in Nat
        BY <1>types, <1>4 DEF TearingDown
      <4>1. At(p, "dNode", undo[p], SetAt(p, loc[p].at + 1))
        BY <1>types, <2>1, <3>3, <4>0 DEF DeletesNetns
      <4>2. pc'[p] = "dNode" /\ loc'[p].at = loc[p].at + 1
        BY <1>0, <4>1 DEF At, SetAt, Locals
      <4> QED
        BY <1>types, <1>4, <3>1, <3>2, <4>2 DEF Torn, AfterBridge
    <3>4. CASE loc[p].at >= loc[p].seen.nodes
      <4>0. loc[p].seen # NoState
        BY <1>4 DEF TearingDown
      <4>1. pc'[p] = "dBridge"
        BY <1>types, <2>1, <3>4, <4>0 DEF DeletesNetns, At
      <4>2. \A i \in host'.netns : i > loc[p].seen.nodes
        BY <1>types, <3>1, <3>2, <3>4, <4>0
      <4> QED
        BY <1>4, <3>2, <4>1, <4>2 DEF Torn, AfterBridge
    <3> QED
      BY <2>1, <3>3, <3>4 DEF DeletesNetns
  <2>2. CASE Proceeds(p)
    BY <1>4, <2>0, <2>2 DEF Proceeds, Torn, AfterBridge, At, Silent
  <2>3. CASE FindsNoBridge(p)
    <3>1. /\ host' = host /\ pc'[p] = "dRuleCheck" /\ loc'[p].at = 1 /\ ~host.bridge
          /\ pc[p] # "dNode"
      BY <1>0, <2>3 DEF FindsNoBridge, At, SetAt, Locals, Silent
    <3> QED
      BY <1>4, <1>types, <2>0, <3>1 DEF Torn, AfterBridge, Rules
  <2>4. CASE DeletesPeer(p)
    <3>1. /\ host'.netns = host.netns /\ pc[p] = "fPeer" /\ pc'[p] = "fPeer"
      BY <1>0, <2>4 DEF DeletesPeer, At, PeerDel, HostStates
    <3> QED
      BY <1>4, <2>0, <3>1 DEF Torn, AfterBridge
  <2>5. CASE DeletesBridge(p)
    <3>1. /\ host'.netns = host.netns /\ ~host'.bridge /\ pc[p] = "dDel"
          /\ pc'[p] = "dRuleCheck" /\ loc'[p].at = 1
      BY <1>0, <2>5 DEF DeletesBridge, At, BridgeDel, HostStates, SetAt, Locals
    <3> QED
      BY <1>4, <1>types, <2>0, <3>1 DEF Torn, AfterBridge, Rules
  <2>6. CASE FindsNoRule(p)
    <3>1. /\ host' = host /\ pc[p] \in {"dRuleCheck", "dRuleDel"}
          /\ loc[p].at \in Rules => host.rules[loc[p].at] = 0
      BY <1>0, <1>types, <2>6 DEF FindsNoRule, Silent
    <3>2. /\ ~host.bridge
          /\ \A i \in host.netns : i > loc[p].seen.nodes
          /\ \A r \in Rules : r < loc[p].at => host.rules[r] = 0
          /\ stateFile \in {loc[p].seen, NoState}
      BY <2>0, <3>1 DEF Torn, AfterBridge
    <3>3. CASE loc[p].at < RuleCount
      <4>1. pc'[p] = "dRuleCheck" /\ loc'[p].at = loc[p].at + 1
        BY <1>0, <1>types, <1>4, <2>6, <3>3 DEF FindsNoRule, At, SetAt, Locals
      <4>2. \A r \in Rules : r < loc[p].at + 1 => host.rules[r] = 0
        <5> SUFFICES ASSUME NEW r \in Rules, r < loc[p].at + 1 PROVE host.rules[r] = 0
          OBVIOUS
        <5>1. r < loc[p].at \/ r = loc[p].at
          BY <1>types
        <5> QED
          BY <3>1, <3>2, <5>1
      <4> QED
        BY <1>types, <1>4, <3>1, <3>2, <4>1, <4>2 DEF Torn, AfterBridge
    <3>4. CASE loc[p].at >= RuleCount
      <4>1. pc'[p] = "dForward"
        BY <1>0, <1>types, <2>6, <3>4 DEF FindsNoRule, At
      <4>2. \A r \in Rules : host.rules[r] = 0
        BY <1>0, <1>types, <3>1, <3>2, <3>4 DEF Rules
      <4> QED
        BY <1>4, <3>1, <3>2, <4>1, <4>2 DEF Torn, AfterBridge
    <3> QED
      BY <2>6, <3>3, <3>4 DEF FindsNoRule
  <2>7. CASE DeletesRule(p)
    <3>1. /\ Less(host', host) /\ loc'[p].at = loc[p].at
          /\ pc[p] = "dRuleDel" /\ pc'[p] = "dRuleCheck"
      BY <2>7, DestroyTakes DEF DeletesRule, At
    <3> QED
      BY <1>4, <1>types, <2>0, <3>1 DEF Torn, AfterBridge, Less
  <2>8. CASE RestoresForward(p)
    <3>1. /\ Less(host', host) /\ pc[p] = "dForward" /\ pc'[p] = "dForget"
          /\ host'.forward = loc[p].seen.forward
      BY <1>0, <2>8, DestroyTakes DEF RestoresForward, At, SetForward, HostStates
    <3> QED
      BY <1>4, <1>types, <2>0, <3>1 DEF Torn, AfterBridge, Less
  <2> QED
    BY <1>4, DestroyDoes, <2>1, <2>2, <2>3, <2>4, <2>5, <2>6, <2>7, <2>8
<1> QED
  BY <1>1, <1>2, <1>3, <1>4

LEMMA TearKept ==
    ASSUME Separate, ExclusionInv, FirstInv, TearInv, [Next]_vars
    PROVE  TearInv'
<1>0. TypeInv /\ TypeInv' /\ Stages
  BY TypesPreserved DEF ExclusionInv
<1>1. ASSUME NEW p \in Procs, CreateStep(p) PROVE TearInv'
  <2>1. \A q \in Procs : ~TearingDown(q)'
    BY <1>1, NoTearDown DEF TearingDown
  <2> QED
    BY <2>1 DEF TearInv
<1>2. ASSUME NEW p \in Procs, DestroyStep(p) PROVE TearInv'
  <2>0. /\ Less(host', host) /\ Others(p) /\ stateFile' \in {stateFile, NoState}
        /\ \/ host'.forward = host.forward
           \/ RestoresForward(p) /\ host'.forward = loc[p].seen.forward
    BY <1>0, <1>2, DestroyTakes DEF Forgets
  <2>1. RestoresForward(p) => TearingDown(p)
    BY <1>0 DEF RestoresForward, TypeInv, ControlInv, Indices, TearingDown,
       DestroyLabels, RecordedLabels
  <2>2. ASSUME NEW q \in Procs, q # p, TearingDown(q)'
        PROVE  TearingDown(q) /\ loc'[q] = loc[q] /\ Torn(q)'
    <3>1. TearingDown(q) /\ loc'[q] = loc[q] /\ pc'[q] = pc[q] /\ Torn(q)
      BY <2>0, <2>2 DEF Others, TearingDown, TearInv
    <3>2. host'.forward \in {host.forward, loc[q].seen.forward}
      BY <2>0, <2>1, <3>1 DEF TearInv
    <3> QED
      BY <1>0, <2>0, <3>1, <3>2, TornStays
  <2>3. TearingDown(p)' => /\ Torn(p)'
                           /\ \/ TearingDown(p) /\ loc'[p].seen = loc[p].seen
                              \/ stateFile # NoState /\ loc'[p].seen = stateFile
    BY <1>0, <1>2, TearsDown
  <2>4. \A q \in Procs : TearingDown(q) /\ stateFile # NoState => loc[q].seen = stateFile
    BY DEF TearInv, Torn
  <2>5. \A q \in Procs : TearingDown(q)' => Torn(q)'
    BY <2>2, <2>3
  <2>6. \A q, r \in Procs : TearingDown(q)' /\ TearingDown(r)' => loc'[q].seen = loc'[r].seen
    BY <2>2, <2>3, <2>4 DEF TearInv
  <2> QED
    BY <2>5, <2>6 DEF TearInv
<1>3. ASSUME NEW p \in Procs, ImpairStep(p) \/ Begin(p) \/ Crash(p) PROVE TearInv'
  <2>0. /\ Less(host', host) /\ Others(p) /\ stateFile' = stateFile
        /\ host'.forward = host.forward
    BY <1>0, <1>3, OtherStepsTake
  <2>1. ~TearingDown(p)'
    BY <1>0, <1>3, OthersStay, Disjoint DEF TearingDown
  <2>2. ASSUME NEW q \in Procs, TearingDown(q)'
        PROVE  TearingDown(q) /\ loc'[q] = loc[q] /\ Torn(q)'
    <3>1. TearingDown(q) /\ loc'[q] = loc[q] /\ pc'[q] = pc[q] /\ Torn(q)
      BY <2>0, <2>1, <2>2 DEF Others, TearingDown, TearInv
    <3> QED
      BY <1>0, <2>0, <3>1, TornStays
  <2> QED
    BY <2>2 DEF TearInv
<1>4. ASSUME UNCHANGED vars \/ \E i \in Nodes : Drain(i) PROVE TearInv'
  <2>0. /\ Less(host', host) /\ host'.forward = host.forward
        /\ UNCHANGED <<stateFile, pc, loc>>
    BY <1>0, <1>4, IdleStepsTake
  <2>1. ASSUME NEW q \in Procs, TearingDown(q)' PROVE TearingDown(q) /\ Torn(q)'
    BY <1>0, <2>0, <2>1, TornStays DEF TearingDown, TearInv
  <2> QED
    BY <2>0, <2>1 DEF TearInv
<1> QED
  BY <1>1, <1>2, <1>3, <1>4 DEF Next, Step

-----------------------------------------------------------------------------
(* Nothing exists beside a record, if creates run alone.                   *)

LEMMA AloneKept ==
    ASSUME "create" \in SerialOps, ExclusionInv, HostInv, AloneInv, [Next]_vars
    PROVE  AloneInv'
<1>0. TypeInv /\ TypeInv' /\ Stages /\ Separate /\ Exclusion
  BY TypesPreserved DEF ExclusionInv, Separate
<1>host. host \in HostStates /\ host' \in HostStates
  BY <1>0 DEF TypeInv, MachineInv
<1>1. ASSUME NEW p \in Procs, CreateStep(p) PROVE AloneInv'
  <2>0. /\ pc[p] \in CreateLabels /\ loc[p] \in Locals /\ Indices(pc[p], loc[p])
        /\ loc[p].op = "create" /\ Others(p)
    BY <1>0, <1>1, CreateDoes, CreateStays DEF TypeInv, ControlInv, Stages, Stage
  <2>1. \A q \in Procs \ {p} : pc'[q] = "idle"
    BY <1>0, <2>0 DEF Exclusion, Others
  <2>2. SUFFICES /\ stateFile' # NoState =>
                       host'.netns \cup host'.ports \subseteq 1..stateFile'.nodes
                 /\ pc'[p] \in CreateLabels \ {"cLoad"} => stateFile' = NoState
                 /\ pc'[p] = "cAddBridge" => host'.netns = {}
                 /\ pc'[p] \in BuildLabels =>
                       host'.netns \cup host'.ports \subseteq 1..loc'[p].n
    BY <2>1, Disjoint DEF AloneInv
  <2>3. /\ stateFile # NoState => host.netns \cup host.ports \subseteq 1..stateFile.nodes
        /\ pc[p] \in CreateLabels \ {"cLoad"} => stateFile = NoState
        /\ pc[p] = "cAddBridge" => host.netns = {}
        /\ pc[p] \in BuildLabels => host.netns \cup host.ports \subseteq 1..loc[p].n
    BY DEF AloneInv
  <2> USE <2>0, <2>3, <1>host DEF At, BuildLabels, CreateLabels
  <2>4. CASE Quits(p) \/ Aborts(p) \/ Looks(p)
    BY <1>0, <2>4, AbortsTakes DEF Quits, Aborts, Looks, Silent
  <2>5. CASE AddsBridge(p)
    <3>1. host.ports = {}
      BY <2>5 DEF AddsBridge, HostInv, Consistent
    <3> QED
      BY <2>5, <3>1 DEF AddsBridge, BridgeAdd, HostStates
  <2>6. CASE SetsBridge(p) \/ ReadsForward(p) \/ KeepsRule(p) \/ MissesRule(p) \/ NodeDone(p)
    BY <2>6 DEF SetsBridge, ReadsForward, KeepsRule, RuleDone, MissesRule, NodeDone,
       Silent, SetAt, Locals
  <2>7. CASE SetsForward(p)
    BY <2>7 DEF SetsForward, SetForward, HostStates
  <2>8. CASE AddsRule(p)
    <3>1. /\ host'.netns = host.netns /\ host'.ports = host.ports /\ stateFile' = stateFile
          /\ pc[p] = "cRuleAdd" /\ pc'[p] # "cAddBridge" /\ loc'[p].n = loc[p].n
      BY <2>8 DEF AddsRule, RuleDone, RuleAdd, HostStates, SetAt, Locals
    <3> QED
      BY <3>1
  <2>9. CASE AddsNetns(p)
    <3>1. loc[p].at \in 1..loc[p].n
      BY <2>9 DEF AddsNetns, Indices, NodeLoop
    <3>2. host'.netns = host.netns \cup {loc[p].at} /\ host'.ports = host.ports
      BY <2>9 DEF AddsNetns, NetnsAdd, HostStates
    <3> QED
      BY <2>9, <3>1, <3>2 DEF AddsNetns
  <2>10. CASE Wires(p)
    <3>1. loc[p].at \in 1..loc[p].n
      BY <2>10 DEF Wires, Indices, NodeLoop
    <3>2. host'.netns = host.netns /\ host'.ports \subseteq host.ports \cup {loc[p].at}
      BY <2>10 DEF Wires, VethAdd, VethMove, Enslave, Rename, HostStates
    <3> QED
      BY <2>10, <3>1, <3>2 DEF Wires
  <2>11. CASE Records(p)
    BY <2>11 DEF Records
  <2>12. CASE Undoes(p)
    BY <2>12 DEF Undoes
  <2> QED
    BY <1>0, <1>1, CreateDoes, <2>4, <2>5, <2>6, <2>7, <2>8, <2>9, <2>10, <2>11, <2>12
<1>2. ASSUME NEW p \in Procs, DestroyStep(p) PROVE AloneInv'
  <2>1. Less(host', host) /\ stateFile' \in {stateFile, NoState}
    BY <1>0, <1>2, DestroyTakes DEF Forgets
  <2>2. \A q \in Procs : pc'[q] \notin CreateLabels
    BY <1>0, <1>2, NoBuildUp
  <2> QED
    BY <2>1, <2>2, Disjoint DEF AloneInv, Less, CreateLabels
<1>3. ASSUME NEW p \in Procs, ImpairStep(p) \/ Begin(p) \/ Crash(p) PROVE AloneInv'
  <2>1. Less(host', host) /\ stateFile' = stateFile /\ Others(p)
    BY <1>0, <1>3, OtherStepsTake
  <2>2. /\ pc'[p] \notin CreateLabels \ {"cLoad"} /\ pc'[p] \notin BuildLabels
        /\ pc'[p] # "cAddBridge"
    BY <1>0, <1>3, OthersStay, Disjoint DEF ImpairLabels
  <2>3. ASSUME NEW q \in Procs
        PROVE  /\ pc'[q] \in CreateLabels \ {"cLoad"} => stateFile' = NoState
               /\ pc'[q] = "cAddBridge" => host'.netns = {}
               /\ pc'[q] \in BuildLabels =>
                     host'.netns \cup host'.ports \subseteq 1..loc'[q].n
    <3>1. CASE q = p
      BY <2>2, <3>1
    <3>2. CASE q # p
      BY <2>1, <3>2 DEF Others, Less, AloneInv
    <3> QED
      BY <3>1, <3>2
  <2> QED
    BY <2>1, <2>3 DEF AloneInv, Less
<1>4. ASSUME UNCHANGED vars \/ \E i \in Nodes : Drain(i) PROVE AloneInv'
  BY <1>0, <1>4, IdleStepsTake DEF AloneInv, Less
<1> QED
  BY <1>1, <1>2, <1>3, <1>4 DEF Next, Step

-----------------------------------------------------------------------------
(* A rollback undoes all there is.                                         *)

LEMMA HasAppend ==
    ASSUME NEW u \in Seq(Cleanups), NEW c \in Cleanups, NEW kind, NEW id
    PROVE  Has(Append(u, c), kind, id) <=> Has(u, kind, id) \/ c = Cleanup(kind, id)
<1>1. /\ Len(u) \in Nat /\ Len(Append(u, c)) = Len(u) + 1
      /\ \A k \in 1..Len(u) : Append(u, c)[k] = u[k]
      /\ Append(u, c)[Len(u) + 1] = c
  OBVIOUS
<1>2. \A k : k \in 1..(Len(u) + 1) <=> k \in 1..Len(u) \/ k = Len(u) + 1
  BY <1>1
<1> QED
  BY <1>1, <1>2 DEF Has

LEMMA HasFront ==
    ASSUME NEW u \in Seq(Cleanups), u # <<>>, NEW kind, NEW id
    PROVE  Has(u, kind, id) <=> Has(Front(u), kind, id) \/ Last(u) = Cleanup(kind, id)
<1>0. Len(u) \in Nat /\ Len(u) > 0 /\ Last(u) = u[Len(u)]
  BY DEF Last
<1>1. /\ Len(Front(u)) = Len(u) - 1
      /\ \A k \in 1..(Len(u) - 1) : Front(u)[k] = u[k]
  <2>1. CASE Len(u) = 1
    <3>1. Front(u) = <<>>
      BY <2>1 DEF Front
    <3> QED
      BY <2>1, <3>1
  <2>2. CASE Len(u) # 1
    <3>1. \A n \in Nat : n > 0 /\ n # 1 => n > 1
      OBVIOUS
    <3>2. Len(u) > 1
      BY <1>0, <2>2, <3>1, Zenon
    <3> QED
      BY <1>0, <3>2 DEF Front
  <2> QED
    BY <2>1, <2>2
<1>2. \A k : k \in 1..Len(u) <=> k \in 1..(Len(u) - 1) \/ k = Len(u)
  BY <1>0
<1> QED
  BY <1>0, <1>1, <1>2 DEF Has

\* A slice of one cleanup has nothing but the bridge.
LEMMA HasOne ==
    ASSUME NEW u \in Seq(Cleanups), BridgeFirst(u), Len(u) = 1, NEW kind, kind # "bridge",
           NEW id
    PROVE  ~Has(u, kind, id)
<1>1. u # <<>> /\ u[1].kind = "bridge" /\ 1..Len(u) = {1}
  BY DEF BridgeFirst
<1> QED
  BY <1>1 DEF Has, Cleanup

LEMMA RestoringIs ==
    ASSUME NEW p \in Procs
    PROVE  /\ Restoring(p) <=> \E id : Has(undo[p], "forward", id)
           /\ Restoring(p)' <=> \E id : Has(undo'[p], "forward", id)
<1>1. ASSUME NEW u, NEW id, Has(u, "forward", id)
      PROVE  id \in {u[k].id : k \in 1..Len(u)}
  BY <1>1 DEF Has, Cleanup
<1> QED
  BY <1>1 DEF Restoring, Deferred

\* What is said of a process stays as long as neither its own state changes
\* nor what it has read.
LEMMA ReaderStays ==
    ASSUME NEW q \in Procs, ReaderInv(q), pc'[q] = pc[q], loc'[q] = loc[q],
           stateFile' = stateFile, host.bridge => host'.bridge
    PROVE  ReaderInv(q)'
  BY DEF ReaderInv, TearingDown

\* The parts of a lab that the invariants speak of are as they were.
SameParts ==
    /\ host'.bridge = host.bridge
    /\ host'.netns = host.netns
    /\ host'.rules = host.rules
    /\ host'.forward = host.forward

\* A process whose own state stays keeps what is said of it.
LEMMA BuilderStays ==
    ASSUME NEW q \in Procs, BuilderInv(q), SameParts, stateFile' = stateFile,
           pc'[q] = pc[q], undo'[q] = undo[q], loc'[q] = loc[q],
           Building(q) => \A i \in Nodes : host'.qdisc[i] = {}
    PROVE  BuilderInv(q)'
  BY DEF BuilderInv, SameParts, Building, Undoable, Restoring, Deferred, Made

LEMMA NotBuilding ==
    ASSUME Stages', NEW p \in Procs, ~Building(p)'
    PROVE  BuilderInv(p)'
  BY DEF Stages, Stage, Building, BuilderInv

\* A create that has not added its bridge.
LEMMA FoundingKeepsClean ==
    ASSUME ExclusionInv, ExclusionInv', HostInv, CleanInv,
           NEW p \in Procs, CreateStep(p), ~Building(p)
    PROVE  CleanInv'
<1>0. /\ TypeInv /\ Stages /\ TypeInv' /\ Stages' /\ OneBuilder'
      /\ host \in HostStates /\ undo[p] = <<>>
  BY DEF ExclusionInv, Exclusion, TypeInv, MachineInv, Building
<1>1. Quits(p) \/ Looks(p) \/ AddsBridge(p)
  <2>1. pc[p] \notin BuildLabels
    BY <1>0 DEF Building, Stages, Stage
  <2> QED
    BY <1>0, <2>1, CreateDoes
    DEF BuildLabels, CreateLabels, Aborts, SetsBridge, ReadsForward, SetsForward,
        KeepsRule, MissesRule, AddsRule, AddsNetns, Wires, NodeDone, Records, Undoes
<1>2. CASE Quits(p) \/ Looks(p)
  <2>1. Silent /\ Others(p) /\ undo'[p] = undo[p] /\ undo'[p] = <<>>
        /\ pc'[p] \in {"idle", "cBridge", "cNetns", "cAddBridge"}
    BY <1>0, <1>2 DEF Quits, Looks, At
  <2>2. \A q \in Procs : Building(q)' <=> Building(q)
    BY <2>1 DEF Others, Building
  <2>3. NobodyInv' /\ RecordedInv'
    BY <2>1, <2>2 DEF CleanInv, NobodyInv, RecordedInv, Untouched, Silent
  <2>4. ASSUME NEW q \in Procs PROVE BuilderInv(q)' /\ ReaderInv(q)'
    <3>1. CASE q # p
      <4>1. pc'[q] = pc[q] /\ loc'[q] = loc[q] /\ undo'[q] = undo[q]
        BY <2>1, <3>1 DEF Others
      <4>2. BuilderInv(q)'
        BY <2>1, <4>1, BuilderStays DEF CleanInv, BuilderInv, Silent, SameParts
      <4>3. ReaderInv(q)'
        BY <2>1, <4>1, ReaderStays DEF CleanInv, Silent
      <4> QED
        BY <4>2, <4>3
    <3>2. CASE q = p
      <4>1. BuilderInv(q)'
        BY <2>1, <3>2 DEF BuilderInv, Building, BuildLabels, CreateLabels
      <4>2. pc'[p] \in {"cBridge", "cNetns", "cAddBridge"} /\ stateFile' # NoState => host'.bridge
        BY <1>2, <2>1 DEF CleanInv, ReaderInv, Quits, Looks, At, Silent
      <4>3. ~TearingDown(p)'
        BY <2>1 DEF TearingDown, DestroyLabels, RecordedLabels, FallbackLabels, SharedLabels
      <4> QED
        BY <2>1, <3>2, <4>1, <4>2, <4>3 DEF ReaderInv
    <3> QED
      BY <3>1, <3>2
  <2> QED
    BY <2>3, <2>4 DEF CleanInv
<1>3. CASE AddsBridge(p)
  <2>1. /\ pc[p] = "cAddBridge" /\ ~host.bridge /\ stateFile' = stateFile /\ Others(p)
        /\ pc'[p] = "cSetBridge" /\ undo'[p] = <<Cleanup("bridge", 0)>> /\ loc'[p] = loc[p]
        /\ host'.bridge /\ host'.netns = host.netns /\ host'.rules = host.rules
        /\ host'.forward = host.forward /\ host'.qdisc = host.qdisc
    BY <1>0, <1>3 DEF AddsBridge, At, BridgeAdd, HostStates
  <2>2. stateFile = NoState /\ \A q \in Procs : ~Building(q)
    BY <2>1 DEF CleanInv, ReaderInv, ExclusionInv, Exclusion
  <2>3. Untouched
    BY <2>2 DEF CleanInv, NobodyInv
  <2>4. \A i \in Nodes : host.qdisc[i] = {}
    BY <2>3 DEF Untouched, HostInv, Consistent
  <2>5. Building(p)'
    BY <2>1 DEF Building
  <2>6. \A q \in Procs \ {p} : ~Building(q)'
    BY <1>0, <2>5 DEF OneBuilder
  <2>7. \A kind, id : Has(undo'[p], kind, id) => kind = "bridge"
    BY <2>1 DEF Has, Cleanup
  <2>8. Len(undo'[p]) = 1
    BY <2>1
  <2>9. Undoable(p)'
    BY <2>1, <2>3, <2>7, <2>8, RestoringIs
    DEF Untouched, Undoable, Deferred, BuildLabels, CreateLabels
  <2>10. Made(p)'
    BY <2>1, <2>3 DEF Untouched, Made, RuleLoop, NodeLoop
  <2>11. NobodyInv' /\ RecordedInv'
    BY <2>1, <2>2, <2>5 DEF NobodyInv, RecordedInv
  <2>12. ASSUME NEW q \in Procs PROVE BuilderInv(q)' /\ ReaderInv(q)'
    <3>1. CASE q # p
      <4>1. BuilderInv(q)'
        BY <1>0, <2>6, <3>1 DEF BuilderInv, Stages, Stage, Building
      <4>2. pc'[q] = pc[q] /\ loc'[q] = loc[q]
        BY <2>1, <3>1 DEF Others
      <4>3. ReaderInv(q)'
        BY <2>1, <4>2, ReaderStays DEF CleanInv
      <4> QED
        BY <4>1, <4>3
    <3>2. CASE q = p
      <4>1. BuilderInv(q)'
        BY <2>1, <2>2, <2>4, <2>9, <2>10, <3>2 DEF BuilderInv
      <4>2. ReaderInv(q)'
        BY <2>1, <3>2 DEF ReaderInv, TearingDown, DestroyLabels, RecordedLabels,
           FallbackLabels, SharedLabels
      <4> QED
        BY <4>1, <4>2
    <3> QED
      BY <3>1, <3>2
  <2> QED
    BY <2>11, <2>12 DEF CleanInv
<1> QED
  BY <1>1, <1>2, <1>3

\* The step of a create that has cleanups, and keeps some: they still undo all
\* there is, and what it has made is still there.
LEMMA BuilderKeepsPromise ==
    ASSUME TypeInv, TypeInv', Stages, Stages', FirstInv, RuleOnce, Orderly,
           NEW p \in Procs, CreateStep(p), Building(p), Building(p)', BuilderInv(p)
    PROVE  BuilderInv(p)'
<1>0. /\ host \in HostStates /\ host' \in HostStates /\ loc[p] \in Locals
      /\ undo[p] \in Seq(Cleanups) /\ undo[p] # <<>> /\ BridgeFirst(undo[p])
      /\ loc[p].at \in Nat /\ loc[p].n \in Nat /\ RuleCount \in Nat
      /\ Indices(pc[p], loc[p]) /\ pc[p] \in BuildLabels \cup {"cRollback"}
      /\ pc[p] \in BeforeLoops => loc[p].at = 1
  BY BuilderCreates, HostAssumption
  DEF TypeInv, MachineInv, ControlInv, Locals, Stages, Stage, Building, FirstInv
<1>types. \A r \in Rules : r \in Nat /\ r <= RuleCount
                           /\ host.rules[r] \in Nat /\ host'.rules[r] \in Nat
  BY <1>0 DEF HostStates, Rules
<1>1. /\ stateFile = NoState /\ Undoable(p) /\ \A i \in Nodes : host.qdisc[i] = {}
      /\ pc[p] \in BuildLabels => Made(p)
  BY DEF BuilderInv
<1>2. undo'[p] # <<>>
  BY DEF Building
<1>3. \/ Aborts(p) \/ SetsBridge(p) \/ ReadsForward(p) \/ SetsForward(p)
      \/ KeepsRule(p) \/ MissesRule(p) \/ AddsRule(p)
      \/ AddsNetns(p) \/ Wires(p) \/ NodeDone(p) \/ Undoes(p)
  BY <1>0, <1>2, CreateDoes DEF Quits, Looks, AddsBridge, Records, At
<1>4. SUFFICES /\ stateFile' = NoState /\ Undoable(p)'
               /\ \A i \in Nodes : host'.qdisc[i] = {}
               /\ pc'[p] \in BuildLabels => Made(p)'
  BY DEF BuilderInv
<1>restoring. /\ Restoring(p) <=> \E id : Has(undo[p], "forward", id)
              /\ Restoring(p)' <=> \E id : Has(undo'[p], "forward", id)
  BY RestoringIs
\* What Undoable and Made come to if the cleanups stay.
<1>5. ASSUME host'.netns = host.netns, host'.rules = host.rules,
             host'.forward = host.forward, host'.qdisc = host.qdisc,
             stateFile' = stateFile, undo'[p] = undo[p],
             pc'[p] \notin {"cSetBridge", "cReadForward"},
             loc'[p].before = loc[p].before,
             pc[p] \in BuildLabels \ {"cSetBridge", "cReadForward"} \/ pc'[p] = "cRollback"
      PROVE  stateFile' = NoState /\ Undoable(p)' /\ \A i \in Nodes : host'.qdisc[i] = {}
  <2>1. "cRollback" \notin BuildLabels
    BY DEF BuildLabels
  <2> QED
    BY <1>restoring, <1>1, <1>5, <2>1 DEF Undoable, Deferred
<1>6. CASE Aborts(p)
  <2>1. pc'[p] = "cRollback" /\ pc'[p] \notin BuildLabels
    BY <1>6 DEF Aborts, At, BuildLabels
  <2> QED
    BY <1>0, <1>5, <1>6, <2>1, AbortsTakes DEF Aborts, At
<1>7. CASE SetsBridge(p)
  <2>1. /\ pc[p] = "cSetBridge" /\ pc'[p] = "cReadForward" /\ loc'[p] = loc[p]
        /\ undo'[p] = undo[p] /\ host' = host /\ stateFile' = stateFile
    BY <1>7 DEF SetsBridge, At, Silent
  <2>2. Made(p)'
    BY <1>1, <2>1 DEF Made, RuleLoop, NodeLoop, BuildLabels, CreateLabels
  <2>3. Undoable(p)'
    BY <1>restoring, <1>1, <2>1 DEF Undoable, Deferred, BuildLabels
  <2> QED
    BY <1>1, <2>1, <2>2, <2>3
<1>8. CASE ReadsForward(p)
  <2>1. /\ pc[p] = "cReadForward" /\ pc'[p] = "cSetForward"
        /\ loc'[p].before = host.forward /\ loc'[p].n = loc[p].n
        /\ undo'[p] = undo[p] /\ host' = host /\ stateFile' = stateFile
    BY <1>0, <1>8 DEF ReadsForward, At, Silent, Locals
  <2>2. Made(p)'
    BY <1>1, <2>1 DEF Made, RuleLoop, NodeLoop, BuildLabels, CreateLabels
  <2>3. Len(undo[p]) = 1
    BY <1>restoring, <1>1, <2>1 DEF Undoable
  <2>4. \A id : ~Has(undo[p], "forward", id)
    BY <1>0, <2>3, HasOne
  <2>5. host.forward = HostForward
    BY <1>restoring, <1>1, <2>4 DEF Undoable, Deferred
  <2>6. Undoable(p)'
    BY <1>restoring, <1>1, <2>1, <2>5 DEF Undoable, Deferred
  <2> QED
    BY <1>1, <2>1, <2>2, <2>6
<1>9. CASE SetsForward(p)
  <2> DEFINE c == Cleanup("forward", 0)
  <2>1. /\ pc[p] = "cSetForward" /\ pc'[p] = "cRuleCheck" /\ loc'[p] = loc[p]
        /\ undo'[p] = Append(undo[p], c) /\ stateFile' = stateFile
        /\ host'.netns = host.netns /\ host'.rules = host.rules
        /\ host'.qdisc = host.qdisc
    BY <1>0, <1>9 DEF SetsForward, At, SetForward, HostStates
  <2>2. loc[p].at = 1
    BY <1>0, <2>1 DEF BeforeLoops
  <2>3. Made(p)'
    BY <1>1, <1>types, <2>1, <2>2, HostAssumption
    DEF Made, RuleLoop, NodeLoop, BuildLabels, CreateLabels, Rules
  <2>4. \A kind, id : Has(undo'[p], kind, id) <=> Has(undo[p], kind, id) \/ c = Cleanup(kind, id)
    <3>1. c \in Cleanups
      BY DEF Cleanup, Cleanups
    <3> HIDE DEF c
    <3> QED
      BY <1>0, <2>1, <3>1, HasAppend
  <2>5. loc[p].before = HostForward
    BY <1>restoring, <1>1, <2>1 DEF Undoable, BuildLabels, CreateLabels
  <2>6. Undoable(p)'
    BY <1>restoring, <1>1, <2>1, <2>4, <2>5 DEF Undoable, Deferred
  <2> QED
    BY <1>1, <2>1, <2>3, <2>6
<1>10. CASE KeepsRule(p)
  <2>1. /\ pc[p] = "cRuleCheck" /\ host.rules[loc[p].at] > 0
        /\ undo'[p] = undo[p] /\ host' = host /\ stateFile' = stateFile
        /\ loc'[p].n = loc[p].n /\ loc'[p].before = loc[p].before
        /\ \/ loc[p].at < RuleCount /\ pc'[p] = "cRuleCheck" /\ loc'[p].at = loc[p].at + 1
           \/ loc[p].at >= RuleCount /\ pc'[p] = "cNetnsAdd" /\ loc'[p].at = 1
    BY <1>0, <1>10 DEF KeepsRule, RuleDone, At, SetAt, Silent, Locals
  <2>2. /\ \A r \in Rules : r < loc[p].at + 1 => host.rules[r] > 0
        /\ loc[p].at >= RuleCount => \A r \in Rules : host.rules[r] > 0
        /\ host.netns \subseteq 1..loc[p].n
    <3>1. \A r \in Rules : r < loc[p].at + 1 => r < loc[p].at \/ r = loc[p].at
      BY <1>0, <1>types
    <3>2. loc[p].at >= RuleCount => \A r \in Rules : r < loc[p].at + 1
      BY <1>0, <1>types
    <3> QED
      BY <1>1, <2>1, <3>1, <3>2 DEF Made, RuleLoop, BuildLabels, CreateLabels
  <2>3. Made(p)'
    BY <1>types, <2>1, <2>2 DEF Made, RuleLoop, NodeLoop
  <2>4. Undoable(p)'
    BY <1>5, <2>1 DEF BuildLabels, CreateLabels
  <2> QED
    BY <1>1, <2>1, <2>3, <2>4
<1>11. CASE MissesRule(p)
  <2>1. /\ pc[p] = "cRuleCheck" /\ pc'[p] = "cRuleAdd" /\ loc'[p] = loc[p]
        /\ undo'[p] = undo[p] /\ host' = host /\ stateFile' = stateFile
    BY <1>11 DEF MissesRule, At, Silent
  <2>2. Made(p)'
    BY <1>1, <2>1 DEF Made, RuleLoop, NodeLoop, BuildLabels, CreateLabels
  <2>3. Undoable(p)'
    BY <1>5, <2>1 DEF BuildLabels, CreateLabels
  <2> QED
    BY <1>1, <2>1, <2>2, <2>3
<1>12. CASE AddsRule(p)
  <2> DEFINE c == Cleanup("rule", loc[p].at)
  <2>1. /\ pc[p] = "cRuleAdd" /\ stateFile' = stateFile
        /\ undo'[p] = Append(undo[p], c)
        /\ loc'[p].n = loc[p].n /\ loc'[p].before = loc[p].before
        /\ \/ loc[p].at < RuleCount /\ pc'[p] = "cRuleCheck" /\ loc'[p].at = loc[p].at + 1
           \/ loc[p].at >= RuleCount /\ pc'[p] = "cNetnsAdd" /\ loc'[p].at = 1
    BY <1>0, <1>12 DEF AddsRule, RuleDone, At, SetAt, Locals
  <2>2. /\ host'.netns = host.netns /\ host'.forward = host.forward
        /\ host'.qdisc = host.qdisc
        /\ \A r \in Rules : host'.rules[r] =
              IF r = loc[p].at THEN host.rules[r] + 1 ELSE host.rules[r]
    BY <1>0, <1>12 DEF AddsRule, RuleAdd, HostStates
  <2>3. /\ \A r \in Rules : r < loc[p].at + 1 => host'.rules[r] > 0
        /\ loc[p].at >= RuleCount => \A r \in Rules : host'.rules[r] > 0
        /\ host'.netns \subseteq 1..loc[p].n
    <3>1. \A r \in Rules : r < loc[p].at + 1 => r < loc[p].at \/ r = loc[p].at
      BY <1>0, <1>types
    <3>2. loc[p].at >= RuleCount => \A r \in Rules : r < loc[p].at + 1
      BY <1>0, <1>types
    <3>3. Made(p)
      BY <1>1, <2>1 DEF BuildLabels, CreateLabels
    <3>4. \A r \in Rules : r < loc[p].at => host.rules[r] > 0
      BY <2>1, <3>3 DEF Made, RuleLoop
    <3>5. \A r \in Rules : r < loc[p].at + 1 => host'.rules[r] > 0
      BY <1>types, <2>2, <3>1, <3>4
    <3> QED
      BY <2>2, <3>2, <3>3, <3>5 DEF Made
  <2>4. Made(p)'
    BY <1>types, <2>1, <2>3 DEF Made, RuleLoop, NodeLoop
  <2>5. \A kind, id : Has(undo'[p], kind, id) <=> Has(undo[p], kind, id) \/ c = Cleanup(kind, id)
    BY <1>0, <2>1, HasAppend DEF Cleanup, Cleanups
  <2>6. loc[p].before = HostForward
    BY <1>restoring, <1>1, <2>1 DEF Undoable, BuildLabels, CreateLabels
  <2>7. \A r \in Rules : host'.rules[r] > 0 => Has(undo'[p], "rule", r)
    BY <1>restoring, <1>1, <2>2, <2>5 DEF Undoable, Deferred
  <2>8. Undoable(p)'
    BY <1>restoring, <1>1, <2>1, <2>2, <2>5, <2>6, <2>7 DEF Undoable, Deferred
  <2> QED
    BY <1>1, <2>1, <2>2, <2>4, <2>8
<1>13. CASE AddsNetns(p)
  <2> DEFINE c == Cleanup("netns", loc[p].at)
  <2>1. /\ pc[p] = "cNetnsAdd" /\ pc'[p] = "cVethAdd" /\ loc'[p] = loc[p]
        /\ undo'[p] = Append(undo[p], c) /\ stateFile' = stateFile
        /\ host'.netns = host.netns \cup {loc[p].at} /\ host'.rules = host.rules
        /\ host'.forward = host.forward /\ host'.qdisc = host.qdisc
        /\ loc[p].at \in 1..loc[p].n
    BY <1>0, <1>13 DEF AddsNetns, At, NetnsAdd, HostStates, Indices, NodeLoop
  <2>2. Made(p)
    BY <1>1, <2>1 DEF BuildLabels, CreateLabels
  <2>3. \A i \in 1..loc[p].n : i <= loc[p].at => i < loc[p].at \/ i = loc[p].at
    BY <1>0
  <2>4. Made(p)'
    BY <2>1, <2>2, <2>3 DEF Made, RuleLoop, NodeLoop
  <2>5. \A kind, id : Has(undo'[p], kind, id) <=> Has(undo[p], kind, id) \/ c = Cleanup(kind, id)
    BY <1>0, <2>1, HasAppend DEF Cleanup, Cleanups
  <2>6. loc[p].before = HostForward
    BY <1>restoring, <1>1, <2>1 DEF Undoable, BuildLabels, CreateLabels
  <2>7. Undoable(p)'
    BY <1>restoring, <1>1, <2>1, <2>5, <2>6 DEF Undoable, Deferred
  <2> QED
    BY <1>1, <2>1, <2>4, <2>7
<1>14. CASE Wires(p)
  <2>1. /\ pc[p] \in NodeLoop \ {"cNetnsAdd"} /\ pc'[p] \in NodeLoop \ {"cNetnsAdd"}
        /\ loc'[p] = loc[p] /\ undo'[p] = undo[p] /\ stateFile' = stateFile
        /\ host'.netns = host.netns /\ host'.rules = host.rules
        /\ host'.forward = host.forward /\ host'.qdisc = host.qdisc
    BY <1>0, <1>14 DEF Wires, At, NodeLoop, VethAdd, VethMove, Enslave, Rename, HostStates
  <2>2. Made(p)'
    BY <1>1, <2>1 DEF Made, RuleLoop, NodeLoop, BuildLabels, CreateLabels
  <2>3. Undoable(p)'
    BY <1>restoring, <1>1, <2>1 DEF Undoable, Deferred, NodeLoop, BuildLabels, CreateLabels
  <2> QED
    BY <1>1, <2>1, <2>2, <2>3
<1>15. CASE NodeDone(p)
  <2>1. /\ pc[p] = "cPing" /\ undo'[p] = undo[p] /\ host' = host /\ stateFile' = stateFile
        /\ loc'[p].n = loc[p].n /\ loc'[p].before = loc[p].before
        /\ \/ pc'[p] = "cNetnsAdd" /\ loc'[p].at = loc[p].at + 1
           \/ loc[p].at >= loc[p].n /\ pc'[p] = "cSave"
    BY <1>0, <1>15 DEF NodeDone, At, SetAt, Silent, Locals
  <2>2. Made(p)
    BY <1>1, <2>1 DEF BuildLabels, CreateLabels
  <2>3. /\ \A i \in 1..loc[p].n : i < loc[p].at + 1 => i <= loc[p].at
        /\ loc[p].at >= loc[p].n => \A i \in 1..loc[p].n : i <= loc[p].at
    BY <1>0
  <2>4. Made(p)'
    BY <2>1, <2>2, <2>3 DEF Made, RuleLoop, NodeLoop
  <2>5. Undoable(p)'
    BY <1>5, <2>1 DEF BuildLabels, CreateLabels
  <2> QED
    BY <1>1, <2>1, <2>4, <2>5
<1>16. CASE Undoes(p)
  <2> DEFINE c == Last(undo[p])
  <2>1. /\ pc'[p] = "cRollback" /\ pc[p] = "cRollback" /\ loc'[p] = loc[p]
        /\ undo'[p] = Front(undo[p]) /\ stateFile' = stateFile
        /\ host' = Undone(host, c, loc[p].before)
    BY <1>16 DEF Undoes, At, Orderly
  <2>2. \A kind, id : Has(undo[p], kind, id) <=> Has(undo'[p], kind, id) \/ c = Cleanup(kind, id)
    BY <1>0, <2>1, HasFront
  <2>3. c \in Cleanups /\ c.kind # "bridge"
    BY <1>0, <1>2, <2>1, <1>16, Pop, UndoesTakes
  <2>4. c.kind \in {"forward", "rule", "netns"} /\ c.id \in Nat
        /\ c = Cleanup(c.kind, c.id)
    BY <2>3 DEF Cleanups, Cleanup
  <2>5. pc'[p] \notin BuildLabels /\ pc[p] \notin BuildLabels
    BY <2>1 DEF BuildLabels
  <2>6. /\ \A i \in host.netns : Has(undo[p], "netns", i)
        /\ \A r \in Rules : host.rules[r] > 0 => Has(undo[p], "rule", r)
        /\ host.forward # HostForward => Has(undo[p], "forward", 0)
        /\ \A id : Has(undo[p], "forward", id) => loc[p].before = HostForward
    BY <1>restoring, <1>1 DEF Undoable, Deferred
  <2>7. /\ \A i \in host'.netns : Has(undo'[p], "netns", i)
        /\ \A r \in Rules : host'.rules[r] > 0 => Has(undo'[p], "rule", r)
        /\ host'.forward # HostForward => Has(undo'[p], "forward", 0)
        /\ \A i \in Nodes : host'.qdisc[i] = {}
    <3> HIDE DEF c
    <3>1. CASE c.kind = "forward"
      <4>1. /\ host'.netns = host.netns /\ host'.rules = host.rules
            /\ host'.qdisc = host.qdisc /\ host'.forward = loc[p].before
        BY <1>0, <2>1, <3>1 DEF Undone, SetForward, HostStates
      <4>2. \A kind, id : kind # "forward" => (Has(undo[p], kind, id) <=> Has(undo'[p], kind, id))
        BY <2>2, <2>4, <3>1 DEF Cleanup
      <4>3. host'.forward = HostForward
        BY <2>2, <2>4, <2>6, <3>1, <4>1
      <4> QED
        BY <1>1, <2>6, <4>1, <4>2, <4>3
    <3>2. CASE c.kind = "rule"
      <4>0. host' = RuleDel(host, c.id)
        BY <2>1, <3>2 DEF Undone
      <4>1. /\ host'.netns = host.netns /\ host'.forward = host.forward
            /\ host'.qdisc = host.qdisc
            /\ \A r \in Rules : r # c.id => host'.rules[r] = host.rules[r]
            /\ \A r \in Rules : r = c.id =>
                  host'.rules[r] = IF host.rules[r] > 0 THEN host.rules[r] - 1 ELSE 0
        BY <1>0, <4>0 DEF RuleDel, HostStates
      <4>2. \A kind, id : kind # "rule" \/ id # c.id =>
               (Has(undo[p], kind, id) <=> Has(undo'[p], kind, id))
        BY <2>2, <2>4, <3>2 DEF Cleanup
      <4>3. \A r \in Rules : host'.rules[r] > 0 => r # c.id /\ host.rules[r] > 0
        BY <1>types, <4>1 DEF RuleOnce
      <4> QED
        BY <1>1, <2>6, <4>1, <4>2, <4>3
    <3>3. CASE c.kind = "netns"
      <4>0. host' = NetnsDel(host, c.id)
        BY <2>1, <3>3 DEF Undone
      <4>1. /\ host'.netns = host.netns \ {c.id} /\ host'.forward = host.forward
            /\ host'.rules = host.rules
            /\ \A i \in Nodes : host'.qdisc[i] \in {host.qdisc[i], {}}
        BY <1>0, <4>0 DEF NetnsDel, HostStates
      <4>2. \A kind, id : kind # "netns" \/ id # c.id =>
               (Has(undo[p], kind, id) <=> Has(undo'[p], kind, id))
        BY <2>2, <2>4, <3>3 DEF Cleanup
      <4> QED
        BY <1>1, <2>6, <4>1, <4>2
    <3> QED
      BY <2>4, <3>1, <3>2, <3>3
  <2>8. Undoable(p)'
    BY <1>restoring, <2>1, <2>2, <2>5, <2>6, <2>7 DEF Undoable, Deferred
  <2> QED
    BY <1>1, <2>1, <2>5, <2>7, <2>8
<1> QED
  BY <1>3, <1>6, <1>7, <1>8, <1>9, <1>10, <1>11, <1>12, <1>13, <1>14, <1>15, <1>16

\* The step of a create that has cleanups.
LEMMA BuildingKeepsClean ==
    ASSUME Separate, Orderly, ExclusionInv, ExclusionInv', FirstInv, RuleInv, CleanInv,
           NEW p \in Procs, CreateStep(p), Building(p)
    PROVE  CleanInv'
<1>0. /\ TypeInv /\ Stages /\ TypeInv' /\ Stages' /\ OneBuilder /\ RuleOnce
      /\ host \in HostStates /\ loc[p] \in Locals /\ undo[p] \in Seq(Cleanups)
      /\ Indices(pc[p], loc[p]) /\ BridgeFirst(undo[p]) /\ undo[p] # <<>>
      /\ host.bridge /\ pc[p] \in CreateLabels
  BY CreateDoes
  DEF ExclusionInv, Exclusion, TypeInv, MachineInv, ControlInv, Building, RuleInv, Stages, Stage
<1>1. stateFile = NoState /\ Undoable(p) /\ (pc[p] \in BuildLabels => Made(p))
  BY DEF CleanInv, BuilderInv
<1>2. pc'[p] \in CreateLabels \cup {"idle"} /\ Others(p)
  BY <1>0, CreateStays
<1>3. \A q \in Procs \ {p} : ~Building(q)'
  BY <1>0, <1>2 DEF OneBuilder, Others, Building
<1>4. \A q \in Procs \ {p} : BuilderInv(q)'
  BY <1>0, <1>3, NotBuilding
<1>5. ASSUME stateFile' = NoState \/ host'.bridge, NEW q \in Procs PROVE ReaderInv(q)'
  <2>1. ~TearingDown(q)'
    BY <1>0, NoTearDown DEF TearingDown
  <2>2. pc'[q] \in {"tNetns", "tRun"} => "create" \in SerialOps
    <3>1. CASE q = p
      BY <1>2, <3>1, Disjoint DEF ImpairLabels
    <3>2. CASE q # p
      BY <1>1, <1>2, <3>2 DEF Others, CleanInv, ReaderInv
    <3> QED
      BY <3>1, <3>2
  <2> QED
    BY <1>5, <2>1, <2>2 DEF ReaderInv
<1>6. CASE Building(p)'
  <2>1. BuilderInv(p)'
    BY <1>0, <1>6, BuilderKeepsPromise DEF CleanInv
  <2>2. stateFile' = NoState
    BY <1>6, <2>1 DEF BuilderInv
  <2>3. NobodyInv' /\ RecordedInv'
    BY <1>6, <2>2 DEF NobodyInv, RecordedInv
  <2> QED
    BY <1>4, <1>5, <2>1, <2>2, <2>3 DEF CleanInv
<1>7. CASE ~Building(p)'
  <2>0. BuilderInv(p)' /\ undo'[p] = <<>>
    BY <1>0, <1>7, NotBuilding DEF Building
  <2>1. Records(p) \/ Undoes(p)
    <3>1. \A c : Append(undo[p], c) # <<>>
      BY <1>0
    <3> QED
      BY <1>0, <2>0, <3>1, CreateDoes
      DEF Quits, Aborts, Looks, AddsBridge, SetsBridge, ReadsForward, SetsForward,
          KeepsRule, MissesRule, AddsRule, RuleDone, AddsNetns, Wires, NodeDone, At
  <2>2. CASE Records(p)
    <3>1. /\ pc[p] = "cSave" /\ host' = host
          /\ stateFile' = [nodes |-> loc[p].n, forward |-> loc[p].before]
      BY <2>2 DEF Records
    <3>2. /\ pc[p] \in BuildLabels \ {"cSetBridge", "cReadForward"}
          /\ loc[p].n \in Nodes /\ loc[p].before \in {0, 1}
      BY <1>0, <3>1 DEF BuildLabels, CreateLabels, Indices, Locals
    <3>3. stateFile' # NoState
      BY <3>1, <3>2, LabAssumption DEF State
    <3>4. loc[p].before = HostForward /\ host.netns \subseteq 1..loc[p].n
      BY <1>1, <3>2 DEF Undoable, Made
    <3>5. NobodyInv' /\ RecordedInv'
      BY <3>1, <3>3, <3>4 DEF NobodyInv, RecordedInv
    <3> QED
      BY <1>0, <1>4, <1>5, <2>0, <3>1, <3>5 DEF CleanInv
  <2>3. CASE Undoes(p)
    <3>1. /\ Front(undo[p]) = <<>> /\ stateFile' = NoState
          /\ host' = Undone(host, Last(undo[p]), loc[p].before)
      BY <1>1, <2>0, <2>3 DEF Undoes, At, Orderly
    <3>2. Last(undo[p]).kind = "bridge"
      BY <1>0, <3>1, Pop
    <3>3. host' = BridgeDel(host)
      BY <3>1, <3>2 DEF Undone
    <3>4. \A kind, id : kind # "bridge" => ~Has(undo[p], kind, id)
      <4>1. \A kind, id : ~Has(Front(undo[p]), kind, id)
        BY <3>1 DEF Has
      <4>2. \A kind, id : Last(undo[p]) = Cleanup(kind, id) => kind = "bridge"
        BY <3>2 DEF Cleanup
      <4> QED
        BY <1>0, <4>1, <4>2, HasFront
    <3>5. host.netns = {} /\ host.forward = HostForward
          /\ \A r \in Rules : ~(host.rules[r] > 0)
      BY <1>1, <3>4 DEF Undoable, Deferred
    <3>6. Untouched'
      BY <1>0, <3>3, <3>5 DEF Untouched, BridgeDel, HostStates
    <3>7. NobodyInv' /\ RecordedInv'
      BY <3>1, <3>6 DEF NobodyInv, RecordedInv
    <3> QED
      BY <1>4, <1>5, <2>0, <3>1, <3>7 DEF CleanInv
  <2> QED
    BY <2>1, <2>2, <2>3
<1> QED
  BY <1>6, <1>7

\* The step of a destroy: nobody builds, and what it forgets is gone.
LEMMA DestroyKeepsClean ==
    ASSUME Separate, ExclusionInv, ExclusionInv', TearInv, CleanInv,
           NEW p \in Procs, DestroyStep(p)
    PROVE  CleanInv'
<1>0. /\ TypeInv /\ TypeInv' /\ Stages' /\ host \in HostStates /\ host' \in HostStates
      /\ pc[p] \in DestroyLabels /\ loc[p] \in Locals /\ Indices(pc[p], loc[p])
      /\ stateFile \in State \cup {NoState}
  BY DestroyDoes DEF ExclusionInv, TypeInv, MachineInv, ControlInv
<1>types. \A r \in Rules : host.rules[r] \in Nat /\ host'.rules[r] \in Nat
  BY <1>0 DEF HostStates
<1>1. /\ Less(host', host) /\ Others(p)
      /\ \/ host'.forward = host.forward
         \/ RestoresForward(p) /\ host'.forward = loc[p].seen.forward
      /\ stateFile' = stateFile \/ Forgets(p)
  BY <1>0, DestroyTakes
<1>2. \A q \in Procs : /\ ~Building(q) /\ ~Building(q)'
                       /\ pc'[q] \notin CreateLabels
  BY NoBuildUp
<1>3. \A q \in Procs : BuilderInv(q)'
  BY <1>0, <1>2, NotBuilding
<1>4. RestoresForward(p) \/ Forgets(p) =>
        /\ TearingDown(p) /\ Torn(p)
        /\ loc[p].seen.forward = HostForward /\ loc[p].seen \in State
  BY <1>0 DEF RestoresForward, Forgets, TearingDown, DestroyLabels, RecordedLabels, Indices,
     TearInv, CleanInv, ReaderInv, Locals
<1>5. stateFile = NoState => Untouched
  BY <1>2 DEF CleanInv, NobodyInv
<1>6. Forgets(p) => Untouched
  <2>1. CASE stateFile # NoState
    <3>1. ASSUME Forgets(p) PROVE Untouched
      <4>1. /\ stateFile = loc[p].seen /\ ~host.bridge /\ host.forward = HostForward
            /\ \A r \in Rules : host.rules[r] = 0
            /\ \A i \in host.netns : i > loc[p].seen.nodes
        BY <1>4, <2>1, <3>1 DEF Forgets, Torn, AfterBridge
      <4>2. host.netns \subseteq 1..loc[p].seen.nodes /\ loc[p].seen.nodes \in Nat
        BY <1>4, <2>1, <3>1, <4>1, HostAssumption DEF CleanInv, RecordedInv, State, Nodes
      <4>3. host.netns = {}
        BY <4>1, <4>2
      <4> QED
        BY <4>1, <4>3 DEF Untouched
    <3> QED
      BY <3>1
  <2> QED
    BY <1>5, <2>1
<1>7. Untouched => Untouched'
  BY <1>types, <1>1, <1>4 DEF Untouched, Less
<1>8. NobodyInv'
  BY <1>1, <1>5, <1>6, <1>7 DEF NobodyInv, Forgets
<1>9. RecordedInv'
  BY <1>1 DEF CleanInv, RecordedInv, Less, Forgets
<1>10. ASSUME NEW q \in Procs PROVE ReaderInv(q)'
  <2>1. TearingDown(q)' => loc'[q].seen.forward = HostForward
    <3>1. CASE q # p
      BY <1>1, <3>1 DEF Others, TearingDown, CleanInv, ReaderInv
    <3>2. CASE q = p
      <4>1. CASE Loads(p)
        BY <1>0, <4>1, <3>2 DEF Loads, At, TearingDown, CleanInv, RecordedInv, Locals
      <4>2. CASE Leaves(p) \/ Forgets(p)
        BY <3>2, <4>2, Disjoint DEF Leaves, Forgets, At, TearingDown
      <4>3. ASSUME ~Loads(p), ~Leaves(p), ~Forgets(p)
            PROVE  loc'[p].seen = loc[p].seen /\ pc[p] # "dLoad"
        BY <1>0, <4>3, DestroyDoes
        DEF At, DeletesNetns, Proceeds, FindsNoBridge, DeletesPeer, DeletesBridge, SetAt,
            FindsNoRule, DeletesRule, RestoresForward, Locals
      <4>4. CASE ~Loads(p) /\ ~Leaves(p) /\ ~Forgets(p)
        BY <1>0, <3>2, <4>3, <4>4 DEF TearingDown, CleanInv, ReaderInv
      <4> QED
        BY <4>1, <4>2, <4>4
    <3> QED
      BY <3>1, <3>2
  <2>2. pc'[q] \notin {"cBridge", "cNetns", "cAddBridge"}
    BY <1>2 DEF CreateLabels
  <2>3. pc'[q] \in {"tNetns", "tRun"} => stateFile' # NoState \/ "create" \in SerialOps
    <3>1. CASE q = p
      BY <1>0, <3>1, DestroyStays, Disjoint DEF ImpairLabels
    <3>2. CASE q # p /\ pc[q] \in {"tNetns", "tRun"}
      <4>1. pc[q] # "idle"
        BY <3>2
      <4>2. loc[p].op = "destroy"
        BY <1>0 DEF ExclusionInv, Stages, Stage
      <4>3. "destroy" \notin SerialOps
        BY <3>2, <4>1, <4>2 DEF ExclusionInv, Exclusion
      <4> QED
        BY <4>3 DEF Separate
    <3> QED
      BY <1>1, <3>1, <3>2 DEF Others
  <2> QED
    BY <2>1, <2>2, <2>3 DEF ReaderInv
<1> QED
  BY <1>3, <1>8, <1>9, <1>10 DEF CleanInv

LEMMA PartsKept ==
    ASSUME TypeInv,
           \/ \E p \in Procs : ImpairStep(p) \/ Begin(p) \/ Crash(p)
           \/ UNCHANGED vars \/ \E i \in Nodes : Drain(i)
    PROVE  SameParts
<1>0. host \in HostStates
  BY DEF TypeInv, MachineInv
<1>1. ASSUME NEW p \in Procs, ImpairStep(p) PROVE SameParts
  BY <1>0, <1>1, ImpairDoes DEF Impairs, ImpairsNothing, Silent, Netem, HostStates, SameParts
<1>2. ASSUME NEW p \in Procs, Begin(p) \/ Crash(p) PROVE SameParts
  BY <1>0, <1>2, BeginDoes DEF Starts, Leaves, Silent, SameParts
<1>3. ASSUME UNCHANGED vars PROVE SameParts
  BY <1>3 DEF vars, SameParts
<1>4. ASSUME NEW i \in Nodes, Drain(i) PROVE SameParts
  BY <1>0, <1>4 DEF Drain, PeerDel, HostStates, SameParts
<1> QED
  BY <1>1, <1>2, <1>3, <1>4

\* No tc runs while somebody builds.
LEMMA NoTcBesideBuilder ==
    ASSUME TypeInv, Stages, Exclusion, CleanInv, NEW p \in Procs, Impairs(p),
           NEW q \in Procs
    PROVE  ~Building(q)
<1> SUFFICES ASSUME Building(q) PROVE FALSE
  OBVIOUS
<1>1. pc[p] = "tRun" /\ stateFile = NoState
  BY DEF Impairs, CleanInv, BuilderInv
<1>2. "create" \in SerialOps
  BY <1>1 DEF CleanInv, ReaderInv
<1>3. loc[q].op = "create" /\ q # p
  BY <1>1, BuilderCreates DEF Stages, Stage, CreateLabels
<1> QED
  BY <1>1, <1>2, <1>3 DEF Exclusion

\* Neither an impairment nor the start of an invocation has cleanups.
LEMMA OthersDoNotBuild ==
    ASSUME Orderly, ExclusionInv, NEW p \in Procs, ImpairStep(p) \/ Begin(p) \/ Crash(p)
    PROVE  ~Building(p) /\ ~Building(p)'
<1>0. TypeInv /\ Stages /\ crashes = 0
  BY DEF ExclusionInv, TypeInv, MachineInv, Orderly
<1>1. ImpairStep(p) => pc[p] \in ImpairLabels
  BY <1>0, ImpairDoes
<1>2. Begin(p) \/ Crash(p) => pc[p] = "idle"
  BY <1>0, BeginDoes DEF Starts
<1>3. undo[p] = <<>>
  BY <1>0, <1>1, <1>2, Disjoint, BuilderCreates DEF Building
<1>4. undo'[p] \in {undo[p], <<>>}
  BY <1>0, ImpairDoes, BeginDoes DEF Impairs, ImpairsNothing, Starts, Leaves, At
<1> QED
  BY <1>3, <1>4 DEF Building

\* An impairment, the start of an invocation, or a kill, if there were any.
LEMMA OthersKeepClean ==
    ASSUME Orderly, ExclusionInv, ExclusionInv', CleanInv,
           NEW p \in Procs, ImpairStep(p) \/ Begin(p) \/ Crash(p)
    PROVE  CleanInv'
<1>0. /\ TypeInv /\ Stages /\ Exclusion /\ TypeInv' /\ Stages' /\ host \in HostStates
      /\ crashes = 0
  BY DEF ExclusionInv, TypeInv, MachineInv, Orderly
<1>1. SameParts /\ stateFile' = stateFile /\ Others(p)
  BY <1>0, PartsKept, OtherStepsTake
<1>2. ~Building(p) /\ ~Building(p)'
  BY OthersDoNotBuild
<1>3. \A q \in Procs : Building(q)' <=> Building(q)
  BY <1>1, <1>2 DEF Others, Building
<1>4. NobodyInv' /\ RecordedInv'
  BY <1>1, <1>3 DEF CleanInv, NobodyInv, RecordedInv, Untouched, SameParts
<1>5. ASSUME NEW q \in Procs PROVE BuilderInv(q)' /\ ReaderInv(q)'
  <2>1. CASE q = p
    <3>1. BuilderInv(p)'
      BY <1>0, <1>2, NotBuilding
    <3>2. pc'[p] \in {"idle", "cLoad", "dLoad"} \cup ImpairLabels
      BY <1>0, OthersStay
    <3>3. ~TearingDown(p)' /\ pc'[p] \notin {"cBridge", "cNetns", "cAddBridge"}
      BY <3>2, Disjoint DEF TearingDown, ImpairLabels
    <3>4. pc'[p] \in {"tNetns", "tRun"} =>
              stateFile # NoState \/ pc[p] \in {"tNetns", "tRun"}
      BY <1>0, ImpairDoes, BeginDoes DEF Impairs, ImpairsNothing, Starts, Leaves, At
    <3> QED
      BY <1>1, <2>1, <3>1, <3>3, <3>4 DEF CleanInv, ReaderInv
  <2>2. CASE q # p
    <3>1. pc'[q] = pc[q] /\ undo'[q] = undo[q] /\ loc'[q] = loc[q]
      BY <1>1, <2>2 DEF Others
    <3>2. Building(q) => host' = host
      BY <1>0, ImpairDoes, BeginDoes, NoTcBesideBuilder
      DEF ImpairsNothing, Starts, Leaves, Silent
    <3>3. Building(q) => \A i \in Nodes : host'.qdisc[i] = {}
      BY <3>2 DEF CleanInv, BuilderInv
    <3>4. BuilderInv(q) /\ ReaderInv(q)
      BY DEF CleanInv
    <3>5. BuilderInv(q)'
      BY <1>1, <3>1, <3>3, <3>4, BuilderStays
    <3>6. ReaderInv(q)'
      BY <1>1, <3>1, <3>4, ReaderStays DEF SameParts
    <3> QED
      BY <3>5, <3>6
  <2> QED
    BY <2>1, <2>2
<1> QED
  BY <1>4, <1>5 DEF CleanInv

LEMMA IdleKeepsClean ==
    ASSUME ExclusionInv, CleanInv, UNCHANGED vars \/ \E i \in Nodes : Drain(i)
    PROVE  CleanInv'
<1>0. TypeInv /\ host \in HostStates
  BY DEF ExclusionInv, TypeInv, MachineInv
<1>1. SameParts /\ UNCHANGED <<stateFile, pc, undo, loc>>
  BY <1>0, PartsKept, IdleStepsTake
<1>2. \A i \in Nodes : host'.qdisc[i] \in {host.qdisc[i], {}}
  <2>1. CASE UNCHANGED vars
    BY <2>1 DEF vars
  <2>2. ASSUME NEW j \in Nodes, Drain(j)
        PROVE  \A i \in Nodes : host'.qdisc[i] \in {host.qdisc[i], {}}
    BY <1>0, <2>2 DEF Drain, PeerDel, HostStates
  <2> QED
    BY <2>1, <2>2
<1>3. NobodyInv' /\ RecordedInv'
  BY <1>1 DEF CleanInv, NobodyInv, RecordedInv, Untouched, SameParts, Building
<1>4. ASSUME NEW q \in Procs PROVE BuilderInv(q)' /\ ReaderInv(q)'
  <2>1. BuilderInv(q) /\ ReaderInv(q)
    BY DEF CleanInv
  <2>2. Building(q) => \A i \in Nodes : host'.qdisc[i] = {}
    BY <1>2, <2>1 DEF BuilderInv
  <2> QED
    BY <1>1, <2>1, <2>2, BuilderStays, ReaderStays DEF SameParts
<1> QED
  BY <1>3, <1>4 DEF CleanInv

-----------------------------------------------------------------------------
(* The theorems.                                                           *)

\* What holds however many processes are killed and rollbacks fail.
RecordInv == ExclusionInv /\ HostInv /\ FirstInv /\ RuleInv /\ TearInv

LEMMA InitRecord == Init => RecordInv
<1> SUFFICES ASSUME Init PROVE RecordInv
  OBVIOUS
<1>1. ExclusionInv
  BY InitExclusion
<1>2. HostInv
  BY DEF Init, HostInv, Consistent, UntouchedHost
<1>3. FirstInv /\ TearInv
  BY DEF Init, FirstInv, BeforeLoops, TearInv, TearingDown, DestroyLabels, RecordedLabels,
     FallbackLabels, SharedLabels
<1>4. RuleInv
  BY DEF Init, RuleInv, RuleOnce, UntouchedHost, OwnRules
<1> QED
  BY <1>1, <1>2, <1>3, <1>4 DEF RecordInv

LEMMA RecordPreserved ==
    ASSUME Separate, RecordInv, [Next]_vars
    PROVE  RecordInv'
<1> USE DEF RecordInv
<1>1. ExclusionInv'
  BY ExclusionPreserved
<1>2. TypeInv /\ Stages
  BY DEF ExclusionInv
<1> QED
  BY <1>1, <1>2, HostKept, FirstKept, RulesKept, TearKept

LEMMA CleanPreserved ==
    ASSUME Separate, Orderly, RecordInv, CleanInv, [Next]_vars
    PROVE  CleanInv'
<1> USE DEF RecordInv
<1>0. ExclusionInv'
  BY ExclusionPreserved
<1>1. ASSUME NEW p \in Procs, CreateStep(p) PROVE CleanInv'
  BY <1>0, <1>1, FoundingKeepsClean, BuildingKeepsClean
<1>2. ASSUME NEW p \in Procs, DestroyStep(p) PROVE CleanInv'
  BY <1>0, <1>2, DestroyKeepsClean
<1>3. ASSUME NEW p \in Procs, ImpairStep(p) \/ Begin(p) \/ Crash(p) PROVE CleanInv'
  BY <1>0, <1>3, OthersKeepClean
<1>4. ASSUME UNCHANGED vars \/ \E i \in Nodes : Drain(i) PROVE CleanInv'
  BY <1>4, IdleKeepsClean
<1> QED
  BY <1>1, <1>2, <1>3, <1>4 DEF Next, Step

\* Only `ip link add` puts a pair into the root namespace.
NoNewPair(g, h) == \A i \in Nodes : g.veth[i] = "host" => h.veth[i] = "host"

LEMMA PairCommands ==
    ASSUME NEW h \in HostStates, NEW i \in Nat
    PROVE  /\ NoNewPair(h, h)
           /\ NoNewPair(BridgeAdd(h), h) /\ NoNewPair(BridgeDel(h), h)
           /\ NoNewPair(PeerDel(h, i), h)
           /\ NoNewPair(NetnsAdd(h, i), h) /\ NoNewPair(NetnsDel(h, i), h)
           /\ NoNewPair(RuleAdd(h, i), h) /\ NoNewPair(RuleDel(h, i), h)
           /\ NoNewPair(Enslave(h, i), h) /\ NoNewPair(Rename(h, i), h)
           /\ \A v : NoNewPair(SetForward(h, v), h)
           /\ \A f : NoNewPair(Netem(h, i, f), h)
<1> USE DEF HostStates, NoNewPair
<1>1. /\ NoNewPair(h, h)
      /\ NoNewPair(BridgeAdd(h), h) /\ NoNewPair(BridgeDel(h), h)
      /\ NoNewPair(PeerDel(h, i), h)
  BY DEF BridgeAdd, BridgeDel, PeerDel
<1>2. NoNewPair(NetnsAdd(h, i), h) /\ NoNewPair(NetnsDel(h, i), h)
  BY DEF NetnsAdd, NetnsDel
<1>3. NoNewPair(RuleAdd(h, i), h) /\ NoNewPair(RuleDel(h, i), h)
  BY DEF RuleAdd, RuleDel
<1>4. NoNewPair(Enslave(h, i), h) /\ NoNewPair(Rename(h, i), h)
  BY DEF Enslave, Rename
<1>5. (\A v : NoNewPair(SetForward(h, v), h)) /\ \A f : NoNewPair(Netem(h, i, f), h)
  BY DEF SetForward, Netem
<1> QED
  BY <1>1, <1>2, <1>3, <1>4, <1>5

\* A pair that is in the root namespace after a step of p was there before, or
\* p has just added it; p does not leave one there that it was to move.
LEMMA PairStep ==
    ASSUME PairInv, NEW p \in Procs, Others(p),
           pc[p] = "cVethMove" /\ loc[p].at \in Nodes => host'.veth[loc[p].at] # "host",
           \A i \in Nodes : host'.veth[i] = "host" =>
               \/ host.veth[i] = "host"
               \/ pc'[p] = "cVethMove" /\ loc'[p].at = i
    PROVE  PairInv'
<1> SUFFICES ASSUME NEW i \in Nodes, host'.veth[i] = "host", host.veth[i] = "host"
             PROVE  \E q \in Procs : pc'[q] = "cVethMove" /\ loc'[q].at = i
  BY DEF PairInv
<1>1. PICK q \in Procs : pc[q] = "cVethMove" /\ loc[q].at = i
  BY DEF PairInv
<1>2. q # p
  BY <1>1
<1> QED
  BY <1>1, <1>2 DEF Others

LEMMA CreateKeepsPairs ==
    ASSUME TypeInv, Stages, PairInv, NEW p \in Procs, CreateStep(p)
    PROVE  PairInv'
<1>0. /\ host \in HostStates /\ undo[p] \in Seq(Cleanups)
      /\ loc[p].at \in Nat /\ Indices(pc[p], loc[p])
  BY DEF TypeInv, MachineInv, ControlInv, Locals
<1>1. CASE Aborts(p) \/ Wires(p)
  <2> DEFINE i == loc[p].at
  <2>1. Others(p) /\ (pc[p] = "cVethMove" => host'.veth[i] # "host" \/ i \notin Nodes)
    BY <1>0, <1>1 DEF Aborts, Wires, At, HostStates, VethMove, VethLeft
  <2>2. CASE pc[p] = "cVethAdd" /\ Wires(p)
    <3>1. /\ \A j \in Nodes : j # i => host'.veth[j] = host.veth[j]
          /\ pc'[p] = "cVethMove" /\ loc'[p].at = i
      BY <1>0, <2>2 DEF Wires, At, HostStates, VethAdd
    <3> QED
      BY <2>1, <2>2, <3>1, PairStep
  <2>3. CASE ~(pc[p] = "cVethAdd" /\ Wires(p))
    <3>1. \A j \in Nodes : host'.veth[j] = "host" => host.veth[j] = "host"
      BY <1>0, <1>1, <2>3, PairCommands
      DEF Aborts, Wires, HostStates, VethMove, VethLeft, NoNewPair
    <3> QED
      BY <2>1, <3>1, PairStep
  <2> QED
    BY <2>2, <2>3
<1>2. CASE ~(Aborts(p) \/ Wires(p))
  <2>1. Others(p) /\ pc[p] # "cVethMove"
    BY <1>2, CreateDoes
    DEF Quits, Looks, AddsBridge, SetsBridge, ReadsForward, SetsForward, KeepsRule,
        MissesRule, AddsRule, RuleDone, AddsNetns, NodeDone, Records, Undoes, At, Stages,
        Stage, BuildLabels, CreateLabels
  <2>2. NoNewPair(host', host)
    <3>1. CASE Undoes(p)
      <4>1. Last(undo[p]) \in Cleanups
        BY <1>0, <3>1 DEF Undoes, Last
      <4>2. Last(undo[p]).kind \in {"bridge", "forward", "rule", "netns"}
            /\ Last(undo[p]).id \in Nat
        BY <4>1 DEF Cleanups
      <4> QED
        BY <1>0, <3>1, <4>2, PairCommands DEF Undoes, Undone
    <3>2. CASE ~Undoes(p)
      BY <1>0, <1>2, <3>2, CreateDoes, PairCommands
      DEF Quits, Looks, AddsBridge, SetsBridge, ReadsForward, SetsForward, KeepsRule,
          MissesRule, AddsRule, AddsNetns, NodeDone, Records, Silent
    <3> QED
      BY <3>1, <3>2
  <2> QED
    BY <2>1, <2>2, PairStep DEF NoNewPair
<1> QED
  BY <1>1, <1>2

\* If nobody is killed, no pair waits in the root namespace for a move that
\* nobody is about to make.
LEMMA PairKept ==
    ASSUME TypeInv, Stages, Orderly, PairInv, [Next]_vars
    PROVE  PairInv'
<1>0. host \in HostStates /\ crashes = 0
  BY LabAssumption DEF TypeInv, MachineInv, Orderly
<1>1. ASSUME NEW p \in Procs, Others(p), pc[p] # "cVethMove", NoNewPair(host', host)
      PROVE  PairInv'
  BY <1>1, PairStep DEF NoNewPair
<1>2. ASSUME NEW p \in Procs, DestroyStep(p) PROVE PairInv'
  <2>0. loc[p].at \in Nat
    BY DEF TypeInv, ControlInv, Locals
  <2>1. Others(p) /\ pc[p] # "cVethMove"
    BY <1>2, DestroyDoes, DestroyTakes DEF DestroyLabels, RecordedLabels, FallbackLabels,
       SharedLabels
  <2>2. CASE DeletesPeer(p)
    BY <1>0, <1>1, <2>1, <2>2, PairCommands, HostAssumption DEF DeletesPeer, Nodes
  <2>3. CASE ~DeletesPeer(p)
    <3>1. NoNewPair(host', host)
      BY <1>0, <1>2, <2>0, <2>3, DestroyDoes, PairCommands
      DEF Leaves, Loads, DeletesNetns, Proceeds, FindsNoBridge, DeletesBridge, FindsNoRule,
          DeletesRule, RestoresForward, Forgets, Silent
    <3> QED
      BY <1>1, <2>1, <3>1
  <2> QED
    BY <2>2, <2>3
<1>3. ASSUME NEW p \in Procs, ImpairStep(p) PROVE PairInv'
  <2>0. loc[p].n \in Nat
    BY DEF TypeInv, ControlInv, Locals
  <2>1. Others(p) /\ pc[p] # "cVethMove" /\ NoNewPair(host', host)
    BY <1>0, <1>3, <2>0, ImpairDoes, PairCommands
    DEF ImpairsNothing, Impairs, Silent, At, ImpairLabels
  <2> QED
    BY <1>1, <2>1
<1>4. ASSUME NEW p \in Procs, Begin(p) \/ Crash(p) PROVE PairInv'
  <2>1. Others(p) /\ pc[p] = "idle" /\ host' = host
    BY <1>0, <1>4, BeginDoes DEF Starts, Leaves, Silent, At
  <2> QED
    BY <1>0, <1>1, <2>1, PairCommands, HostAssumption
<1>5. ASSUME UNCHANGED vars \/ \E i \in Nodes : Drain(i) PROVE PairInv'
  <2>1. NoNewPair(host', host) /\ UNCHANGED <<pc, loc>>
    BY <1>0, <1>5, PairCommands, HostAssumption DEF vars, Drain, Nodes
  <2> QED
    BY <2>1 DEF PairInv, NoNewPair
<1> QED
  BY <1>2, <1>3, <1>4, <1>5, CreateKeepsPairs DEF Next, Step

LEMMA InitClean == Orderly /\ Init => CleanInv
<1> SUFFICES ASSUME Orderly, Init PROVE CleanInv
  OBVIOUS
<1>1. NobodyInv /\ RecordedInv
  BY HostAssumption DEF Orderly, Init, NobodyInv, RecordedInv, Untouched, UntouchedHost, OwnRules
<1>2. \A p \in Procs : BuilderInv(p) /\ ReaderInv(p)
  BY DEF Init, BuilderInv, ReaderInv, Building, TearingDown, BuildLabels, CreateLabels,
     DestroyLabels, RecordedLabels, FallbackLabels, SharedLabels
<1> QED
  BY <1>1, <1>2 DEF CleanInv

\* The state file goes only when all it records is torn down, whatever failed
\* or was killed, if no destroy runs beside a create.
THEOREM ForgetLastCorrect ==
    ASSUME Separate
    PROVE  Spec => ForgetLast
<1>1. ASSUME RecordInv, [Next]_vars
      PROVE  [stateFile # NoState /\ stateFile' = NoState => TornDown(stateFile)]_vars
  <2> SUFFICES ASSUME stateFile # NoState, stateFile' = NoState, Next
               PROVE  TornDown(stateFile)
    BY <1>1 DEF vars
  <2>0. TypeInv /\ Stages
    BY <1>1 DEF RecordInv, ExclusionInv
  <2>1. PICK p \in Procs : CreateStep(p) \/ DestroyStep(p)
    <3>1. ASSUME NEW p \in Procs, ImpairStep(p) \/ Begin(p) \/ Crash(p) PROVE FALSE
      BY <2>0, <3>1, OtherStepsTake
    <3>2. ASSUME NEW i \in Nodes, Drain(i) PROVE FALSE
      BY <3>2 DEF Drain
    <3> QED
      BY <3>1, <3>2 DEF Next, Step
  <2>2. ASSUME CreateStep(p) PROVE FALSE
    <3>1. stateFile' = stateFile \/ Records(p)
      BY <2>0, <2>2, CreateDoes
      DEF Silent, Quits, Aborts, Looks, AddsBridge, SetsBridge, ReadsForward, SetsForward,
          KeepsRule, MissesRule, AddsRule, AddsNetns, Wires, NodeDone, Undoes
    <3>2. Records(p) => stateFile' \in State
      BY <2>0 DEF Records, TypeInv, ControlInv, Indices, Locals, State, CreateLabels
    <3> QED
      BY <3>1, <3>2, LabAssumption
  <2>3. Forgets(p)
    BY <2>0, <2>1, <2>2, DestroyTakes
  <2>4. Torn(p) /\ stateFile = loc[p].seen /\ pc[p] = "dForget"
    BY <1>1, <2>0, <2>3 DEF Forgets, RecordInv, TearInv, TearingDown, Torn, TypeInv,
       ControlInv, Indices, DestroyLabels, RecordedLabels
  <2>5. stateFile.nodes \in Nat /\ host.netns \subseteq Nat
    BY <2>0, HostAssumption DEF TypeInv, MachineInv, State, Nodes, HostStates
  <2> QED
    BY <2>4, <2>5 DEF Torn, TornDown, AfterBridge
<1>2. RecordInv /\ [Next]_vars => RecordInv'
  BY RecordPreserved
<1> QED
  BY <1>1, <1>2, InitRecord, PTL DEF Spec, ForgetLast

\* No rule is ever there twice, if no destroy runs beside a create.
THEOREM RuleOnceCorrect ==
    ASSUME Separate
    PROVE  Spec => []RuleOnce
<1>1. RecordInv => RuleOnce
  BY DEF RecordInv, RuleInv
<1>2. RecordInv /\ [Next]_vars => RecordInv'
  BY RecordPreserved
<1> QED
  BY <1>1, <1>2, InitRecord, PTL DEF Spec

\* Nothing exists beside the recorded lab, if creates run alone: whatever is
\* killed, and whatever fails in a rollback.
THEOREM NothingBesideRecordCorrect ==
    ASSUME "create" \in SerialOps
    PROVE  Spec => []NothingBesideRecord
<1>0. Separate
  BY DEF Separate
<1>1. Init => RecordInv /\ AloneInv
  <2>1. Init => AloneInv
    BY DEF Init, AloneInv, CreateLabels, BuildLabels
  <2> QED
    BY <2>1, InitRecord
<1>2. RecordInv /\ AloneInv /\ [Next]_vars => RecordInv' /\ AloneInv'
  BY <1>0, RecordPreserved, AloneKept DEF RecordInv
<1>3. RecordInv /\ AloneInv => NothingBesideRecord
  <2> SUFFICES ASSUME RecordInv, AloneInv, stateFile # NoState
               PROVE  /\ host.netns \cup host.ports \subseteq 1..stateFile.nodes
                      /\ \A i \in Nodes : host.qdisc[i] # {} => i \in 1..stateFile.nodes
    BY DEF NothingBesideRecord
  <2>1. host.netns \cup host.ports \subseteq 1..stateFile.nodes
    BY DEF AloneInv
  <2>2. \A i \in Nodes : host.qdisc[i] # {} => i \in host.netns
    BY DEF RecordInv, HostInv, Consistent
  <2> QED
    BY <2>1, <2>2
<1> QED
  BY <1>1, <1>2, <1>3, PTL DEF Spec

\* With nobody killed, what no state file records is undone, whichever step
\* failed and whatever ran beside it: the host is as it was found, but for a veth
\* pair whose move failed and for what the kernel is still deleting.
THEOREM UnrecordedIsRestoredCorrect ==
    ASSUME Separate, Orderly
    PROVE  Spec => []UnrecordedIsRestored
<1>1. RecordInv /\ CleanInv /\ PairInv => UnrecordedIsRestored
  <2> SUFFICES ASSUME RecordInv, CleanInv, PairInv, stateFile = NoState,
                      \A p \in Procs : ~Building(p) /\ ~Destroying(p)
               PROVE  Restored
    BY DEF UnrecordedIsRestored
  <2>1. Untouched
    BY DEF CleanInv, NobodyInv
  <2>2. host.ports = {} /\ \A i \in Nodes : host.qdisc[i] = {}
    BY <2>1 DEF RecordInv, HostInv, Consistent, Untouched
  <2>3. host.rules = OwnRules
    BY <2>1 DEF RecordInv, ExclusionInv, TypeInv, MachineInv, HostStates, Untouched, OwnRules,
       Orderly
  <2>4. ASSUME NEW p \in Procs PROVE pc[p] # "cVethMove"
    BY DEF RecordInv, ExclusionInv, Stages, Stage, Building, BuildLabels, CreateLabels
  <2>5. ASSUME NEW i \in Nodes
        PROVE  i \notin host.eth0 /\ host.veth[i] \in {"none", "dying", "left"}
    <3>1. host.veth[i] \in VethStates
      BY DEF RecordInv, ExclusionInv, TypeInv, MachineInv, HostStates
    <3>2. host.veth[i] # "host"
      BY <2>4 DEF PairInv
    <3>3. host.veth[i] # "moved" /\ i \notin host.eth0
      BY <2>1 DEF RecordInv, HostInv, Consistent, Untouched
    <3> QED
      BY <3>1, <3>2, <3>3 DEF VethStates
  <2>6. host.eth0 = {}
    BY <2>5 DEF RecordInv, ExclusionInv, TypeInv, MachineInv, HostStates
  <2> QED
    BY <2>1, <2>2, <2>3, <2>5, <2>6 DEF Restored, Untouched
<1>2. RecordInv /\ CleanInv /\ PairInv /\ [Next]_vars => RecordInv' /\ CleanInv' /\ PairInv'
  BY RecordPreserved, CleanPreserved, PairKept DEF RecordInv, ExclusionInv
<1>3. Init => RecordInv /\ CleanInv /\ PairInv
  BY InitRecord, InitClean DEF Init, UntouchedHost, PairInv
<1> QED
  BY <1>1, <1>2, <1>3, PTL DEF Spec

\* With nobody killed, the ip_forward a state file records is the host's own.
THEOREM RecordedForwardCorrect ==
    ASSUME Separate, Orderly
    PROVE  Spec => []RecordedForwardIsOriginal
<1>1. CleanInv => RecordedForwardIsOriginal
  BY DEF CleanInv, RecordedInv, RecordedForwardIsOriginal
<1>2. RecordInv /\ CleanInv /\ [Next]_vars => RecordInv' /\ CleanInv'
  BY RecordPreserved, CleanPreserved
<1>3. Init => RecordInv /\ CleanInv
  BY InitRecord, InitClean
<1> QED
  BY <1>1, <1>2, <1>3, PTL DEF Spec

\* With nobody killed, an impairment never outlives the record that lets
\* `impair clear` reach it.
THEOREM NoStuckQdiscCorrect ==
    ASSUME Separate, Orderly
    PROVE  Spec => []NoStuckQdisc
<1>1. RecordInv /\ CleanInv => NoStuckQdisc
  <2> SUFFICES ASSUME RecordInv, CleanInv, NEW i \in Nodes, host.qdisc[i] # {}
               PROVE  Lists(stateFile, i)
    BY DEF NoStuckQdisc
  <2>1. i \in host.netns
    BY DEF RecordInv, HostInv, Consistent
  <2>2. \A p \in Procs : ~Building(p)
    BY DEF CleanInv, BuilderInv
  <2>3. stateFile # NoState
    BY <2>1, <2>2 DEF CleanInv, NobodyInv, Untouched
  <2> QED
    BY <2>1, <2>3 DEF CleanInv, RecordedInv, Lists
<1>2. RecordInv /\ CleanInv /\ [Next]_vars => RecordInv' /\ CleanInv'
  BY RecordPreserved, CleanPreserved
<1>3. Init => RecordInv /\ CleanInv
  BY InitRecord, InitClean
<1> QED
  BY <1>1, <1>2, <1>3, PTL DEF Spec

-----------------------------------------------------------------------------
(* Lab implements LabLifecycle.                                            *)

Somebody == \E p \in Procs : Building(p)
Recorded == IF stateFile = NoState THEN 0 ELSE stateFile.nodes

\* What the pieces are, before and after a step.
LEMMA PiecesAre ==
    ASSUME host \in HostStates, host' \in HostStates
    PROVE  \A x :
           /\ x \in Pieces <=>
                \/ x = <<"bridge", 0>> /\ host.bridge
                \/ \E r \in Rules : host.rules[r] > 0 /\ x = <<"rule", r>>
                \/ \E i \in host.netns : x = <<"netns", i>>
           /\ x \in Pieces' <=>
                \/ x = <<"bridge", 0>> /\ host'.bridge
                \/ \E r \in Rules : host'.rules[r] > 0 /\ x = <<"rule", r>>
                \/ \E i \in host'.netns : x = <<"netns", i>>
<1>1. host.bridge \in BOOLEAN /\ host'.bridge \in BOOLEAN
  BY DEF HostStates
<1>2. (\E b \in {host.bridge} \cap {TRUE} : TRUE) <=> host.bridge
  BY <1>1
<1>3. (\E b \in {host'.bridge} \cap {TRUE} : TRUE) <=> host'.bridge
  BY <1>1
<1> QED
  BY <1>2, <1>3 DEF Pieces

LEMMA PiecesDiffer ==
    \A r, i : /\ <<"bridge", 0>> # <<"rule", r>> /\ <<"bridge", 0>> # <<"netns", i>>
              /\ <<"rule", r>> # <<"netns", i>>
              /\ <<"rule", r>> = <<"rule", i>> <=> r = i
              /\ <<"netns", r>> = <<"netns", i>> <=> r = i
  OBVIOUS

SameRules == \A r \in Rules : host'.rules[r] > 0 <=> host.rules[r] > 0

LEMMA PiecesStay ==
    ASSUME host \in HostStates, host' \in HostStates,
           host'.bridge = host.bridge, host'.netns = host.netns, SameRules
    PROVE  Pieces' = Pieces
<1>1. \A x : x \in Pieces' <=> x \in Pieces
  BY PiecesAre DEF SameRules
<1> QED
  BY <1>1

LEMMA NothingThere ==
    ASSUME host \in HostStates, host' \in HostStates
    PROVE  (Untouched => Pieces = {}) /\ (Untouched' => Pieces' = {})
<1>1. Untouched => \A x : x \notin Pieces
  BY PiecesAre DEF Untouched
<1>2. Untouched' => \A x : x \notin Pieces'
  BY PiecesAre DEF Untouched
<1> QED
  BY <1>1, <1>2

LEMMA NetnsComes ==
    ASSUME host \in HostStates, host' \in HostStates, NEW i, i \notin host.netns,
           host'.bridge = host.bridge, host'.netns = host.netns \cup {i}, SameRules
    PROVE  <<"netns", i>> \notin Pieces /\ Pieces' = Pieces \cup {<<"netns", i>>}
<1>1. <<"netns", i>> \notin Pieces
  BY PiecesAre, PiecesDiffer
<1>2. \A x : x \in Pieces' <=> x \in Pieces \/ x = <<"netns", i>>
  BY PiecesAre DEF SameRules
<1> QED
  BY <1>1, <1>2

LEMMA NetnsGoes ==
    ASSUME host \in HostStates, host' \in HostStates, NEW i, i \in host.netns,
           host'.bridge = host.bridge, host'.netns = host.netns \ {i}, SameRules
    PROVE  <<"netns", i>> \in Pieces /\ Pieces' = Pieces \ {<<"netns", i>>}
<1>1. <<"netns", i>> \in Pieces
  BY PiecesAre
<1>2. \A x : x \in Pieces' <=> x \in Pieces /\ x # <<"netns", i>>
  BY PiecesAre, PiecesDiffer DEF SameRules
<1> QED
  BY <1>1, <1>2

LEMMA RuleComes ==
    ASSUME host \in HostStates, host' \in HostStates, NEW r \in Rules,
           ~(host.rules[r] > 0), host'.rules[r] > 0,
           host'.bridge = host.bridge, host'.netns = host.netns,
           \A s \in Rules \ {r} : host'.rules[s] = host.rules[s]
    PROVE  <<"rule", r>> \notin Pieces /\ Pieces' = Pieces \cup {<<"rule", r>>}
<1>1. <<"rule", r>> \notin Pieces
  BY PiecesAre, PiecesDiffer
<1>2. \A x : x \in Pieces' <=> x \in Pieces \/ x = <<"rule", r>>
  BY PiecesAre
<1> QED
  BY <1>1, <1>2

LEMMA RuleGoes ==
    ASSUME host \in HostStates, host' \in HostStates, NEW r \in Rules,
           host.rules[r] > 0, ~(host'.rules[r] > 0),
           host'.bridge = host.bridge, host'.netns = host.netns,
           \A s \in Rules \ {r} : host'.rules[s] = host.rules[s]
    PROVE  <<"rule", r>> \in Pieces /\ Pieces' = Pieces \ {<<"rule", r>>}
<1>1. <<"rule", r>> \in Pieces
  BY PiecesAre
<1>2. \A x : x \in Pieces' <=> x \in Pieces /\ x # <<"rule", r>>
  BY PiecesAre, PiecesDiffer
<1> QED
  BY <1>1, <1>2

LEMMA BridgeGoes ==
    ASSUME host \in HostStates, host' \in HostStates, host.bridge, ~host'.bridge,
           host'.netns = host.netns, host'.rules = host.rules
    PROVE  <<"bridge", 0>> \in Pieces /\ Pieces' = Pieces \ {<<"bridge", 0>>}
<1>1. <<"bridge", 0>> \in Pieces
  BY PiecesAre
<1>2. \A x : x \in Pieces' <=> x \in Pieces /\ x # <<"bridge", 0>>
  BY PiecesAre, PiecesDiffer
<1> QED
  BY <1>1, <1>2

Stutters == Pieces' = Pieces /\ Somebody' = Somebody /\ Recorded' = Recorded

LEMMA SomebodyIs ==
    ASSUME \A q \in Procs : Building(q)' <=> Building(q)
    PROVE  Somebody' = Somebody
  BY DEF Somebody

\* The abstract steps, in terms of what they stand for.
LEMMA AbstractSteps ==
    /\ Stutters => UNCHANGED Lifecycle!lifecycle
    /\ ~Somebody /\ Recorded = 0 /\ Pieces = {} /\ Somebody' = TRUE
         /\ Pieces' = {<<"bridge", 0>>} /\ Recorded' = Recorded
       => Lifecycle!Next
    /\ Somebody /\ Somebody' = Somebody /\ Recorded' = Recorded
         /\ (\E x \in Lifecycle!WholeLab(MaxNodes) \ Pieces : Pieces' = Pieces \cup {x})
       => Lifecycle!Next
    /\ Somebody /\ Somebody' = Somebody /\ Recorded' = Recorded
         /\ (\E x \in Pieces \ {<<"bridge", 0>>} : Pieces' = Pieces \ {x})
       => Lifecycle!Next
    /\ Somebody /\ Pieces = {<<"bridge", 0>>} /\ Somebody' = FALSE /\ Pieces' = {}
         /\ Recorded' = Recorded
       => Lifecycle!Next
    /\ Somebody /\ (\E n \in Nodes : Pieces = Lifecycle!WholeLab(n) /\ Recorded' = n)
         /\ Somebody' = FALSE /\ Pieces' = Pieces
       => Lifecycle!Next
    /\ Recorded > 0 /\ Somebody' = Somebody /\ Recorded' = Recorded
         /\ (\E x \in Pieces : Pieces' = Pieces \ {x})
       => Lifecycle!Next
    /\ Recorded > 0 /\ Pieces = {} /\ Recorded' = 0 /\ Pieces' = Pieces
         /\ Somebody' = Somebody
       => Lifecycle!Next
<1> USE DEF Somebody, Recorded, Lifecycle!Next, Lifecycle!Bridge
<1>1. Stutters => UNCHANGED Lifecycle!lifecycle
  BY DEF Stutters, Lifecycle!lifecycle
<1>2. ~Somebody /\ Recorded = 0 /\ Pieces = {} /\ Somebody' = TRUE
        /\ Pieces' = {<<"bridge", 0>>} /\ Recorded' = Recorded
      => Lifecycle!Found
  BY DEF Lifecycle!Found
<1>3. Somebody /\ Somebody' = Somebody /\ Recorded' = Recorded
        /\ (\E x \in Lifecycle!WholeLab(MaxNodes) \ Pieces : Pieces' = Pieces \cup {x})
      => Lifecycle!Grow
  BY DEF Lifecycle!Grow
<1>4. Somebody /\ Somebody' = Somebody /\ Recorded' = Recorded
        /\ (\E x \in Pieces \ {<<"bridge", 0>>} : Pieces' = Pieces \ {x})
      => Lifecycle!Shrink
  BY DEF Lifecycle!Shrink
<1>5. Somebody /\ Pieces = {<<"bridge", 0>>} /\ Somebody' = FALSE /\ Pieces' = {}
        /\ Recorded' = Recorded
      => Lifecycle!Abandon
  BY DEF Lifecycle!Abandon
<1>6. Somebody /\ (\E n \in Nodes : Pieces = Lifecycle!WholeLab(n) /\ Recorded' = n)
        /\ Somebody' = FALSE /\ Pieces' = Pieces
      => Lifecycle!Commit
  BY DEF Lifecycle!Commit, Nodes
<1>7. Recorded > 0 /\ Somebody' = Somebody /\ Recorded' = Recorded
        /\ (\E x \in Pieces : Pieces' = Pieces \ {x})
      => Lifecycle!TearDown
  BY DEF Lifecycle!TearDown
<1>8. Recorded > 0 /\ Pieces = {} /\ Recorded' = 0 /\ Pieces' = Pieces
        /\ Somebody' = Somebody
      => Lifecycle!Forget
  BY DEF Lifecycle!Forget
<1> QED
  BY <1>1, <1>2, <1>3, <1>4, <1>5, <1>6, <1>7, <1>8

LEMMA WholeLabIs ==
    ASSUME NEW n \in Nat
    PROVE  \A x : x \in Lifecycle!WholeLab(n) <=>
                    \/ x = <<"bridge", 0>>
                    \/ \E r \in Rules : x = <<"rule", r>>
                    \/ \E i \in 1..n : x = <<"netns", i>>
  BY DEF Lifecycle!WholeLab, Lifecycle!Bridge, Lifecycle!RulePieces,
     Lifecycle!NetnsPieces, Rules

\* A create that has not added its bridge founds the lab, if anything.
LEMMA FoundingImplements ==
    ASSUME ExclusionInv, ExclusionInv', CleanInv, NEW p \in Procs, CreateStep(p), ~Building(p)
    PROVE  [Lifecycle!Next]_(Lifecycle!lifecycle)
<1>0. /\ TypeInv /\ Stages /\ undo[p] = <<>>
      /\ host \in HostStates /\ host' \in HostStates
  BY DEF ExclusionInv, TypeInv, MachineInv, Building
<1>1. Quits(p) \/ Looks(p) \/ AddsBridge(p)
  <2>1. pc[p] \notin BuildLabels
    BY <1>0 DEF Building, Stages, Stage
  <2> QED
    BY <1>0, <2>1, CreateDoes
    DEF BuildLabels, CreateLabels, Aborts, SetsBridge, ReadsForward, SetsForward,
        KeepsRule, MissesRule, AddsRule, AddsNetns, Wires, NodeDone, Records, Undoes
<1>2. CASE Quits(p) \/ Looks(p)
  <2>1. Silent /\ Others(p) /\ undo'[p] = undo[p]
    BY <1>2 DEF Quits, Looks, At
  <2>2. \A q \in Procs : Building(q)' <=> Building(q)
    BY <2>1 DEF Others, Building
  <2>3. Pieces' = Pieces /\ Recorded' = Recorded
    BY <2>1 DEF Pieces, Recorded, Silent
  <2> QED
    BY <2>2, <2>3, SomebodyIs, AbstractSteps DEF Stutters
<1>3. CASE AddsBridge(p)
  <2>1. /\ pc[p] = "cAddBridge" /\ ~host.bridge /\ stateFile' = stateFile
        /\ undo'[p] = <<Cleanup("bridge", 0)>>
        /\ host'.bridge /\ host'.netns = host.netns /\ host'.rules = host.rules
    BY <1>0, <1>3 DEF AddsBridge, At, BridgeAdd, HostStates
  <2>2. stateFile = NoState /\ ~Somebody
    BY <2>1 DEF CleanInv, ReaderInv, ExclusionInv, Exclusion, Somebody
  <2>3. Untouched
    BY <2>2 DEF CleanInv, NobodyInv, Somebody
  <2>4. Building(p)'
    BY <2>1 DEF Building
  <2>5. Pieces = {}
    BY <1>0, <2>3, NothingThere
  <2>6. \A x : x \in Pieces' <=> x = <<"bridge", 0>>
    BY <1>0, <2>1, <2>3, PiecesAre DEF Untouched
  <2>7. Pieces' = {<<"bridge", 0>>}
    BY <2>6
  <2>8. Somebody' = TRUE
    BY <2>4 DEF Somebody
  <2>9. Recorded = 0 /\ Recorded' = Recorded
    BY <2>1, <2>2 DEF Recorded
  <2> QED
    BY <2>2, <2>5, <2>7, <2>8, <2>9, AbstractSteps
<1> QED
  BY <1>1, <1>2, <1>3

\* A create that goes on building adds a part of the lab, takes one away in its
\* rollback, or leaves them all as they are.
LEMMA BuildingImplements ==
    ASSUME Orderly, TypeInv, TypeInv', Stages, RuleInv, RuleInv', NEW p \in Procs,
           BuilderInv(p), BuilderInv(p)', CreateStep(p), Building(p), Building(p)'
    PROVE  [Lifecycle!Next]_(Lifecycle!lifecycle)
<1>0. /\ host \in HostStates /\ host' \in HostStates /\ loc[p] \in Locals
      /\ undo[p] \in Seq(Cleanups) /\ undo[p] # <<>> /\ BridgeFirst(undo[p])
      /\ Indices(pc[p], loc[p]) /\ pc[p] \in BuildLabels \cup {"cRollback"}
      /\ Somebody /\ Somebody' = Somebody
      /\ \A r \in Rules : host.rules[r] \in {0, 1} /\ host'.rules[r] \in {0, 1}
  <2>1. \A r \in Rules : host.rules[r] \in Nat /\ host'.rules[r] \in Nat
                          /\ host.rules[r] <= 1 /\ host'.rules[r] <= 1
    BY DEF TypeInv, MachineInv, HostStates, RuleInv, RuleOnce
  <2>2. \A r \in Rules : host.rules[r] \in {0, 1} /\ host'.rules[r] \in {0, 1}
    BY <2>1
  <2>3. Somebody /\ Somebody' = Somebody
    BY DEF Somebody
  <2>4. pc[p] \in BuildLabels \cup {"cRollback"} /\ undo[p] # <<>> /\ BridgeFirst(undo[p])
    BY BuilderCreates DEF Building, Stages, Stage
  <2> QED
    BY <2>2, <2>3, <2>4 DEF TypeInv, MachineInv, ControlInv
<1>1. Recorded = 0 /\ Recorded' = Recorded
  BY DEF BuilderInv, Recorded
<1>2. ASSUME SameRules, host'.bridge = host.bridge, host'.netns = host.netns
      PROVE  [Lifecycle!Next]_(Lifecycle!lifecycle)
  BY <1>0, <1>1, <1>2, PiecesStay, AbstractSteps DEF Stutters
<1>grow. ASSUME NEW x \in Lifecycle!WholeLab(MaxNodes), x \notin Pieces,
                Pieces' = Pieces \cup {x}
         PROVE  [Lifecycle!Next]_(Lifecycle!lifecycle)
  BY <1>0, <1>1, <1>grow, AbstractSteps
<1>shrink. ASSUME NEW x \in Pieces, x # <<"bridge", 0>>, Pieces' = Pieces \ {x}
           PROVE  [Lifecycle!Next]_(Lifecycle!lifecycle)
  BY <1>0, <1>1, <1>shrink, AbstractSteps
<1>3. CASE \/ Aborts(p) \/ SetsBridge(p) \/ ReadsForward(p) \/ SetsForward(p)
           \/ KeepsRule(p) \/ MissesRule(p) \/ Wires(p) \/ NodeDone(p)
  <2>1. SameRules /\ host'.bridge = host.bridge /\ host'.netns = host.netns
    BY <1>0, <1>3, AbortsTakes
    DEF Aborts, SetsBridge, ReadsForward, SetsForward, KeepsRule, MissesRule, Wires,
        NodeDone, Silent, SameRules, HostStates, SetForward, VethAdd, VethMove, Enslave,
        Rename
  <2> QED
    BY <1>2, <2>1
<1>4. CASE AddsRule(p)
  <2> DEFINE r == loc[p].at
  <2>1. pc[p] = "cRuleAdd" /\ host' = RuleAdd(host, r)
    BY <1>4 DEF AddsRule
  <2> HIDE DEF r
  <2>2. host'.bridge = host.bridge /\ host'.netns = host.netns
        /\ \A s \in Rules \ {r} : host'.rules[s] = host.rules[s]
    BY <1>0, <2>1, HostParts
  <2>3. CASE r \in Rules
    <3>1. host.rules[r] = 0 /\ host'.rules[r] = 1
      <4>1. host.rules[r] = 0
        BY <2>1, <2>3 DEF RuleInv, r
      <4> QED
        BY <1>0, <2>1, <2>3, <4>1, HostParts
    <3>2. <<"rule", r>> \notin Pieces /\ Pieces' = Pieces \cup {<<"rule", r>>}
      BY <1>0, <2>2, <2>3, <3>1, RuleComes
    <3>3. <<"rule", r>> \in Lifecycle!WholeLab(MaxNodes)
      BY <2>3, WholeLabIs, HostAssumption
    <3> QED
      BY <3>2, <3>3, <1>grow
  <2>4. CASE r \notin Rules
    BY <1>2, <2>2, <2>4 DEF SameRules
  <2> QED
    BY <2>3, <2>4
<1>5. CASE AddsNetns(p)
  <2> DEFINE i == loc[p].at
  <2>1. pc[p] = "cNetnsAdd" /\ i \notin host.netns /\ host' = NetnsAdd(host, i)
    BY <1>5 DEF AddsNetns
  <2>2. host'.bridge = host.bridge /\ host'.netns = host.netns \cup {i} /\ SameRules
    BY <1>0, <2>1 DEF NetnsAdd, HostStates, SameRules
  <2>3. i \in Nodes
    BY <1>0, <2>1, HostAssumption DEF Indices, CreateLabels, NodeLoop, Nodes, Locals
  <2>4. <<"netns", i>> \notin Pieces /\ Pieces' = Pieces \cup {<<"netns", i>>}
    BY <1>0, <2>1, <2>2, NetnsComes
  <2>5. <<"netns", i>> \in Lifecycle!WholeLab(MaxNodes)
    BY <2>3, WholeLabIs, HostAssumption DEF Nodes
  <2> QED
    BY <2>4, <2>5, <1>grow
<1>6. CASE Undoes(p)
  <2> DEFINE c == Last(undo[p])
  <2>1. host' = Undone(host, c, loc[p].before) /\ Front(undo[p]) # <<>>
    BY <1>6 DEF Undoes, At, Orderly, Building
  <2>2. c.kind \in {"forward", "rule", "netns"}
    <3>1. c \in Cleanups
      BY <1>6, UndoesTakes
    <3>2. c.kind # "bridge"
      BY <1>0, <2>1, Pop
    <3> QED
      BY <3>1, <3>2 DEF Cleanups
  <2> HIDE DEF c
  <2>3. CASE c.kind = "forward"
    <3>1. host'.bridge = host.bridge /\ host'.netns = host.netns /\ SameRules
      BY <1>0, <2>1, <2>3 DEF Undone, SetForward, HostStates, SameRules
    <3> QED
      BY <1>2, <3>1
  <2>4. CASE c.kind = "rule"
    <3>1. host' = RuleDel(host, c.id)
      BY <2>1, <2>4 DEF Undone
    <3>2. host'.bridge = host.bridge /\ host'.netns = host.netns
          /\ \A s \in Rules \ {c.id} : host'.rules[s] = host.rules[s]
      BY <1>0, <3>1, HostParts
    <3>3. CASE c.id \in Rules /\ host.rules[c.id] = 1
      <4>1. host'.rules[c.id] = 0
        BY <1>0, <3>1, <3>3, HostParts
      <4>2. <<"rule", c.id>> \in Pieces /\ Pieces' = Pieces \ {<<"rule", c.id>>}
        BY <1>0, <3>2, <3>3, <4>1, RuleGoes
      <4> QED
        BY <4>2, PiecesDiffer, <1>shrink
    <3>4. CASE c.id \notin Rules \/ host.rules[c.id] = 0
      <4>1. c.id \in Rules => host'.rules[c.id] = 0 /\ host.rules[c.id] = 0
        BY <1>0, <3>1, <3>4, HostParts
      <4>2. SameRules
        BY <3>2, <4>1 DEF SameRules
      <4> QED
        BY <1>2, <3>2, <4>2
    <3> QED
      BY <1>0, <3>3, <3>4
  <2>5. CASE c.kind = "netns"
    <3>1. host' = NetnsDel(host, c.id)
      BY <2>1, <2>5 DEF Undone
    <3>2. host'.bridge = host.bridge /\ host'.netns = host.netns \ {c.id} /\ SameRules
      BY <1>0, <3>1, HostParts DEF SameRules
    <3>3. CASE c.id \in host.netns
      <4>1. <<"netns", c.id>> \in Pieces /\ Pieces' = Pieces \ {<<"netns", c.id>>}
        BY <1>0, <3>2, <3>3, NetnsGoes
      <4> QED
        BY <4>1, PiecesDiffer, <1>shrink
    <3>4. CASE c.id \notin host.netns
      BY <1>2, <3>2, <3>4
    <3> QED
      BY <3>3, <3>4
  <2> QED
    BY <2>2, <2>3, <2>4, <2>5
<1>7. ~Quits(p) /\ ~Looks(p) /\ ~AddsBridge(p) /\ ~Records(p)
  BY <1>0 DEF Quits, Looks, AddsBridge, Records, At, Building
<1> QED
  BY <1>3, <1>4, <1>5, <1>6, <1>7, CreateDoes

\* A create that ends with its cleanups has recorded the whole lab, or undone
\* all of it but the bridge.
LEMMA EndingImplements ==
    ASSUME Orderly, ExclusionInv, ExclusionInv', CleanInv,
           NEW p \in Procs, CreateStep(p), Building(p), ~Building(p)'
    PROVE  [Lifecycle!Next]_(Lifecycle!lifecycle)
<1>0. /\ TypeInv /\ Stages /\ OneBuilder /\ host \in HostStates /\ host' \in HostStates
      /\ loc[p] \in Locals /\ undo[p] \in Seq(Cleanups) /\ undo[p] # <<>>
      /\ BridgeFirst(undo[p]) /\ Indices(pc[p], loc[p]) /\ host.bridge
  BY DEF ExclusionInv, Exclusion, TypeInv, MachineInv, ControlInv, Building, Stages, Stage
<1>1. stateFile = NoState /\ Undoable(p) /\ (pc[p] \in BuildLabels => Made(p))
  BY DEF CleanInv, BuilderInv
<1>2. undo'[p] = <<>> /\ Others(p)
  BY <1>0, CreateStays DEF Building
<1>3. Somebody /\ Somebody' = FALSE
  BY <1>0, <1>2 DEF Somebody, OneBuilder, Others, Building
<1>4. Records(p) \/ Undoes(p)
  <2>1. \A c : Append(undo[p], c) # <<>>
    BY <1>0
  <2> QED
    BY <1>0, <1>2, <2>1, CreateDoes
    DEF Quits, Aborts, Looks, AddsBridge, SetsBridge, ReadsForward, SetsForward,
        KeepsRule, MissesRule, AddsRule, RuleDone, AddsNetns, Wires, NodeDone, At
<1>5. CASE Records(p)
  <2> DEFINE n == loc[p].n
  <2>1. /\ pc[p] = "cSave" /\ host' = host
        /\ stateFile' = [nodes |-> n, forward |-> loc[p].before]
    BY <1>5 DEF Records
  <2>2. pc[p] \in BuildLabels /\ n \in Nodes /\ n \in Nat /\ loc[p].before \in {0, 1}
    BY <1>0, <2>1, HostAssumption DEF BuildLabels, CreateLabels, Indices, Locals
  <2>3. stateFile' # NoState /\ Recorded' = n
    BY <2>1, <2>2, LabAssumption DEF State, Recorded
  <2>4. host.netns = 1..n /\ \A r \in Rules : host.rules[r] > 0
    BY <1>1, <2>1, <2>2 DEF Made
  <2>5. \A x : x \in Pieces <=> x \in Lifecycle!WholeLab(n)
    BY <1>0, <2>2, <2>4, PiecesAre, WholeLabIs
  <2>6. Pieces = Lifecycle!WholeLab(n) /\ Pieces' = Pieces
    <3>1. Pieces = Lifecycle!WholeLab(n)
      <4> HIDE DEF n
      <4> QED
        BY <2>5
    <3> QED
      BY <2>1, <3>1 DEF Pieces
  <2> QED
    BY <1>3, <2>2, <2>3, <2>6, AbstractSteps
<1>6. CASE Undoes(p)
  <2>1. /\ Front(undo[p]) = <<>> /\ stateFile' = NoState
        /\ host' = Undone(host, Last(undo[p]), loc[p].before)
    BY <1>1, <1>2, <1>6 DEF Undoes, At, Orderly
  <2>2. Last(undo[p]).kind = "bridge"
    BY <1>0, <2>1, Pop
  <2>3. host' = BridgeDel(host)
    BY <2>1, <2>2 DEF Undone
  <2>4. \A kind, id : kind # "bridge" => ~Has(undo[p], kind, id)
    <3>1. \A kind, id : ~Has(Front(undo[p]), kind, id)
      BY <2>1 DEF Has
    <3>2. \A kind, id : Last(undo[p]) = Cleanup(kind, id) => kind = "bridge"
      BY <2>2 DEF Cleanup
    <3> QED
      BY <1>0, <3>1, <3>2, HasFront
  <2>5. host.netns = {} /\ \A r \in Rules : ~(host.rules[r] > 0)
    BY <1>1, <2>4 DEF Undoable, Deferred
  <2>6. ~host'.bridge /\ host'.netns = host.netns /\ host'.rules = host.rules
    BY <1>0, <2>3, HostParts
  <2>7. \A x : (x \in Pieces <=> x = <<"bridge", 0>>) /\ x \notin Pieces'
    BY <1>0, <2>5, <2>6, PiecesAre
  <2>8. Pieces = {<<"bridge", 0>>} /\ Pieces' = {}
    BY <2>7
  <2>9. Recorded' = Recorded
    BY <1>1, <2>1 DEF Recorded
  <2> QED
    BY <1>3, <2>8, <2>9, AbstractSteps
<1> QED
  BY <1>4, <1>5, <1>6

\* A destroy takes a part of the recorded lab away, forgets the lab that is
\* gone, or leaves both as they are.
LEMMA DestroyImplements ==
    ASSUME Separate, RecordInv, RecordInv', CleanInv, CleanInv',
           NEW p \in Procs, DestroyStep(p)
    PROVE  [Lifecycle!Next]_(Lifecycle!lifecycle)
<1>0. /\ ExclusionInv /\ TypeInv /\ host \in HostStates /\ host' \in HostStates
      /\ stateFile \in State \cup {NoState} /\ stateFile' \in State \cup {NoState}
      /\ loc[p] \in Locals
      /\ \A r \in Rules : host.rules[r] \in {0, 1} /\ host'.rules[r] \in {0, 1}
  <2>1. \A r \in Rules : host.rules[r] \in Nat /\ host'.rules[r] \in Nat
                          /\ host.rules[r] <= 1 /\ host'.rules[r] <= 1
    BY DEF RecordInv, ExclusionInv, TypeInv, MachineInv, HostStates, RuleInv, RuleOnce
  <2>2. \A r \in Rules : host.rules[r] \in {0, 1} /\ host'.rules[r] \in {0, 1}
    BY <2>1
  <2>3. ExclusionInv /\ TypeInv /\ TypeInv'
    BY DEF RecordInv, ExclusionInv
  <2> QED
    BY <2>2, <2>3 DEF TypeInv, MachineInv, ControlInv
<1>1. /\ \A q \in Procs : ~Building(q) /\ ~Building(q)'
      /\ Somebody' = Somebody
  <2>1. \A q \in Procs : ~Building(q) /\ ~Building(q)'
    BY <1>0, NoBuildUp
  <2> QED
    BY <2>1, SomebodyIs
<1>2. /\ stateFile = NoState => Untouched /\ Pieces = {}
      /\ stateFile' = NoState => Untouched' /\ Pieces' = {}
  BY <1>0, <1>1, NothingThere DEF CleanInv, NobodyInv
<1>3. UNCHANGED stateFile \/ Forgets(p)
  BY <1>0, DestroyTakes
<1>4. CASE stateFile = NoState
  <2>1. stateFile' = NoState
    BY <1>3, <1>4 DEF Forgets
  <2>2. Stutters
    BY <1>1, <1>2, <1>4, <2>1 DEF Stutters, Recorded
  <2> QED
    BY <2>2, AbstractSteps
<1>5. CASE stateFile # NoState
  <2>0. Recorded > 0
    BY <1>0, <1>5, HostAssumption DEF Recorded, State, Nodes
  <2>1. ASSUME UNCHANGED stateFile, SameRules, host'.bridge = host.bridge,
               host'.netns = host.netns
        PROVE  [Lifecycle!Next]_(Lifecycle!lifecycle)
    BY <1>0, <1>1, <2>1, PiecesStay, AbstractSteps DEF Stutters, Recorded
  <2>2. ASSUME UNCHANGED stateFile, NEW x \in Pieces, Pieces' = Pieces \ {x}
        PROVE  [Lifecycle!Next]_(Lifecycle!lifecycle)
    <3>1. Recorded' = Recorded
      BY <2>2 DEF Recorded
    <3> QED
      BY <1>1, <2>0, <2>2, <3>1, AbstractSteps
  <2>3. CASE \/ Leaves(p) \/ Loads(p) \/ Proceeds(p) \/ FindsNoBridge(p)
             \/ DeletesPeer(p) \/ FindsNoRule(p) \/ RestoresForward(p)
    <3>1. UNCHANGED stateFile /\ SameRules /\ host'.bridge = host.bridge
          /\ host'.netns = host.netns
      <4>1. CASE DeletesPeer(p)
        <5>1. PICK i \in Nodes : host' = PeerDel(host, i) /\ UNCHANGED stateFile
          BY <4>1 DEF DeletesPeer
        <5> QED
          BY <1>0, <5>1 DEF PeerDel, HostStates, SameRules
      <4>2. CASE ~DeletesPeer(p)
        BY <1>0, <2>3, <4>2
        DEF Leaves, Loads, Proceeds, FindsNoBridge, FindsNoRule, RestoresForward, Silent,
            SetForward, HostStates, SameRules
      <4> QED
        BY <4>1, <4>2
    <3> QED
      BY <2>1, <3>1
  <2>4. CASE DeletesNetns(p)
    <3> DEFINE i == loc[p].at
    <3>1. UNCHANGED stateFile /\ host' = NetnsDel(host, i)
      BY <2>4 DEF DeletesNetns
    <3> HIDE DEF i
    <3>2. host'.bridge = host.bridge /\ host'.netns = host.netns \ {i} /\ SameRules
      BY <1>0, <3>1, HostParts DEF SameRules
    <3>3. CASE i \in host.netns
      <4>1. <<"netns", i>> \in Pieces /\ Pieces' = Pieces \ {<<"netns", i>>}
        BY <1>0, <3>2, <3>3, NetnsGoes
      <4> QED
        BY <2>2, <3>1, <4>1
    <3>4. CASE i \notin host.netns
      BY <2>1, <3>1, <3>2, <3>4
    <3> QED
      BY <3>3, <3>4
  <2>5. CASE DeletesBridge(p)
    <3>1. /\ UNCHANGED stateFile /\ host.bridge /\ ~host'.bridge
          /\ host'.netns = host.netns /\ host'.rules = host.rules
      BY <1>0, <2>5, HostParts DEF DeletesBridge
    <3>2. <<"bridge", 0>> \in Pieces /\ Pieces' = Pieces \ {<<"bridge", 0>>}
      BY <1>0, <3>1, BridgeGoes
    <3> QED
      BY <2>2, <3>1, <3>2
  <2>6. CASE DeletesRule(p)
    <3> DEFINE r == loc[p].at
    <3>1. UNCHANGED stateFile /\ host' = RuleDel(host, r) /\ host.rules[r] > 0
      BY <2>6 DEF DeletesRule
    <3> HIDE DEF r
    <3>2. host'.bridge = host.bridge /\ host'.netns = host.netns
          /\ \A s \in Rules \ {r} : host'.rules[s] = host.rules[s]
      BY <1>0, <3>1, HostParts
    <3>3. CASE r \in Rules
      <4>1. ~(host'.rules[r] > 0)
        <5>1. host'.rules[r] = 0
          BY <1>0, <3>1, <3>3, HostParts
        <5> QED
          BY <5>1
      <4>2. <<"rule", r>> \in Pieces /\ Pieces' = Pieces \ {<<"rule", r>>}
        BY <1>0, <3>1, <3>2, <3>3, <4>1, RuleGoes
      <4> QED
        BY <2>2, <3>1, <4>2
    <3>4. CASE r \notin Rules
      BY <2>1, <3>1, <3>2, <3>4 DEF SameRules
    <3> QED
      BY <3>3, <3>4
  <2>7. CASE Forgets(p)
    <3>1. stateFile' = NoState /\ host' = host
      BY <2>7 DEF Forgets
    <3>2. Pieces' = {} /\ Pieces' = Pieces /\ Recorded' = 0
      BY <1>2, <3>1 DEF Pieces, Recorded
    <3> QED
      BY <1>1, <2>0, <3>2, AbstractSteps
  <2> QED
    BY <1>0, <2>3, <2>4, <2>5, <2>6, <2>7, DestroyDoes
<1> QED
  BY <1>4, <1>5

LEMMA OthersImplement ==
    ASSUME Orderly, ExclusionInv, ExclusionInv',
           \/ \E p \in Procs : ImpairStep(p) \/ Begin(p) \/ Crash(p)
           \/ UNCHANGED vars \/ \E i \in Nodes : Drain(i)
    PROVE  [Lifecycle!Next]_(Lifecycle!lifecycle)
<1>0. TypeInv /\ host \in HostStates /\ host' \in HostStates
  BY DEF ExclusionInv, TypeInv, MachineInv
<1>1. Pieces' = Pieces
  BY <1>0, PartsKept, PiecesStay DEF SameParts, SameRules
<1>2. ASSUME NEW p \in Procs, ImpairStep(p) \/ Begin(p) \/ Crash(p)
      PROVE  UNCHANGED stateFile /\ \A q \in Procs : Building(q)' <=> Building(q)
  BY <1>0, <1>2, OtherStepsTake, OthersDoNotBuild DEF Others, Building
<1>3. CASE UNCHANGED vars \/ \E i \in Nodes : Drain(i)
  <2>1. UNCHANGED stateFile /\ \A q \in Procs : Building(q)' <=> Building(q)
    BY <1>0, <1>3, IdleStepsTake DEF Building
  <2> QED
    BY <1>1, <2>1, SomebodyIs, AbstractSteps DEF Stutters, Recorded
<1>4. CASE \E p \in Procs : ImpairStep(p) \/ Begin(p) \/ Crash(p)
  BY <1>1, <1>2, <1>4, SomebodyIs, AbstractSteps DEF Stutters, Recorded
<1> QED
  BY <1>3, <1>4

LEMMA InitImplements == Orderly /\ Init => Lifecycle!Init
<1> SUFFICES ASSUME Orderly, Init PROVE Lifecycle!Init
  OBVIOUS
<1>1. Pieces = {}
  BY HostAssumption DEF Orderly, Init, UntouchedHost, OwnRules, Pieces
<1>2. (\E p \in Procs : Building(p)) = FALSE
  BY DEF Init, Building
<1> QED
  BY <1>1, <1>2 DEF Init, Lifecycle!Init

\* Whatever the commands do and whoever runs them, the lab they make is built
\* by one create, recorded when complete, torn down after that and forgotten
\* when gone: if nobody is killed and no destroy runs beside a create.
THEOREM LabImplementsLifecycle ==
    ASSUME Separate, Orderly
    PROVE  Spec => ImplementsLifecycle
<1>1. Init => RecordInv /\ CleanInv /\ Lifecycle!Init
  BY InitRecord, InitClean, InitImplements
<1>2. RecordInv /\ CleanInv /\ [Next]_vars => RecordInv' /\ CleanInv'
  BY RecordPreserved, CleanPreserved
<1>3. ASSUME RecordInv, CleanInv, RecordInv', CleanInv', [Next]_vars
      PROVE  [Lifecycle!Next]_(Lifecycle!lifecycle)
  <2>0. /\ ExclusionInv /\ ExclusionInv' /\ TypeInv /\ TypeInv' /\ Stages
        /\ RuleInv /\ RuleInv'
        /\ \A p \in Procs : BuilderInv(p) /\ BuilderInv(p)'
    BY <1>3 DEF RecordInv, ExclusionInv, CleanInv
  <2>1. ASSUME NEW p \in Procs, CreateStep(p)
        PROVE  [Lifecycle!Next]_(Lifecycle!lifecycle)
    <3>1. CASE ~Building(p)
      BY <1>3, <2>0, <2>1, <3>1, FoundingImplements
    <3>2. CASE Building(p) /\ Building(p)'
      BY <2>0, <2>1, <3>2, BuildingImplements
    <3>3. CASE Building(p) /\ ~Building(p)'
      BY <1>3, <2>0, <2>1, <3>3, EndingImplements
    <3> QED
      BY <3>1, <3>2, <3>3
  <2>2. ASSUME NEW p \in Procs, DestroyStep(p)
        PROVE  [Lifecycle!Next]_(Lifecycle!lifecycle)
    BY <1>3, <2>2, DestroyImplements
  <2>3. ASSUME \/ \E p \in Procs : ImpairStep(p) \/ Begin(p) \/ Crash(p)
               \/ UNCHANGED vars \/ \E i \in Nodes : Drain(i)
        PROVE  [Lifecycle!Next]_(Lifecycle!lifecycle)
    BY <2>0, <2>3, OthersImplement
  <2> QED
    BY <1>3, <2>1, <2>2, <2>3 DEF Next, Step
<1> QED
  BY <1>1, <1>2, <1>3, PTL DEF Spec, ImplementsLifecycle, Lifecycle!Spec

=============================================================================
