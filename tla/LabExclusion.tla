---------------------------- MODULE LabExclusion ----------------------------
(***************************************************************************)
(* At most one create builds at a time, for any number of processes, faults *)
(* and kills, provided no destroy runs beside a create.  The bridge is the *)
(* lock: it is there as long as somebody has cleanups to run.              *)
(***************************************************************************)
EXTENDS LabProofs

\* What a step of p leaves alone in the other processes.
Others(p) ==
    \A q \in Procs \ {p} :
        /\ pc'[q] = pc[q]
        /\ undo'[q] = undo[q]
        /\ loc'[q] = loc[q]

\* A step of p that takes it to label l with these cleanups in operation op.
Moves(p, l, cleanups, op) ==
    /\ pc'[p] = l
    /\ undo'[p] = cleanups
    /\ loc'[p].op = op
    /\ Others(p)

LEMMA GotoMoves ==
    ASSUME ControlInv, NEW p \in Procs, NEW l, Goto(p, l)
    PROVE  Moves(p, l, undo[p], loc[p].op)
  BY DEF ControlInv, Goto, Moves, Others

LEMMA GotoAtMoves ==
    ASSUME ControlInv, NEW p \in Procs, NEW l, NEW i, GotoAt(p, l, i)
    PROVE  Moves(p, l, undo[p], loc[p].op)
  BY DEF ControlInv, Locals, GotoAt, Moves, Others

LEMMA DeferMoves ==
    ASSUME ControlInv, NEW p \in Procs, NEW l, NEW c, Defer(p, l, c)
    PROVE  Moves(p, l, Append(undo[p], c), loc[p].op)
  BY DEF ControlInv, Defer, Moves, Others

LEMMA ReturnMoves ==
    ASSUME ControlInv, NEW p \in Procs, NEW r, Return(p, r)
    PROVE  Moves(p, "idle", <<>>, "none")
  BY DEF ControlInv, Return, Moves, Others, Blank

LEMMA NextRuleMoves ==
    ASSUME ControlInv, NEW p \in Procs, NextRule(p)
    PROVE  \/ Moves(p, "dRuleCheck", undo[p], loc[p].op)
           \/ Moves(p, "dForward", undo[p], loc[p].op)
           \/ Moves(p, "idle", <<>>, "none")
<1>1. CASE loc[p].at < RuleCount
  BY <1>1, GotoAtMoves DEF NextRule
<1>2. CASE ~(loc[p].at < RuleCount) /\ loc[p].seen = NoState
  BY <1>2, ReturnMoves DEF NextRule
<1>3. CASE ~(loc[p].at < RuleCount) /\ loc[p].seen # NoState
  BY <1>3, GotoMoves DEF NextRule
<1> QED
  BY <1>1, <1>2, <1>3

\* Deferring keeps the bridge first, provided it is deferred first.
LEMMA Push ==
    ASSUME NEW u \in Seq(Cleanups), NEW c \in Cleanups, BridgeFirst(u),
           u = <<>> <=> c.kind = "bridge"
    PROVE  BridgeFirst(Append(u, c)) /\ Append(u, c) # <<>>
  BY SMTT(30) DEF BridgeFirst, Cleanups

\* Undoing the last cleanup undoes the bridge only if nothing else is left.
LEMMA Pop ==
    ASSUME NEW u \in Seq(Cleanups), BridgeFirst(u), u # <<>>
    PROVE  /\ BridgeFirst(Front(u))
           /\ Front(u) = <<>> <=> Last(u).kind = "bridge"
<1>1. Len(u) \in Nat /\ Len(u) > 0
  OBVIOUS
<1>2. CASE Len(u) = 1
  <2>1. Front(u) = <<>>
    BY <1>2 DEF Front
  <2> QED
    BY <1>2, <2>1 DEF BridgeFirst, Last
<1>3. CASE Len(u) > 1
  <2>1. /\ Front(u) \in Seq(Cleanups) /\ Len(Front(u)) = Len(u) - 1
        /\ \A k \in 1..(Len(u) - 1) : Front(u)[k] = u[k]
    BY <1>1, <1>3 DEF Front
  <2>2. Front(u) # <<>>
    BY <2>1, <1>3
  <2>3. BridgeFirst(Front(u))
    BY <2>1, <1>3 DEF BridgeFirst
  <2>4. Last(u).kind # "bridge"
    BY <1>1, <1>3 DEF BridgeFirst, Last
  <2> QED
    BY <2>2, <2>3, <2>4
<1>4. \A n \in Nat : n > 0 => n = 1 \/ n > 1
  OBVIOUS
<1>5. Len(u) = 1 \/ Len(u) > 1
  BY <1>1, <1>4, Zenon
<1> QED
  BY <1>2, <1>3, <1>5, Zenon

\* p neither starts to build nor touches the bridge; or it starts with no
\* bridge there and adds one; or it deletes the bridge, as the last thing of
\* its own rollback or as a destroy.
Quiet(p) == host'.bridge = host.bridge /\ (undo'[p] # <<>> => undo[p] # <<>>)
Founds(p) == ~host.bridge /\ host'.bridge
Releases(p) == undo[p] # <<>> /\ undo'[p] = <<>>
Destroys(p) == pc[p] \in DestroyLabels /\ undo'[p] = <<>>

Same(p) ==
    /\ loc'[p].op \in {loc[p].op, "none"}
    /\ pc[p] = "idle" => pc'[p] = "idle"

Effect(p) ==
    /\ Same(p)
    /\ Stage(pc'[p], undo'[p], loc'[p].op)
    /\ Others(p)
    /\ Quiet(p) \/ Founds(p) \/ Releases(p) \/ Destroys(p)

LEMMA StepEffect ==
    ASSUME TypeInv, Stages, NEW p \in Procs, Step(p) \/ Reject(p) \/ Crash(p)
    PROVE  Effect(p)
<1>0. /\ ControlInv /\ host \in HostStates /\ loc[p] \in Locals
      /\ Stage(pc[p], undo[p], loc[p].op) /\ undo[p] \in Seq(Cleanups)
  BY DEF TypeInv, MachineInv, ControlInv, Stages
<1>empty. BridgeFirst(<<>>)
  BY DEF BridgeFirst
<1>1. ASSUME CreateLoad(p) PROVE Effect(p)
  <2>1. Stage(pc'[p], undo'[p], loc'[p].op) /\ Others(p) /\ Same(p)
    BY <1>1, <1>0, <1>empty, GotoMoves, ReturnMoves
    DEF Same, CreateLoad, Ask, Run, Fail, Fault, Moves, Stage, CreateLabels,
        DestroyLabels, RecordedLabels, FallbackLabels, SharedLabels,
        ImpairLabels, BuildLabels
  <2>2. host'.bridge = host.bridge
    BY <1>1, <1>0
    DEF CreateLoad, Ask, Run, Fault, KeepState, HostStates
  <2>3. undo'[p] = <<>> \/ undo[p] # <<>>
    BY <1>1, <1>0, GotoMoves, ReturnMoves
    DEF CreateLoad, Ask, Run, Fail, Moves
  <2> QED
    BY <2>1, <2>2, <2>3 DEF Effect, Quiet
<1>2. ASSUME CreateBridgeExists(p) PROVE Effect(p)
  <2>1. Stage(pc'[p], undo'[p], loc'[p].op) /\ Others(p) /\ Same(p)
    BY <1>2, <1>0, <1>empty, GotoMoves, ReturnMoves
    DEF Same, CreateBridgeExists, Ask, Run, Fail, Fault, Moves, Stage,
        CreateLabels, DestroyLabels, RecordedLabels, FallbackLabels,
        SharedLabels, ImpairLabels, BuildLabels
  <2>2. host'.bridge = host.bridge
    BY <1>2, <1>0
    DEF CreateBridgeExists, Ask, Run, Fault, KeepState, HostStates
  <2>3. undo'[p] = <<>> \/ undo[p] # <<>>
    BY <1>2, <1>0, GotoMoves, ReturnMoves
    DEF CreateBridgeExists, Ask, Run, Fail, Moves
  <2> QED
    BY <2>1, <2>2, <2>3 DEF Effect, Quiet
<1>3. ASSUME CreateListNamespaces(p) PROVE Effect(p)
  <2>1. Stage(pc'[p], undo'[p], loc'[p].op) /\ Others(p) /\ Same(p)
    BY <1>3, <1>0, <1>empty, GotoMoves, ReturnMoves
    DEF Same, CreateListNamespaces, Ask, Run, Fail, Fault, Moves, Stage,
        CreateLabels, DestroyLabels, RecordedLabels, FallbackLabels,
        SharedLabels, ImpairLabels, BuildLabels
  <2>2. host'.bridge = host.bridge
    BY <1>3, <1>0
    DEF CreateListNamespaces, Ask, Run, Fault, KeepState, HostStates
  <2>3. undo'[p] = <<>> \/ undo[p] # <<>>
    BY <1>3, <1>0, GotoMoves, ReturnMoves
    DEF CreateListNamespaces, Ask, Run, Fail, Moves
  <2> QED
    BY <2>1, <2>2, <2>3 DEF Effect, Quiet
<1>4. ASSUME AddBridge(p) PROVE Effect(p)
  <2>1. CASE Fail(p) /\ UNCHANGED host
    BY <1>4, <2>1, <1>0, <1>empty, ReturnMoves
    DEF AddBridge, Fail, Moves, Same, Effect, Quiet, Stage, CreateLabels,
        DestroyLabels, RecordedLabels, FallbackLabels, SharedLabels,
        ImpairLabels, BuildLabels
  <2>2. CASE /\ ~host.bridge /\ host' = BridgeAdd(host)
             /\ Defer(p, "cSetBridge", Cleanup("bridge", 0))
    <3>1. Moves(p, "cSetBridge", Append(undo[p], Cleanup("bridge", 0)), loc[p].op)
      BY <2>2, <1>0, DeferMoves
    <3>2. /\ BridgeFirst(Append(undo[p], Cleanup("bridge", 0)))
          /\ Append(undo[p], Cleanup("bridge", 0)) # <<>>
          /\ loc[p].op = "create"
      BY <1>4, <1>0, Push DEF AddBridge, Cleanup, Cleanups, Stage, CreateLabels, BuildLabels
    <3>3. Founds(p)
      BY <2>2, <1>0 DEF Founds, BridgeAdd, HostStates
    <3> QED
      BY <1>4, <3>1, <3>2, <3>3 DEF AddBridge, Moves, Same, Effect, Stage, CreateLabels,
         DestroyLabels, RecordedLabels, FallbackLabels, SharedLabels, ImpairLabels, BuildLabels
  <2> QED
    BY <1>4, <2>1, <2>2 DEF AddBridge, Run, Fault
<1>5. ASSUME SetBridge(p) PROVE Effect(p)
  <2>1. Stage(pc'[p], undo'[p], loc'[p].op) /\ Others(p) /\ Same(p)
    BY <1>5, <1>0, <1>empty, GotoMoves
    DEF Same, SetBridge, Ask, Run, Fault, Moves, Stage, CreateLabels,
        DestroyLabels, RecordedLabels, FallbackLabels, SharedLabels,
        ImpairLabels, BuildLabels
  <2>2. host'.bridge = host.bridge
    BY <1>5, <1>0
    DEF SetBridge, Ask, Run, Fault, KeepState, HostStates
  <2>3. undo'[p] = <<>> \/ undo[p] # <<>>
    BY <1>5, <1>0, GotoMoves
    DEF SetBridge, Ask, Run, Fail, Moves
  <2> QED
    BY <2>1, <2>2, <2>3 DEF Effect, Quiet
<1>6. ASSUME ReadForward(p) PROVE Effect(p)
  <2>1. CASE Goto(p, "cRollback") /\ UNCHANGED host
    <3>1. Moves(p, "cRollback", undo[p], loc[p].op)
      BY <2>1, <1>0, GotoMoves
    <3> QED
      BY <1>6, <1>empty, <2>1, <3>1, <1>0
      DEF ReadForward, Moves, Same, Effect, Quiet, Stage, CreateLabels, DestroyLabels,
          RecordedLabels, FallbackLabels, SharedLabels, ImpairLabels, BuildLabels
  <2>2. CASE /\ UNCHANGED <<host, undo>> /\ pc' = [pc EXCEPT ![p] = "cSetForward"]
             /\ loc' = [loc EXCEPT ![p].before = host.forward]
    <3>1. Moves(p, "cSetForward", undo[p], loc[p].op)
      BY <2>2, <1>0 DEF ControlInv, Locals, Moves, Others
    <3> QED
      BY <1>6, <2>2, <3>1, <1>0
      DEF ReadForward, Moves, Same, Effect, Quiet, Stage, CreateLabels, DestroyLabels,
          RecordedLabels, FallbackLabels, SharedLabels, ImpairLabels, BuildLabels
  <2> QED
    BY <1>6, <2>1, <2>2 DEF ReadForward, Fault
<1>7. ASSUME EnableForward(p) PROVE Effect(p)
  <2>1. CASE Goto(p, "cRollback") /\ UNCHANGED host
    <3>1. Moves(p, "cRollback", undo[p], loc[p].op)
      BY <2>1, <1>0, GotoMoves
    <3> QED
      BY <1>7, <2>1, <3>1, <1>0
      DEF EnableForward, Moves, Same, Effect, Quiet, Stage, CreateLabels, DestroyLabels,
          RecordedLabels, FallbackLabels, SharedLabels, ImpairLabels, BuildLabels
  <2>2. CASE host' = SetForward(host, 1) /\ Defer(p, "cRuleCheck", Cleanup("forward", 0))
    <3>1. Moves(p, "cRuleCheck", Append(undo[p], Cleanup("forward", 0)), loc[p].op)
      BY <2>2, <1>0, DeferMoves
    <3>2. /\ BridgeFirst(Append(undo[p], Cleanup("forward", 0)))
          /\ Append(undo[p], Cleanup("forward", 0)) # <<>>
          /\ loc[p].op = "create" /\ undo[p] # <<>>
      BY <1>7, <1>0, Push
      DEF EnableForward, Cleanup, Cleanups, Locals, Stage, CreateLabels, BuildLabels
    <3>3. Quiet(p)
      BY <2>2, <3>2, <1>0 DEF Quiet, SetForward, HostStates
    <3> QED
      BY <1>7, <3>1, <3>2, <3>3
      DEF EnableForward, Moves, Same, Effect, Stage, CreateLabels, DestroyLabels, RecordedLabels,
          FallbackLabels, SharedLabels, ImpairLabels, BuildLabels
  <2> QED
    BY <1>7, <2>1, <2>2 DEF EnableForward, Run, Fault
<1>8. ASSUME EnsureRule(p) PROVE Effect(p)
  <2>1. Stage(pc'[p], undo'[p], loc'[p].op) /\ Others(p) /\ Same(p)
    BY <1>8, <1>0, <1>empty, GotoMoves, GotoAtMoves
    DEF Same, EnsureRule, Ask, Run, AfterRule, Fault, Moves, Stage,
        CreateLabels, DestroyLabels, RecordedLabels, FallbackLabels,
        SharedLabels, ImpairLabels, BuildLabels
  <2>2. host'.bridge = host.bridge
    BY <1>8, <1>0
    DEF EnsureRule, Ask, Run, Fault, KeepState, HostStates
  <2>3. undo'[p] = <<>> \/ undo[p] # <<>>
    BY <1>8, <1>0, GotoMoves, GotoAtMoves
    DEF EnsureRule, Ask, Run, Fail, AfterRule, Moves
  <2> QED
    BY <2>1, <2>2, <2>3 DEF Effect, Quiet
<1>9. ASSUME AddRule(p) PROVE Effect(p)
  <2> DEFINE l == IF loc[p].at < RuleCount THEN "cRuleCheck" ELSE "cNetnsAdd"
             c == Cleanup("rule", loc[p].at)
  <2>1. CASE Goto(p, "cRollback") /\ UNCHANGED host
    <3>1. Moves(p, "cRollback", undo[p], loc[p].op)
      BY <2>1, <1>0, GotoMoves
    <3> QED
      BY <1>9, <2>1, <3>1, <1>0
      DEF AddRule, Moves, Same, Effect, Quiet, Stage, CreateLabels, DestroyLabels,
          RecordedLabels, FallbackLabels, SharedLabels, ImpairLabels, BuildLabels
  <2>2. CASE /\ host' = RuleAdd(host, loc[p].at)
             /\ undo' = [undo EXCEPT ![p] = Append(@, c)]
             /\ pc' = [pc EXCEPT ![p] = l]
             /\ loc' = [loc EXCEPT ![p].at = IF loc[p].at < RuleCount THEN loc[p].at + 1 ELSE 1]
    <3>1. Moves(p, l, Append(undo[p], c), loc[p].op)
      BY <2>2, <1>0 DEF ControlInv, Locals, Moves, Others
    <3>2. /\ BridgeFirst(Append(undo[p], c))
          /\ Append(undo[p], c) # <<>>
          /\ loc[p].op = "create" /\ undo[p] # <<>>
      BY <1>9, <1>0, Push
      DEF AddRule, Cleanup, Cleanups, Locals, Stage, CreateLabels, BuildLabels
    <3>3. Quiet(p)
      BY <2>2, <3>2, <1>0 DEF Quiet, RuleAdd, HostStates
    <3> QED
      BY <1>9, <3>1, <3>2, <3>3
      DEF AddRule, Moves, Same, Effect, Stage, CreateLabels, DestroyLabels, RecordedLabels,
          FallbackLabels, SharedLabels, ImpairLabels, BuildLabels
  <2> QED
    BY <1>9, <2>1, <2>2 DEF AddRule, Fault
<1>10. ASSUME AddNetns(p) PROVE Effect(p)
  <2>1. CASE Goto(p, "cRollback") /\ UNCHANGED host
    <3>1. Moves(p, "cRollback", undo[p], loc[p].op)
      BY <2>1, <1>0, GotoMoves
    <3> QED
      BY <1>10, <2>1, <3>1, <1>0
      DEF AddNetns, Moves, Same, Effect, Quiet, Stage, CreateLabels, DestroyLabels,
          RecordedLabels, FallbackLabels, SharedLabels, ImpairLabels, BuildLabels
  <2>2. CASE host' = NetnsAdd(host, loc[p].at) /\ Defer(p, "cVethAdd", Cleanup("netns", loc[p].at))
    <3>1. Moves(p, "cVethAdd", Append(undo[p], Cleanup("netns", loc[p].at)), loc[p].op)
      BY <2>2, <1>0, DeferMoves
    <3>2. /\ BridgeFirst(Append(undo[p], Cleanup("netns", loc[p].at)))
          /\ Append(undo[p], Cleanup("netns", loc[p].at)) # <<>>
          /\ loc[p].op = "create" /\ undo[p] # <<>>
      BY <1>10, <1>0, Push
      DEF AddNetns, Cleanup, Cleanups, Locals, Stage, CreateLabels, BuildLabels
    <3>3. Quiet(p)
      BY <2>2, <3>2, <1>0 DEF Quiet, NetnsAdd, HostStates
    <3> QED
      BY <1>10, <3>1, <3>2, <3>3
      DEF AddNetns, Moves, Same, Effect, Stage, CreateLabels, DestroyLabels, RecordedLabels,
          FallbackLabels, SharedLabels, ImpairLabels, BuildLabels
  <2> QED
    BY <1>10, <2>1, <2>2 DEF AddNetns, Run, Fault
<1>11. ASSUME AddVeth(p) PROVE Effect(p)
  <2>1. Stage(pc'[p], undo'[p], loc'[p].op) /\ Others(p) /\ Same(p)
    BY <1>11, <1>0, <1>empty, GotoMoves
    DEF Same, AddVeth, Ask, Run, Fault, Moves, Stage, CreateLabels,
        DestroyLabels, RecordedLabels, FallbackLabels, SharedLabels,
        ImpairLabels, BuildLabels
  <2>2. host'.bridge = host.bridge
    BY <1>11, <1>0
    DEF AddVeth, Ask, Run, Fault, KeepState, HostStates, VethAdd
  <2>3. undo'[p] = <<>> \/ undo[p] # <<>>
    BY <1>11, <1>0, GotoMoves
    DEF AddVeth, Ask, Run, Fail, Moves
  <2> QED
    BY <2>1, <2>2, <2>3 DEF Effect, Quiet
<1>12. ASSUME MoveVeth(p) PROVE Effect(p)
  <2>1. Stage(pc'[p], undo'[p], loc'[p].op) /\ Others(p) /\ Same(p)
    BY <1>12, <1>0, <1>empty, GotoMoves
    DEF Same, MoveVeth, KeepState, Moves, Stage, CreateLabels,
        DestroyLabels, RecordedLabels, FallbackLabels, SharedLabels,
        ImpairLabels, BuildLabels
  <2>2. host'.bridge = host.bridge
    BY <1>12, <1>0
    DEF MoveVeth, HostStates, VethMove, VethLeft
  <2>3. undo'[p] = <<>> \/ undo[p] # <<>>
    BY <1>12, <1>0, GotoMoves
    DEF MoveVeth, Moves
  <2> QED
    BY <2>1, <2>2, <2>3 DEF Effect, Quiet
<1>13. ASSUME EnslavePeer(p) PROVE Effect(p)
  <2>1. Stage(pc'[p], undo'[p], loc'[p].op) /\ Others(p) /\ Same(p)
    BY <1>13, <1>0, <1>empty, GotoMoves
    DEF Same, EnslavePeer, Ask, Run, Fault, Moves, Stage, CreateLabels,
        DestroyLabels, RecordedLabels, FallbackLabels, SharedLabels,
        ImpairLabels, BuildLabels
  <2>2. host'.bridge = host.bridge
    BY <1>13, <1>0
    DEF EnslavePeer, Ask, Run, Fault, KeepState, HostStates, Enslave
  <2>3. undo'[p] = <<>> \/ undo[p] # <<>>
    BY <1>13, <1>0, GotoMoves
    DEF EnslavePeer, Ask, Run, Fail, Moves
  <2> QED
    BY <2>1, <2>2, <2>3 DEF Effect, Quiet
<1>14. ASSUME RenameVeth(p) PROVE Effect(p)
  <2>1. Stage(pc'[p], undo'[p], loc'[p].op) /\ Others(p) /\ Same(p)
    BY <1>14, <1>0, <1>empty, GotoMoves
    DEF Same, RenameVeth, Ask, Run, Fault, Moves, Stage, CreateLabels,
        DestroyLabels, RecordedLabels, FallbackLabels, SharedLabels,
        ImpairLabels, BuildLabels
  <2>2. host'.bridge = host.bridge
    BY <1>14, <1>0
    DEF RenameVeth, Ask, Run, Fault, KeepState, HostStates, Rename
  <2>3. undo'[p] = <<>> \/ undo[p] # <<>>
    BY <1>14, <1>0, GotoMoves
    DEF RenameVeth, Ask, Run, Fail, Moves
  <2> QED
    BY <2>1, <2>2, <2>3 DEF Effect, Quiet
<1>15. ASSUME PingBridge(p) PROVE Effect(p)
  <2>1. Stage(pc'[p], undo'[p], loc'[p].op) /\ Others(p) /\ Same(p)
    BY <1>15, <1>0, <1>empty, GotoMoves, GotoAtMoves
    DEF Same, PingBridge, Ask, Run, Fault, Moves, Stage, CreateLabels,
        DestroyLabels, RecordedLabels, FallbackLabels, SharedLabels,
        ImpairLabels, BuildLabels
  <2>2. host'.bridge = host.bridge
    BY <1>15, <1>0
    DEF PingBridge, Ask, Run, Fault, KeepState, HostStates
  <2>3. undo'[p] = <<>> \/ undo[p] # <<>>
    BY <1>15, <1>0, GotoMoves, GotoAtMoves
    DEF PingBridge, Ask, Run, Fail, Moves
  <2> QED
    BY <2>1, <2>2, <2>3 DEF Effect, Quiet
<1>16. ASSUME SaveState(p) PROVE Effect(p)
  <2>1. Stage(pc'[p], undo'[p], loc'[p].op) /\ Others(p) /\ Same(p)
    BY <1>16, <1>0, <1>empty, GotoMoves, ReturnMoves
    DEF Same, SaveState, Ask, Run, Fail, Fault, Moves, Stage, CreateLabels,
        DestroyLabels, RecordedLabels, FallbackLabels, SharedLabels,
        ImpairLabels, BuildLabels
  <2>2. host'.bridge = host.bridge
    BY <1>16, <1>0
    DEF SaveState, Ask, Run, Fault, KeepState, HostStates
  <2>3. undo'[p] = <<>> \/ undo[p] # <<>>
    BY <1>16, <1>0, GotoMoves, ReturnMoves
    DEF SaveState, Ask, Run, Fail, Moves
  <2> QED
    BY <2>1, <2>2, <2>3 DEF Effect, Quiet
<1>17. ASSUME Rollback(p) PROVE Effect(p)
  <2>1. CASE undo[p] = <<>>
    <3>1. Moves(p, "idle", <<>>, "none") /\ UNCHANGED host
      BY <1>17, <2>1, <1>0, ReturnMoves DEF Rollback, Fail
    <3> QED
      BY <1>17, <1>empty, <3>1 DEF Rollback, Moves, Same, Effect, Quiet, Stage, CreateLabels, DestroyLabels,
         RecordedLabels, FallbackLabels, SharedLabels, ImpairLabels, BuildLabels
  <2>2. CASE undo[p] # <<>>
    <3>1. /\ pc'[p] = "cRollback" /\ undo'[p] = Front(undo[p])
          /\ loc'[p].op = loc[p].op /\ Others(p)
      BY <1>17, <2>2, <1>0 DEF Rollback, ControlInv, Others
    <3>2. /\ BridgeFirst(Front(undo[p]))
          /\ Front(undo[p]) = <<>> <=> Last(undo[p]).kind = "bridge"
      BY <2>2, <1>0, Pop DEF Stage
    <3>3. Stage(pc'[p], undo'[p], loc'[p].op)
      BY <1>17, <3>1, <3>2, <1>0
      DEF Rollback, Stage, CreateLabels, DestroyLabels, RecordedLabels,
          FallbackLabels, SharedLabels, ImpairLabels, BuildLabels
    <3>4. CASE Front(undo[p]) = <<>>
      BY <1>17, <2>2, <3>1, <3>3, <3>4 DEF Rollback, Effect, Same, Releases
    <3>5. CASE Front(undo[p]) # <<>>
      <4>1. Last(undo[p]) \in Cleanups /\ Last(undo[p]).kind # "bridge"
        BY <2>2, <3>2, <3>5, <1>0 DEF Last
      <4>2. Undone(host, Last(undo[p]), loc[p].before).bridge = host.bridge
        BY <4>1, <1>0 DEF Cleanups, Undone, SetForward, RuleDel, NetnsDel, HostStates
      <4>3. host'.bridge = host.bridge
        BY <1>17, <2>2, <4>2 DEF Rollback, Fault
      <4> QED
        BY <1>17, <2>2, <3>1, <3>3, <4>3 DEF Rollback, Effect, Same, Quiet
    <3> QED
      BY <3>4, <3>5
  <2> QED
    BY <2>1, <2>2
<1>18. ASSUME DestroyLoad(p) PROVE Effect(p)
  <2>1. CASE Fail(p) /\ UNCHANGED host
    <3>1. Moves(p, "idle", <<>>, "none")
      BY <2>1, <1>0, ReturnMoves DEF Fail
    <3> QED
      BY <1>18, <1>empty, <2>1, <3>1, <1>0
      DEF DestroyLoad, Moves, Same, Effect, Quiet, Stage, CreateLabels, DestroyLabels,
          RecordedLabels, FallbackLabels, SharedLabels, ImpairLabels, BuildLabels
  <2>2. CASE /\ UNCHANGED <<host, undo>> /\ pc' = [pc EXCEPT ![p] = IF stateFile = NoState THEN "fBridge" ELSE "dNode"]
             /\ loc' = [loc EXCEPT ![p].seen = stateFile]
    <3>1. Moves(p, IF stateFile = NoState THEN "fBridge" ELSE "dNode", undo[p], loc[p].op)
      BY <2>2, <1>0 DEF ControlInv, Locals, Moves, Others
    <3> QED
      BY <1>18, <2>2, <3>1, <1>0
      DEF DestroyLoad, Moves, Same, Effect, Quiet, Stage, CreateLabels, DestroyLabels,
          RecordedLabels, FallbackLabels, SharedLabels, ImpairLabels, BuildLabels
  <2> QED
    BY <1>18, <2>1, <2>2 DEF DestroyLoad, Fault
<1>19. ASSUME DeleteNode(p) PROVE Effect(p)
  <2>1. Stage(pc'[p], undo'[p], loc'[p].op) /\ Others(p) /\ Same(p)
    BY <1>19, <1>0, <1>empty, GotoMoves, GotoAtMoves, ReturnMoves
    DEF Same, DeleteNode, Ask, Run, Fail, Fault, Moves, Stage, CreateLabels,
        DestroyLabels, RecordedLabels, FallbackLabels, SharedLabels,
        ImpairLabels, BuildLabels
  <2>2. host'.bridge = host.bridge
    BY <1>19, <1>0
    DEF DeleteNode, Ask, Run, Fault, KeepState, HostStates, NetnsDel
  <2>3. undo'[p] = <<>> \/ undo[p] # <<>>
    BY <1>19, <1>0, GotoMoves, GotoAtMoves, ReturnMoves
    DEF DeleteNode, Ask, Run, Fail, Moves
  <2> QED
    BY <2>1, <2>2, <2>3 DEF Effect, Quiet
<1>20. ASSUME DestroyBridgeExists(p) PROVE Effect(p)
  <2>1. Stage(pc'[p], undo'[p], loc'[p].op) /\ Others(p) /\ Same(p)
    BY <1>20, <1>0, <1>empty, GotoMoves, GotoAtMoves, ReturnMoves
    DEF Same, DestroyBridgeExists, Ask, Run, Fail, Fault, Moves, Stage,
        CreateLabels, DestroyLabels, RecordedLabels, FallbackLabels,
        SharedLabels, ImpairLabels, BuildLabels
  <2>2. host'.bridge = host.bridge
    BY <1>20, <1>0
    DEF DestroyBridgeExists, Ask, Run, Fault, KeepState, HostStates
  <2>3. undo'[p] = <<>> \/ undo[p] # <<>>
    BY <1>20, <1>0, GotoMoves, GotoAtMoves, ReturnMoves
    DEF DestroyBridgeExists, Ask, Run, Fail, Moves
  <2> QED
    BY <2>1, <2>2, <2>3 DEF Effect, Quiet
<1>21. ASSUME FallbackBridgeExists(p) PROVE Effect(p)
  <2>1. Stage(pc'[p], undo'[p], loc'[p].op) /\ Others(p) /\ Same(p)
    BY <1>21, <1>0, <1>empty, GotoMoves, GotoAtMoves, ReturnMoves
    DEF Same, FallbackBridgeExists, Ask, Run, Fail, Fault, Moves, Stage,
        CreateLabels, DestroyLabels, RecordedLabels, FallbackLabels,
        SharedLabels, ImpairLabels, BuildLabels
  <2>2. host'.bridge = host.bridge
    BY <1>21, <1>0
    DEF FallbackBridgeExists, Ask, Run, Fault, KeepState, HostStates
  <2>3. undo'[p] = <<>> \/ undo[p] # <<>>
    BY <1>21, <1>0, GotoMoves, GotoAtMoves, ReturnMoves
    DEF FallbackBridgeExists, Ask, Run, Fail, Moves
  <2> QED
    BY <2>1, <2>2, <2>3 DEF Effect, Quiet
<1>22. ASSUME ListMembers(p) PROVE Effect(p)
  <2>1. CASE Fail(p) /\ UNCHANGED host
    <3>1. Moves(p, "idle", <<>>, "none")
      BY <2>1, <1>0, ReturnMoves DEF Fail
    <3> QED
      BY <1>22, <1>empty, <2>1, <3>1, <1>0
      DEF ListMembers, Moves, Same, Effect, Quiet, Stage, CreateLabels, DestroyLabels,
          RecordedLabels, FallbackLabels, SharedLabels, ImpairLabels, BuildLabels
  <2>2. CASE /\ UNCHANGED <<host, undo>> /\ pc' = [pc EXCEPT ![p] = "fPeer"]
             /\ loc' = [loc EXCEPT ![p].members = host.ports]
    <3>1. Moves(p, "fPeer", undo[p], loc[p].op)
      BY <2>2, <1>0 DEF ControlInv, Locals, Moves, Others
    <3> QED
      BY <1>22, <2>2, <3>1, <1>0
      DEF ListMembers, Moves, Same, Effect, Quiet, Stage, CreateLabels, DestroyLabels,
          RecordedLabels, FallbackLabels, SharedLabels, ImpairLabels, BuildLabels
  <2> QED
    BY <1>22, <2>1, <2>2 DEF ListMembers, Fault
<1>23. ASSUME DeletePeer(p) PROVE Effect(p)
  <2>1. undo'[p] = <<>> /\ Same(p) /\ Others(p) /\ Stage(pc'[p], undo'[p], loc'[p].op)
    <3>1. CASE Fail(p)
      BY <3>1, <1>0, <1>empty, ReturnMoves DEF Fail, Moves, Same, Stage, CreateLabels,
         DestroyLabels, RecordedLabels, FallbackLabels, SharedLabels, ImpairLabels, BuildLabels
    <3>2. CASE Goto(p, "dDown")
      BY <1>23, <3>2, <1>0, GotoMoves DEF DeletePeer, Moves, Same, Stage, CreateLabels,
         DestroyLabels, RecordedLabels, FallbackLabels, SharedLabels, ImpairLabels, BuildLabels
    <3>3. ASSUME NEW i \in loc[p].members, UNCHANGED <<pc, undo, result>>,
                 loc' = [loc EXCEPT ![p].members = @ \ {i}]
          PROVE  undo'[p] = <<>> /\ Same(p) /\ Others(p) /\ Stage(pc'[p], undo'[p], loc'[p].op)
      <4>1. loc'[p].op = loc[p].op /\ Others(p)
        BY <3>3, <1>0 DEF ControlInv, Locals, Others
      <4> QED
        BY <1>23, <3>3, <4>1, <1>0 DEF DeletePeer, Same, Stage, CreateLabels,
           DestroyLabels, RecordedLabels, FallbackLabels, SharedLabels, ImpairLabels, BuildLabels
    <3> QED
      BY <1>23, <3>1, <3>2, <3>3 DEF DeletePeer, Run
  <2> QED
    BY <1>23, <2>1 DEF DeletePeer, Effect, Destroys, DestroyLabels, FallbackLabels
<1>24. ASSUME BridgeDown(p) PROVE Effect(p)
  <2>1. Stage(pc'[p], undo'[p], loc'[p].op) /\ Others(p) /\ Same(p)
    BY <1>24, <1>0, <1>empty, GotoMoves, ReturnMoves
    DEF Same, BridgeDown, Ask, Run, Fail, Fault, Moves, Stage, CreateLabels,
        DestroyLabels, RecordedLabels, FallbackLabels, SharedLabels,
        ImpairLabels, BuildLabels
  <2>2. host'.bridge = host.bridge
    BY <1>24, <1>0
    DEF BridgeDown, Ask, Run, Fault, KeepState, HostStates
  <2>3. undo'[p] = <<>> \/ undo[p] # <<>>
    BY <1>24, <1>0, GotoMoves, ReturnMoves
    DEF BridgeDown, Ask, Run, Fail, Moves
  <2> QED
    BY <2>1, <2>2, <2>3 DEF Effect, Quiet
<1>25. ASSUME DeleteBridge(p) PROVE Effect(p)
  <2>1. Stage(pc'[p], undo'[p], loc'[p].op) /\ Others(p) /\ Same(p)
    BY <1>25, <1>0, <1>empty, GotoMoves, GotoAtMoves, ReturnMoves
    DEF Same, DeleteBridge, Ask, Run, Fail, Fault, Moves, Stage, CreateLabels,
        DestroyLabels, RecordedLabels, FallbackLabels, SharedLabels,
        ImpairLabels, BuildLabels
  <2>2. Destroys(p)
    BY <1>25, <1>0, GotoMoves, GotoAtMoves, ReturnMoves
    DEF DeleteBridge, Run, Fail, Fault, Moves, Destroys, Stage, CreateLabels,
        DestroyLabels, RecordedLabels, FallbackLabels, SharedLabels,
        ImpairLabels, BuildLabels
  <2> QED
    BY <2>1, <2>2 DEF Effect, Quiet
<1>26. ASSUME CheckRule(p) PROVE Effect(p)
  <2>1. Stage(pc'[p], undo'[p], loc'[p].op) /\ Others(p) /\ Same(p)
    BY <1>26, <1>0, <1>empty, GotoMoves, NextRuleMoves, ReturnMoves
    DEF Same, CheckRule, Ask, Run, Fail, Fault, Moves, Stage, CreateLabels,
        DestroyLabels, RecordedLabels, FallbackLabels, SharedLabels,
        ImpairLabels, BuildLabels
  <2>2. host'.bridge = host.bridge
    BY <1>26, <1>0
    DEF CheckRule, Ask, Run, Fault, KeepState, HostStates
  <2>3. undo'[p] = <<>> \/ undo[p] # <<>>
    BY <1>26, <1>0, GotoMoves, NextRuleMoves, ReturnMoves
    DEF CheckRule, Ask, Run, Fail, Moves
  <2> QED
    BY <2>1, <2>2, <2>3 DEF Effect, Quiet
<1>27. ASSUME DeleteRule(p) PROVE Effect(p)
  <2>1. Stage(pc'[p], undo'[p], loc'[p].op) /\ Others(p) /\ Same(p)
    BY <1>27, <1>0, <1>empty, GotoMoves, NextRuleMoves, ReturnMoves
    DEF Same, DeleteRule, Ask, Run, Fail, Fault, Moves, Stage, CreateLabels,
        DestroyLabels, RecordedLabels, FallbackLabels, SharedLabels,
        ImpairLabels, BuildLabels
  <2>2. host'.bridge = host.bridge
    BY <1>27, <1>0
    DEF DeleteRule, Ask, Run, Fault, KeepState, HostStates, RuleDel
  <2>3. undo'[p] = <<>> \/ undo[p] # <<>>
    BY <1>27, <1>0, GotoMoves, NextRuleMoves, ReturnMoves
    DEF DeleteRule, Ask, Run, Fail, Moves
  <2> QED
    BY <2>1, <2>2, <2>3 DEF Effect, Quiet
<1>28. ASSUME RestoreForward(p) PROVE Effect(p)
  <2>1. Stage(pc'[p], undo'[p], loc'[p].op) /\ Others(p) /\ Same(p)
    BY <1>28, <1>0, <1>empty, GotoMoves, ReturnMoves
    DEF Same, RestoreForward, Ask, Run, Fail, Fault, Moves, Stage,
        CreateLabels, DestroyLabels, RecordedLabels, FallbackLabels,
        SharedLabels, ImpairLabels, BuildLabels
  <2>2. host'.bridge = host.bridge
    BY <1>28, <1>0
    DEF RestoreForward, Ask, Run, Fault, KeepState, HostStates, SetForward
  <2>3. undo'[p] = <<>> \/ undo[p] # <<>>
    BY <1>28, <1>0, GotoMoves, ReturnMoves
    DEF RestoreForward, Ask, Run, Fail, Moves
  <2> QED
    BY <2>1, <2>2, <2>3 DEF Effect, Quiet
<1>29. ASSUME DeleteStateFile(p) PROVE Effect(p)
  <2>1. Stage(pc'[p], undo'[p], loc'[p].op) /\ Others(p) /\ Same(p)
    BY <1>29, <1>0, <1>empty, ReturnMoves
    DEF Same, DeleteStateFile, Ask, Run, Fail, Fault, Moves, Stage,
        CreateLabels, DestroyLabels, RecordedLabels, FallbackLabels,
        SharedLabels, ImpairLabels, BuildLabels
  <2>2. host'.bridge = host.bridge
    BY <1>29, <1>0
    DEF DeleteStateFile, Ask, Run, Fault, KeepState, HostStates
  <2>3. undo'[p] = <<>> \/ undo[p] # <<>>
    BY <1>29, <1>0, ReturnMoves
    DEF DeleteStateFile, Ask, Run, Fail, Moves
  <2> QED
    BY <2>1, <2>2, <2>3 DEF Effect, Quiet
<1>30. ASSUME ImpairLoad(p) PROVE Effect(p)
  <2>1. Stage(pc'[p], undo'[p], loc'[p].op) /\ Others(p) /\ Same(p)
    BY <1>30, <1>0, <1>empty, GotoMoves, ReturnMoves
    DEF Same, ImpairLoad, Ask, Run, Fail, Fault, Moves, Stage, CreateLabels,
        DestroyLabels, RecordedLabels, FallbackLabels, SharedLabels,
        ImpairLabels, BuildLabels
  <2>2. host'.bridge = host.bridge
    BY <1>30, <1>0
    DEF ImpairLoad, Ask, Run, Fault, KeepState, HostStates
  <2>3. undo'[p] = <<>> \/ undo[p] # <<>>
    BY <1>30, <1>0, GotoMoves, ReturnMoves
    DEF ImpairLoad, Ask, Run, Fail, Moves
  <2> QED
    BY <2>1, <2>2, <2>3 DEF Effect, Quiet
<1>31. ASSUME ImpairNamespace(p) PROVE Effect(p)
  <2>1. Stage(pc'[p], undo'[p], loc'[p].op) /\ Others(p) /\ Same(p)
    BY <1>31, <1>0, <1>empty, GotoMoves, ReturnMoves
    DEF Same, ImpairNamespace, Ask, Run, Fail, Fault, Moves, Stage,
        CreateLabels, DestroyLabels, RecordedLabels, FallbackLabels,
        SharedLabels, ImpairLabels, BuildLabels
  <2>2. host'.bridge = host.bridge
    BY <1>31, <1>0
    DEF ImpairNamespace, Ask, Run, Fault, KeepState, HostStates
  <2>3. undo'[p] = <<>> \/ undo[p] # <<>>
    BY <1>31, <1>0, GotoMoves, ReturnMoves
    DEF ImpairNamespace, Ask, Run, Fail, Moves
  <2> QED
    BY <2>1, <2>2, <2>3 DEF Effect, Quiet
<1>32. ASSUME ApplyNetem(p) PROVE Effect(p)
  <2>1. Stage(pc'[p], undo'[p], loc'[p].op) /\ Others(p) /\ Same(p)
    BY <1>32, <1>0, <1>empty, ReturnMoves
    DEF Same, ApplyNetem, Ask, Run, Fail, Fault, Moves, Stage, CreateLabels,
        DestroyLabels, RecordedLabels, FallbackLabels, SharedLabels,
        ImpairLabels, BuildLabels
  <2>2. host'.bridge = host.bridge
    BY <1>32, <1>0
    DEF ApplyNetem, Ask, Run, Fault, KeepState, HostStates, Netem
  <2>3. undo'[p] = <<>> \/ undo[p] # <<>>
    BY <1>32, <1>0, ReturnMoves
    DEF ApplyNetem, Ask, Run, Fail, Moves
  <2> QED
    BY <2>1, <2>2, <2>3 DEF Effect, Quiet
<1>33. ASSUME ClearNetem(p) PROVE Effect(p)
  <2>1. Stage(pc'[p], undo'[p], loc'[p].op) /\ Others(p) /\ Same(p)
    BY <1>33, <1>0, <1>empty, ReturnMoves
    DEF Same, ClearNetem, Ask, Run, Fail, Fault, Moves, Stage, CreateLabels,
        DestroyLabels, RecordedLabels, FallbackLabels, SharedLabels,
        ImpairLabels, BuildLabels
  <2>2. host'.bridge = host.bridge
    BY <1>33, <1>0
    DEF ClearNetem, Ask, Run, Fault, KeepState, HostStates, Netem
  <2>3. undo'[p] = <<>> \/ undo[p] # <<>>
    BY <1>33, <1>0, ReturnMoves
    DEF ClearNetem, Ask, Run, Fail, Moves
  <2> QED
    BY <2>1, <2>2, <2>3 DEF Effect, Quiet
<1>34. ASSUME Reject(p) PROVE Effect(p)
  <2>1. Stage(pc'[p], undo'[p], loc'[p].op) /\ Others(p) /\ Same(p)
    BY <1>34, <1>0, <1>empty, ReturnMoves
    DEF Same, Reject, Ask, Run, Fail, Fault, Moves, Stage, CreateLabels,
        DestroyLabels, RecordedLabels, FallbackLabels, SharedLabels,
        ImpairLabels, BuildLabels
  <2>2. host'.bridge = host.bridge
    BY <1>34, <1>0
    DEF Reject, Ask, Run, Fault, KeepState, HostStates
  <2>3. undo'[p] = <<>> \/ undo[p] # <<>>
    BY <1>34, <1>0, ReturnMoves
    DEF Reject, Ask, Run, Fail, Moves
  <2> QED
    BY <2>1, <2>2, <2>3 DEF Effect, Quiet
<1>35. ASSUME Crash(p) PROVE Effect(p)
  <2>1. Stage(pc'[p], undo'[p], loc'[p].op) /\ Others(p) /\ Same(p)
    BY <1>35, <1>0, <1>empty, ReturnMoves
    DEF Same, Crash, Ask, Run, Fail, Fault, Moves, Stage, CreateLabels,
        DestroyLabels, RecordedLabels, FallbackLabels, SharedLabels,
        ImpairLabels, BuildLabels
  <2>2. host'.bridge = host.bridge
    BY <1>35, <1>0
    DEF Crash, Ask, Run, Fault, KeepState, HostStates
  <2>3. undo'[p] = <<>> \/ undo[p] # <<>>
    BY <1>35, <1>0, ReturnMoves
    DEF Crash, Ask, Run, Fail, Moves
  <2> QED
    BY <2>1, <2>2, <2>3 DEF Effect, Quiet
<1> QED
  BY <1>1, <1>2, <1>3, <1>4, <1>5, <1>6, <1>7, <1>8, <1>9, <1>10, <1>11,
     <1>12, <1>13, <1>14, <1>15, <1>16, <1>17, <1>18, <1>19, <1>20, <1>21,
     <1>22, <1>23, <1>24, <1>25, <1>26, <1>27, <1>28, <1>29, <1>30, <1>31,
     <1>32, <1>33, <1>34, <1>35
  DEF Step, CreateStep, DestroyStep, ImpairStep

\* An invocation starts with no cleanups, and alone if it must run alone.
LEMMA BeginEffect ==
    ASSUME TypeInv, Stages, NEW p \in Procs,
           StartCreate(p) \/ StartDestroy(p) \/ StartApply(p) \/ StartClear(p)
    PROVE  /\ UNCHANGED <<host, undo>>
           /\ Others(p)
           /\ Stage(pc'[p], undo'[p], loc'[p].op)
           /\ pc[p] = "idle" /\ loc'[p].op \in Ops /\ MayStart(loc'[p].op)
<1>0. ControlInv /\ Stage(pc[p], undo[p], loc[p].op)
  BY DEF TypeInv, Stages
<1>1. ASSUME NEW op, NEW l, NEW n, NEW flags, Start(p, op, l, n, flags)
      PROVE  /\ UNCHANGED <<host, undo>> /\ Others(p) /\ undo'[p] = <<>>
             /\ pc[p] = "idle" /\ pc'[p] = l
             /\ loc'[p].op = op /\ op \in Ops /\ MayStart(op)
  BY <1>0, <1>1 DEF Start, ControlInv, Others, Blank, Stage, BuildLabels, CreateLabels
<1>2. BridgeFirst(<<>>)
  BY DEF BridgeFirst
<1> USE DEF Stage, CreateLabels, DestroyLabels, RecordedLabels, FallbackLabels,
            SharedLabels, ImpairLabels, BuildLabels
<1>3. CASE StartCreate(p)
  BY <1>1, <1>2, <1>3 DEF StartCreate
<1>4. CASE StartDestroy(p)
  BY <1>1, <1>2, <1>4 DEF StartDestroy
<1>5. CASE StartApply(p)
  BY <1>1, <1>2, <1>5 DEF StartApply
<1>6. CASE StartClear(p)
  BY <1>1, <1>2, <1>6 DEF StartClear
<1> QED
  BY <1>3, <1>4, <1>5, <1>6

\* Stages is preserved whatever the step was: the other processes keep theirs.
LEMMA OthersKeepStages ==
    ASSUME Stages, NEW p \in Procs, Others(p), Stage(pc'[p], undo'[p], loc'[p].op)
    PROVE  Stages'
<1> SUFFICES ASSUME NEW q \in Procs PROVE Stage(pc'[q], undo'[q], loc'[q].op)
  BY DEF Stages
<1>1. CASE q = p
  BY <1>1
<1>2. CASE q # p
  <2>1. pc'[q] = pc[q] /\ undo'[q] = undo[q] /\ loc'[q] = loc[q]
    BY <1>2 DEF Others
  <2> QED
    BY <2>1 DEF Stages
<1> QED
  BY <1>1, <1>2


\* Building is a matter of p's cleanups alone.
LEMMA OthersKeepBuilding ==
    ASSUME NEW p \in Procs, Others(p), NEW q \in Procs, q # p
    PROVE  Building(q)' <=> Building(q)
  BY DEF Others, Building

\* While somebody destroys, nobody creates.
LEMMA NoMix ==
    ASSUME Separate, Stages, Exclusion, NEW p \in Procs, pc[p] \in DestroyLabels,
           NEW q \in Procs
    PROVE  pc[q] \notin CreateLabels
<1>1. loc[p].op = "destroy" /\ (pc[q] \in CreateLabels => loc[q].op = "create")
  BY DEF Stages, Stage
<1>2. pc[p] # "idle" /\ "idle" \notin CreateLabels /\ "destroy" # "create"
  BY DEF DestroyLabels, RecordedLabels, FallbackLabels, SharedLabels, CreateLabels
<1>3. CASE "destroy" \in SerialOps
  <2>1. q # p => pc[q] = "idle"
    BY <1>1, <1>3 DEF Exclusion
  <2> QED
    BY <1>1, <1>2, <2>1
<1>4. CASE "create" \in SerialOps
  <2>1. pc[q] \in CreateLabels /\ q # p => pc[p] = "idle"
    BY <1>1, <1>4 DEF Exclusion
  <2> QED
    BY <1>1, <1>2, <2>1
<1> QED
  BY <1>3, <1>4 DEF Separate

\* Who has cleanups is in create.
LEMMA BuilderCreates ==
    ASSUME Stages, NEW p \in Procs, Building(p)
    PROVE  pc[p] \in CreateLabels /\ pc[p] \in BuildLabels \cup {"cRollback"}
  BY DEF Stages, Stage, Building, BuildLabels, CreateLabels

\* A step of p keeps the exclusion, whichever of its effects it has.
LEMMA EffectKeepsExclusion ==
    ASSUME Separate, Stages, Exclusion, NEW p \in Procs, Effect(p)
    PROVE  Exclusion'
<1>0. Others(p) /\ Same(p) /\ Stage(pc[p], undo[p], loc[p].op)
  BY DEF Effect, Stages
<1>1. \A q \in Procs \ {p} : Building(q)' <=> Building(q)
  BY <1>0, OthersKeepBuilding
<1>2. ASSUME NEW q \in Procs, NEW r \in Procs, q # r, loc'[q].op \in SerialOps
      PROVE  pc'[r] = "idle"
  <2>1. loc[q].op \in SerialOps
    BY <1>0, <1>2, LabAssumption DEF Others, Same
  <2>2. pc[r] = "idle"
    BY <1>2, <2>1 DEF Exclusion
  <2> QED
    BY <1>0, <2>2 DEF Others, Same
<1>3. /\ OneBuilder'
      /\ \A q \in Procs : Building(q)' => host'.bridge
  <2>1. CASE Quiet(p)
    <3>1. \A q \in Procs : Building(q)' => Building(q)
      BY <1>1, <2>1 DEF Quiet, Building
    <3> QED
      BY <3>1, <2>1 DEF Quiet, Exclusion, OneBuilder
  <2>2. CASE Founds(p)
    <3>1. \A q \in Procs \ {p} : ~Building(q)'
      BY <1>1, <2>2 DEF Founds, Exclusion
    <3> QED
      BY <3>1, <2>2 DEF Founds, OneBuilder
  <2>3. CASE Releases(p)
    <3>1. ~Building(p)'
      BY <2>3 DEF Releases, Building
    <3>2. \A q \in Procs \ {p} : ~Building(q)'
      BY <1>1, <2>3 DEF Releases, Building, Exclusion, OneBuilder
    <3> QED
      BY <3>1, <3>2 DEF OneBuilder
  <2>4. CASE Destroys(p)
    <3>3. \A q \in Procs \ {p} : ~Building(q)
      BY <2>4, NoMix, BuilderCreates DEF Destroys
    <3>4. ~Building(p)'
      BY <2>4 DEF Destroys, Building
    <3> QED
      BY <1>1, <3>3, <3>4 DEF OneBuilder
  <2> QED
    BY <2>1, <2>2, <2>3, <2>4 DEF Effect
<1> QED
  BY <1>2, <1>3 DEF Exclusion

\* So does the start of an invocation: it waits until it may run.
LEMMA BeginKeepsExclusion ==
    ASSUME TypeInv, Stages, Exclusion, NEW p \in Procs,
           StartCreate(p) \/ StartDestroy(p) \/ StartApply(p) \/ StartClear(p)
    PROVE  Exclusion'
<1>0. /\ UNCHANGED <<host, undo>> /\ Others(p) /\ pc[p] = "idle"
      /\ loc'[p].op \in Ops /\ MayStart(loc'[p].op)
  BY BeginEffect
<1>1. OneBuilder' /\ \A q \in Procs : Building(q)' => host'.bridge
  BY <1>0 DEF Exclusion, OneBuilder, Building
<1>2. ASSUME NEW q \in Procs, NEW r \in Procs, q # r, loc'[q].op \in SerialOps
      PROVE  pc'[r] = "idle"
  <2>1. CASE q = p
    BY <1>0, <1>2, <2>1 DEF MayStart, AllIdle, Others
  <2>2. CASE q # p
    <3>1. loc[q].op \in SerialOps /\ pc'[q] = pc[q]
      BY <1>0, <1>2, <2>2 DEF Others
    <3>2. pc[q] # "idle"
      BY <3>1, LabAssumption DEF Stages, Stage
    <3>3. FALSE
      BY <1>0, <3>1, <3>2 DEF MayStart, AllIdle
    <3> QED
      BY <3>3
  <2> QED
    BY <2>1, <2>2
<1> QED
  BY <1>1, <1>2 DEF Exclusion

\* Nobody builds at first.
LEMMA InitExclusion == Init => ExclusionInv
<1> SUFFICES ASSUME Init PROVE ExclusionInv
  OBVIOUS
<1>1. TypeInv
  BY InitTypes
<1>2. Stages /\ Exclusion
  BY LabAssumption DEF Init, Stages, Stage, BridgeFirst, Exclusion, OneBuilder, Building, Blank,
     CreateLabels, DestroyLabels, RecordedLabels, FallbackLabels, SharedLabels,
     ImpairLabels, BuildLabels
<1> QED
  BY <1>1, <1>2 DEF ExclusionInv

\* The exclusion is an inductive invariant, if no destroy runs beside a create.
LEMMA ExclusionPreserved ==
    ASSUME Separate, ExclusionInv, [Next]_vars
    PROVE  ExclusionInv'
<1> USE DEF ExclusionInv
<1>1. TypeInv'
  BY TypesPreserved
<1>2. CASE UNCHANGED vars
  BY <1>1, <1>2 DEF vars, Stages, Exclusion, OneBuilder, Building
<1>3. ASSUME NEW p \in Procs, Step(p) \/ Reject(p) \/ Crash(p)
      PROVE  Stages' /\ Exclusion'
  <2>1. Effect(p)
    BY <1>3, StepEffect
  <2> QED
    BY <2>1, OthersKeepStages, EffectKeepsExclusion DEF Effect
<1>4. ASSUME NEW p \in Procs,
             StartCreate(p) \/ StartDestroy(p) \/ StartApply(p) \/ StartClear(p)
      PROVE  Stages' /\ Exclusion'
  BY <1>4, BeginEffect, OthersKeepStages, BeginKeepsExclusion
<1>5. ASSUME NEW i \in Nodes, Drain(i) PROVE Stages' /\ Exclusion'
  <2>1. host'.bridge = host.bridge
    BY <1>5 DEF Drain, PeerDel, TypeInv, MachineInv, HostStates
  <2> QED
    BY <1>5, <2>1 DEF Drain, Stages, Exclusion, OneBuilder, Building
<1> QED
  BY <1>1, <1>2, <1>3, <1>4, <1>5 DEF Next, Begin

\* Two creates never build at the same time, if no destroy runs beside them.
THEOREM OneBuilderCorrect ==
    ASSUME Separate
    PROVE  Spec => []OneBuilder
<1>1. ExclusionInv /\ [Next]_vars => ExclusionInv'
  BY ExclusionPreserved
<1>2. ExclusionInv => OneBuilder
  BY DEF ExclusionInv, Exclusion
<1> QED
  BY <1>1, <1>2, InitExclusion, PTL DEF Spec

=============================================================================
