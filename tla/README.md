# Verification of rtc-emulator

`rtc-emulator` builds a lab of network namespaces on one Linux host, impairs the
network of single nodes, and runs WebRTC experiments between them.  Everything
it does is done by short-lived processes that share a host and a few files and
take no lock.  These modules model what those processes do to the host and to
each other, step by step; TLC checks them on small instances, and TLAPS proves
most of the safety properties and the refinements for instances of any size.

## 1. Inventory

| Part | Source | State it keeps | Operations |
|---|---|---|---|
| lab create | `internal/lab/create.go` | bridge, namespaces, veth pairs, iptables rules, `ip_forward`; the slice `cleanups` while it runs | `createWithDeps`, `rollback` |
| lab destroy | `internal/lab/destroy.go` | none of its own; deletes the above | `destroyWithDeps`, `destroyFallbackWithoutState` |
| state file | `internal/lab/state.go` | `/run/rtc-emulator/lab.json` | load, save (temporary file and rename), delete |
| impairments | `internal/lab/apply.go` | the netem qdisc on `eth0` of a node | apply, clear |
| WebRTC P2P run | `internal/lab/webrtc_p2p.go` | run directory, link `latest`, two child processes, their context | validate, start, kill, reap, wait for readiness |
| WebRTC peer | `internal/lab/webrtc_peer.go` | PeerConnection, session descriptions, connected marker, two state strings | signaling, waits, marker, statistics |
| statistics | `internal/lab/webrtc_stats.go` | `stats.<node>.jsonl`, `stats.jsonl` | write, close, merge |
| scenario run | `internal/lab/scenario.go` | as the P2P run, and the impairment of a node | baseline, impaired, recovery, cleanup |
| event log | `internal/lab/eventlog.go` | `events.jsonl` | open, write, close |
| executor | `internal/lab/exec.go` | none | run a command, return its output |
| command line | `internal/cli`, `cmd/rtc-emulator` | flags | one subcommand per operation |

How they interact:

* The subcommands never call each other's processes.  They meet on the host
  (`ip`, `iptables`, `sysctl`, `tc`) and in the state file, which create
  writes last, destroy reads first and deletes last, and apply and clear read
  before they look for the namespace.
* A P2P run starts two hidden `lab webrtc peer` processes with `ip netns exec`.
  The peers exchange offer and answer through files, polled every 50 ms; each
  leaves a marker file when it is connected, for which the run polls too.  A
  peer that fails cancels the context, and with it the other peer.
* A scenario does the same and calls apply and clear meanwhile.

What is hard, and what makes each part correct:

* create runs some twenty commands, each of which may fail.  *A create that
  fails leaves the host as it was*; the code keeps that but for one thing, the veth
  pair it could not move into its namespace, which nothing deletes.  Its checks at the top are stale when it
  acts on them: *two creates never build at the same time*, and *the `ip_forward`
  it records is the one the host had*.
* destroy must work on any remains, and may be repeated, killed, and run twice
  at once.  *It forgets a lab only when nothing of it is left*, and *repeated
  often enough it succeeds*.
* apply reads the state file, then the namespaces, then runs `tc`.  *No
  impairment outlives the record through which it can be cleared.*
* The P2P run has two processes, three goroutines, two timers per wait, and
  files for messages.  *It leaves no process behind, reports success only for a
  complete result, ends as soon as one peer fails, and ends in any case.*
* The scenario applies and clears an impairment while its peers run, each of
  which may fail or be disturbed by another process.  *It goes through all its
  phases whatever fails, leaves no impairment of its own, and its event log says
  what was in force.*
* The link `runs/latest` is updated with three calls that nothing holds together.
  *It never dangles, shows the run that set it last, and a run fails at it only
  because of another.*
* The statistics of both peers are merged by their stamps.  *Nothing is lost, and
  only a clock that is set back changes the order.*

`PROJECT.json` lists the places in the code where each of these may go wrong.

## 2. Modules

| Module | What it is |
|---|---|
| `Host` | the host as the commands see it; functions from a host to the host a command leaves behind (external: not code of the repository) |
| `Lab` | create, destroy with its fallback, apply and clear as processes that run one invocation after another |
| `LabLifecycle` | abstract specification: what create and destroy promise together |
| `LabRefinement` | `Lab` implements `LabLifecycle`, with the mapping |
| `LabInvariants` | the inductive strengthenings of the invariants of `Lab` |
| `LabProofs`, `LabExclusion`, `LabRecordProofs` | theorems about `Lab`: types, exclusion, and all that concerns the record of a lab with the refinement |
| `MCLab` | values for TLC |
| `Peers` | the two peer processes of a run, the goroutines that start, kill and reap them, and the network between them |
| `Runs` | EXTENDS `Peers`: the steps that both kinds of run share, with the place each goes to as a parameter |
| `P2PRun` | EXTENDS `Runs`: `lab webrtc p2p` |
| `ScenarioRun` | EXTENDS `Runs`, INSTANCE of `Lab`: `lab scenario run` on a lab, with other processes beside it |
| `Experiment` | abstract specification: what a run of two peers promises, implemented by `P2PRun` and by `ScenarioRun` |
| `LatestLink` | several runs that update `runs/latest` |
| `StatsMerge` | the order of the merged statistics |
| `RunsProofs` | lemmas about `Peers` and `Runs` |
| `P2PRunProofs`, `ScenarioRunProofs` | theorems about the two kinds of run |
| `LatestLinkProofs`, `StatsMergeProofs` | theorems about these |

### Lab

One step is one external command, or one read or write of the state file,
together with the branch the code takes on its outcome.  `pc[p]` names the
command that process `p` runs next: `c...` in create, `d...` in destroy, `f...`
in its fallback, `t...` in apply and clear.  `undo[p]` is the slice `cleanups`,
`loc[p]` the arguments and locals.  A create passes

    cLoad cBridge cNetns  cAddBridge cSetBridge cReadForward cSetForward
    (cRuleCheck cRuleAdd)*  (cNetnsAdd cVethAdd cVethMove cEnslave cRename cPing)*
    cSave

and goes to `cRollback` on any error after `cAddBridge`, where it runs its
cleanups last to first.  A destroy passes

    dLoad dNode* dBridge dDown dDel (dRuleCheck dRuleDel)* dForward dForget

or, without a state file, `fBridge fList fPeer*` before `dDown`.

`Run` and `Ask` are the two ways the code uses its executor.  Each command
succeeds when the host allows it, fails when it does not, and may fail for a
reason of its own (`Fault`) `MaxFaults` times.  `Crash` kills a process between
any two steps, `MaxCrashes` times; what it deferred does not run.  Errors within
a rollback are ignored by the code; `FaultyCleanup` says whether the model
includes them.  `SerialOps` are the subcommands that are not run while another
one runs: several properties need such an assumption, and `lab_overtaken` shows
what happens without it.

Data left out: addresses, routes, MTU and pings have no state of their own and
are one step with the interface they concern (`PingBridge`); the ping of the
internet has no effect; bridge name and rules are the same in every state file;
netem parameters are the set of flags given.  The state file is written under
another name and renamed, so that a save is one step.

`ip netns del` returns before the kernel has deleted the interfaces of the
namespace.  `NetnsDel` therefore removes the name only and leaves the veth pair
`dying`: its other end is still a port of the bridge, in the way of the next
create.  `Drain` is the kernel's step that deletes it.

A veth pair is `host` between its creation and its move into the namespace, then
`moved`.  create has no cleanup for the pair itself; it is to go with the namespace.
When the move fails the pair is `left` in the root namespace (`VethLeft`), and the
rollback that follows does not touch it.  `left` differs from `host` only in that the
create which made the pair has given it up.

### Peers, Runs and P2PRun

`stage[r]` is the call that peer `r` makes next, or how the process ended.  The
offerer passes

    start gather write commit await connect open mark commitMark log first sample close ok

and the answerer has `await` before `gather`.  `write` is the temporary file,
which no reader sees; `commit` is the rename.  `stats[r]` is the log of the peer,
`torn` when a write to it has failed half way; a write may also fail with nothing
written.  Each peer has a goroutine in the run:
`Spawn`, `Kill` when the context is cancelled, `Reap`, which cancels the context
when the peer has failed.  `Handshake` and `Hear` stand for the WebRTC library
and the network: once both sides hold both descriptions they may reach each
other, and then each side may make its two callbacks, in any order, or never.

`run` is the step of the run.  `Runs` has the steps that `runWebRTCP2PWithDeps`
and `runScenarioWithDeps` share (preparing, starting the peers, waiting for the
markers, waiting for the processes, merging, closing the event log); P2PRun puts
them in this order:

    prepare start launch ready connected wait merge complete cleanup close

Reading a marker or a description, recording an event, merging and closing may each fail; every
wait may time out, and `late` remembers that one has.  `runErr` is whether an
error has been joined.  `Crash` kills the run but not its peers.

Time is not modelled: a timer may fire at any moment, and the number of records
before the deadline is anything up to `MaxSamples`.  What a record contains and
the two state strings in it are left out.

`Experiment` knows of each peer whether it runs or has ended well or badly, how
many records it has logged, whether the report (`stats.jsonl`) is written, and
the verdict.  `Runs!Promise` is the mapping, `ImplementsExperiment` the property.

### ScenarioRun

A scenario passes

    validate namespaces prepare launch ready baseline
    apply impaired (clear recovery | skip) cleanup cleaned wait merge close

where `apply`, `clear` and `cleanup` start a call of module `Lab`, whose steps
`CallStep` takes one by one, and `impaired`, `recovery` and `cleaned` record what
it came to.  `L` is `Lab` with the processes `Me` and `Others`; `condition` is
what `--delay`, `--loss`, `--jitter` and `--bw` come to after defaults.  Two things
differ from a P2P run, and the model keeps both: the wait for the markers does not
end when a peer fails (`PeerLost` is not among the steps), and a run that cannot
record its baseline returns without waiting for its peers (`Abort`).

The lab and the peers meet in three places.  A peer is started only if its
namespace has its name (`Present`), the two reach each other only if both nodes are
on the bridge (`Network`), and a namespace that destroy has deleted drains only
when no peer runs in it any more (`Drain`).

### LatestLink and StatsMerge

`LatestLink` has the steps before a run starts: `mkdir`, `lstat`, `remove`,
`symlink`, `open` (the event log) and, for scenarios, `signal`, in the order of
the command.  A run that ends there is `refused` because of what it found at the
link, or `failed` because of a fault.  `last` and `disturbed` are history variables.

`StatsMerge` has a clock that stands still, jumps forward, and is set back
`MaxResets` times; `Sample` stamps a record, `Merge` sorts both logs.  `Rank` is
the place `sort.SliceStable` gives a record.  The unit of the clock is half a second,
because the text of a stamp sorts differently from its time only if it has a fraction.

## 3. What is checked

`MaxNodes = 2` gives every loop over nodes a first and a last turn and two labs
of different sizes; two rules do so for the rules.  Two
processes make every race of two invocations; `lab_destroy_race` has three, for
two destroys that fail into each other while a third one, or an apply, runs.

| Run | Instance | States | Properties | What it shows |
|---|---|---|---|---|
| `lab_create_race` | two processes, two faults, destroy alone | 91 k | `TypeOK` `OneBuilder` `UnrecordedIsRestored` `RecordedForwardIsOriginal` `ImplementsLifecycle` | a create that fails anywhere undoes itself, but for a pair it could not move; of two that race one builds, the other refuses or fails, and neither disturbs the other; the remains of a destroyed lab make create fail, not go wrong |
| `lab_destroy_race` | three processes, one fault, create alone | 590 k | `NoStuckQdisc` `ForgetLast` `ImplementsLifecycle` | racing destroys, applies and clears: the record goes last, no qdisc outlives it |
| `lab_remains` | one kill, one fault (rollbacks too), a rule of the host's own, create and apply alone | 270 k | `NothingBesideRecord` `RuleOnce` `ForgetLast` `Termination` `RetriedDestroyConverges` | no history of kills mixes the remains of one lab with the next; every invocation returns; repeated destroys end with no record |
| `p2p` | two faults, one kill of the run, three records | 59 k | `TypeOK` `NoPeerOutlivesRun` `ConnectedIsBoth` `SuccessIsComplete` `MergedIsFinal` `NoUnexplainedFailure` `ImplementsExperiment` `FailFast` `Termination` | what a run leaves, records and reports when calls fail, waits time out and peers are killed at any step; a failed peer ends it with no timer's help; everything started ends, the peers of a killed run too |
| `scenario_alone` | two faults, one kill, a node that is impaired already, a valid and an invalid condition | 553 k | `TypeOK` `AllPhases` `NoImpairmentLeft` `EventsMatchHost` `SuccessIsComplete` `NoPeerOutlivesRun` `NoUnexplainedFailure` `ImplementsExperiment` `Termination` | apply, clear and record may fail at any phase: the run goes on, cleans up after one failure, and says in its event log what was in force |
| `scenario_shared` | another process applies another impairment, clears or destroys, once, at any moment | 630 k | `AllPhases` `NoImpairmentLeft` `SuccessIsComplete` | a run whose lab is taken away still records all phases and does not report success unless it had been through; only the other's impairment is left |
| `latest_link` | three runs of either command, one fault, one kill | 35 k | `TypeOK` `NeverDangles` `RefusedOnlyIfDisturbed` `LinkOfLast` | runs that start together never leave a dangling or a stale link, and never refuse one another all |
| `stats_merge` | three records of each peer, one reset of the clock | 592 k | `NothingLost` `OnlyResetsReorder` | ties and jumps of the clock lose and reorder nothing |

In `scenario_alone` two faults are what it takes to leave an impairment behind,
one in each clear, so that `NoImpairmentLeft` is claimed of fewer and its bound is
met.  In `scenario_shared` no call fails for a reason of its own and nobody is
killed: calls fail there because of what the other process does, and with faults
besides the state space is beyond reach.  For the same reason its waits time out
only when they are hopeless (`Hasty = FALSE`): a peer has ended, or the lab is gone.  Two records are enough for a scenario,
the first one and the one at the deadline; `p2p` has one in between.  Three runs at
the link are the fewest in which a run removes a link that was made after its own
Lstat while a third one makes another.  Three records of each peer and five times of the clock
give every order of stamps, every tie, and a reset between any two records.

`UnrecordedIsRestored` and `ImplementsLifecycle` are not claimed of kills (a
killed create does not undo itself) nor of rollbacks whose commands fail, and
`ImplementsLifecycle` not of a host that has rules of its own: those runs leave
them out.  `Restored`, which `UnrecordedIsRestored` claims of the host, is all of it:
bridge, namespaces, ports, rules, `ip_forward`, `eth0`, qdiscs and veth pairs.  It
makes two exceptions, pairs that are `left` and pairs that are `dying`.  A pair of
any other state on a host without a record would violate it, so that the leak which
`lab_veth_leak` shows is the only one.

`AllPhases` misses a phase only in `unwritten`, a history variable to which a record
is added when its own write fails.  Of a run without such a failure it demands all
four records, whatever else has failed.

Four runs are there for a violation: in each of them the code does something
else than a document or a message of it says.  They are described, with the
lines, under `findings` in `PROJECT.json`.

| Run | Property | What happens |
|---|---|---|
| `lab_veth_leak` | `DestroyLeavesNoInterface` | one failing command in create leaves a veth pair that no destroy removes and every later create trips over |
| `lab_own_rules` | `DestroyKeepsOwnRules` | destroy deletes rules the host had before the lab |
| `lab_unblock` | `DestroyUnblocksCreate` | after a killed create, destroy succeeds and create refuses with the advice to run destroy |
| `lab_overtaken` | `NoStuckNamespace` | a destroy deletes by name, at its end, the state file of the lab a create has built meanwhile |

Fairness.  `Lab!FairSpec` is weak fairness of the steps of each process: a
process that runs goes on running.  Nobody is obliged to start one, and nothing
is assumed of faults and kills.  `RetriedDestroyConverges` says in the property
itself that destroy is started again and again.  In `P2PRun`, `FairSpec` is weak
fairness of the run's steps, of each peer's steps and of each goroutine, and of
no timer, callback or network step; `FailFast` needs no more.  `Termination` has
the premise `Timers`, that the timers of the Go runtime fire; the network may
still never connect.  `ScenarioRun!FairSpec` is the same with the timers: a scenario
notices a failed peer only when its wait for the markers has timed out, so that
nothing like `FailFast` holds of it.  Its phases sleep, which is a step that ends.

Deadlock is checked in every run.  `Over` says explicitly when nothing is left to
do.

## 4. What is proved

`LabProofs!TypeCorrect`: `Spec => []TypeOK`, for every set of processes, every
number of nodes, rules, faults and kills, from the two `ASSUME`s of `Host` and
`Lab` about their constants.  `TypeOK` alone is not inductive: the next index of a
loop is in range only because the present one is, and what create records is a
number of nodes only because the request was.  `TypeInv` adds `Indices`: in a
create the request is a number of nodes, in its node loop the index is one of the
requested nodes, and where destroy uses the state file it has loaded one.
The proof goes by the ways a step ends (`Goto`, `GotoAt`, `Defer`, `Return`), a
lemma each, and by one lemma for all commands of module `Host`.

`LabExclusion!OneBuilderCorrect`: two creates never build at the same time, with
any number of processes, faults, kills and failing rollbacks.  It assumes
`Separate`: creates run alone, or destroys do (`"create" \in SerialOps` or
`"destroy" \in SerialOps`); in other words no destroy runs beside a create.  The
code has no lock; the argument is that the bridge serves as one.  The invariant
`ExclusionInv` says that whoever has cleanups to run finds the bridge there, that
in every stack of cleanups the bridge is the first entry and the only one of its
kind, and at which labels a stack may not be empty.  A step then leaves bridge and
stack alone, or adds a bridge where there was none, or deletes it as the last
thing of its own rollback, or belongs to a destroy, beside which nobody builds
(`StepEffect`).

`LabRecordProofs` proves the other safety properties of `Lab`, from two
assumptions on its constants.  `Separate` is what `lab_overtaken` shows to be
necessary.  `Orderly` says that nobody is killed, that rollbacks run to their end
and that the host has no rules of its own; these are the histories of which the
runs claim the same properties (section 3).  The number of processes, nodes,
rules and faults is arbitrary.

| Theorem | Property | Assumes |
|---|---|---|
| `ForgetLastCorrect` | `ForgetLast` | `Separate` |
| `RuleOnceCorrect` | `RuleOnce` | `Separate` |
| `NothingBesideRecordCorrect` | `NothingBesideRecord` | creates run alone |
| `UnrecordedIsRestoredCorrect` | `UnrecordedIsRestored` | `Separate`, `Orderly` |
| `RecordedForwardCorrect` | `RecordedForwardIsOriginal` | `Separate`, `Orderly` |
| `NoStuckQdiscCorrect` | `NoStuckQdisc` | `Separate`, `Orderly` |
| `LabImplementsLifecycle` | `ImplementsLifecycle` | `Separate`, `Orderly` |

None of these properties is inductive.  Module `LabInvariants` has what is missing,
in parts that each say one thing:

* `HostInv`: the kernel keeps ports, interfaces and qdiscs consistent, so that a
  qdisc is evidence of a namespace.
* `TearInv`: whatever a destroy has torn down by its label stays so, and all that
  tear down at a time have loaded the same record.  This makes `ForgetLast` true
  of racing destroys: the one that deletes the file may have done the least.
* `RuleInv`: a rule that is about to be appended is missing, because the builder is
  alone.
* `AloneInv`: a create that is past its checks is alone with what it makes, the
  remains of killed creates included.
* `NobodyInv`, `RecordedInv`, `BuilderInv`, `ReaderInv` (together `CleanInv`): where
  nobody builds and nothing is recorded the host is untouched; a builder's cleanups
  undo everything on the host, to the value `ip_forward` had (`Undoable`), and what
  it has made by its label is there (`Made`); what a process has read of state file
  and bridge is still so.
* `PairInv`: a pair is `host` only while the create that made it is about to move it,
  so that no rollback passes over one that is not `left`.

`RecordInv` collects what needs `Separate` alone, and each theorem is one of

    Init => RecordInv /\ CleanInv,    RecordInv /\ CleanInv /\ [Next]_vars => (RecordInv /\ CleanInv)'

and an implication; `UnrecordedIsRestored` needs `PairInv` besides.  The refinement
goes action by action: every command of create
that makes a piece is `Make`, the commands of rollback and destroy are `Lose`, and
only saving and forgetting change the record.

`P2PRunProofs` proves every safety property of `P2PRun` and `ImplementsExperiment`,
for any number of records, faults and kills.  `RunsProofs` has what belongs to the
peers and to the steps that a scenario shares: `PeersInv` says that no file is ever
half written, what a peer has heard at each of its stages, how much it has logged,
and that only a peer that ended well is reaped with no error; `Onward`, that no step
of a peer takes back what the run relies on once it has looked.  `P2PInv` adds where
the run is with respect to its peers (`PeersOfRun`: it leaves `wait` only when both
are reaped), that only final logs are merged (`MergedInv`), how many events there
are (`EventsInv`), what a run without an error has achieved (`OutcomeInv`), and that
nobody cancels a run that goes well (`SmoothInv`).

`ScenarioRunProofs` proves every safety property of `ScenarioRun` and
`ImplementsExperiment`, for any others beside the run, any conditions, faults and
kills.  Its first half is about the run and its peers: `AllPhases`,
`SuccessIsComplete`, `NoPeerOutlivesRun`, `MergedIsFinal` and the refinement.  The
lemmas of `RunsProofs` do for it what they do for `P2PRun`.  `ScenarioInv` has the
same parts; `OrderInv` says which phases may be recorded at each label, `MissingInv`
that each phase passed is in the event log or in `unwritten`, and `OutcomeInv` how
the event log and the last result explain an error, or that there was none.  Of the
lab this half needs one thing only, `LabFaults`: a step of a call spends one fault or
none.  That is no accident: it is what makes the promises about the experiment
independent of what others do to the lab.

The second half is about the lab: `TypeOK`, `NoImpairmentLeft`, `EventsMatchHost` and
`NoUnexplainedFailure`.  Nobody beside a scenario creates, so whatever apply, clear
and destroy do the lab only becomes less (`Less`), and a call for the run's node
fails, goes on, or leaves on the node what its result says (`ImpairEffect`).  From
these two facts come four invariants:

* `CallsInv`: a call of the run is for its own node and condition, and from the phase
  that makes it; the node's namespace goes before the record of it.
* `CleanInv`: once the run has swept its node, what is on it is somebody else's, or
  a fault has been spent; once it has swept it again, or two have.  This is why the
  clear of the cleanup phase is not superfluous.
* `QuietInv`: with nobody beside the run the lab is whole, and the node carries in
  each phase what the run's own calls have put there.
* `SmoothInv`: with no fault and no timeout either, every call does what it is for,
  and nobody cancels the peers before they have ended.

`ScenarioLeavesNoImpairment` assumes that the run is not asked for the impairment
the others apply (`{"loss"} \notin Given`), without which the property could not tell
whose it is.  `StateAssumption` repeats what `Lab` assumes of `NoState`.

`LatestLinkProofs` proves the four properties of `LatestLink` for any set of runs.
`LinkInv` says that what a run has seen of the link holds still or the run counts
as disturbed, and that while nothing has failed a missing link is about to be made
by somebody.

`StatsMergeProofs` proves both properties of `StatsMerge` for logs of any length.
That `StableSort` sorts is proved from `Rank` alone: ranks are injective because
of two records one precedes the other, hence a permutation of the indices, and
monotone.  `MergeInv` says that the stamps of one era do not decrease.

All invariants were checked by TLC on the runs of their modules before they were
proved.

Only model-checked: liveness (`Termination`, `RetriedDestroyConverges`,
`FailFast`), which the prover does not reach.  Every safety property and every
refinement that a passing run checks is proved.

## 5. What is not modelled

* Parsing of the output of `ip` and `iptables`, of flags and of netem parameters;
  the wording of messages.
* What the WebRTC library reports in its statistics, and the messages on the data
  channel: none of it decides a branch.
* The two state strings of a peer: their order is that of the library's callbacks.
* How long anything takes.  With a short `--duration` the offerer may end before the
  answerer's channel is open; the model knows that only as a wait that times out.
* Two scenarios in one lab are not run against each other: the second one is, for
  the first, a process that applies and clears, which `scenario_shared` has.
* The ping of the internet: it decides a field of the result and nothing else.
* `lab show`, which only says that it is not implemented.
* Several labs: all names are constants of the code, so that there is only one.

## 6. Plan

Done: steps 1 to 8.

1. `Host`, `Lab`, `LabLifecycle`, `LabRefinement`; type correctness and mutual
   exclusion of creates proved.
2. `Peers`, `P2PRun`: the P2P run with its processes.
3. `Runs`, `ScenarioRun`, `Experiment`: the scenario on the lab, and what both
   kinds of run promise.
4. `LatestLink`: runs that update `latest` together.
5. `StatsMerge`: two logs merged by time stamps.
6. Theorems about `Lab`, `P2PRun`, `LatestLink` and `StatsMerge`, with both
   refinements.
7. Theorems about `ScenarioRun` that need nothing of the host, and its refinement.

8. The properties of `ScenarioRun` about the host, from lemmas about what apply, clear
   and destroy do to a lab that is complete.

Left:

9. Theorems about `Lab` without `Orderly`: what the host may be left with when
   creates are killed or rollbacks fail.
10. A model of the two state strings of a peer (`webrtc_peer.go:57`), whose updates
    callbacks race with the statistics.
