--------------------------- MODULE LabRefinement ---------------------------
(***************************************************************************)
(* Lab implements LabLifecycle when no process is killed, rollbacks run to *)
(* the end, and the host had none of the lab's rules before.               *)
(***************************************************************************)
EXTENDS Lab

Pieces ==
    {<<"bridge", 0>> : x \in {host.bridge} \cap {TRUE}}
      \cup {<<"rule", r>> : r \in {s \in Rules : host.rules[s] > 0}}
      \cup {<<"netns", i>> : i \in host.netns}

Lifecycle == INSTANCE LabLifecycle WITH
    pieces   <- Pieces,
    building <- \E p \in Procs : Building(p),
    recorded <- IF stateFile = NoState THEN 0 ELSE stateFile.nodes

\* Every behaviour of the commands is one of the lifecycle: a lab is recorded
\* only when complete and forgotten only when gone, and no interleaving of
\* creates, or of destroys, ever shows two labs or a lab nobody owns.
ImplementsLifecycle == Lifecycle!Spec

=============================================================================
