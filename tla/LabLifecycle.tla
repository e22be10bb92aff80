---------------------------- MODULE LabLifecycle ----------------------------
(***************************************************************************)
(* What create and destroy promise together, whoever runs them and however *)
(* they interleave: there is at most one lab, built from nothing by one    *)
(* create, recorded when it is complete, torn down only once recorded, and *)
(* forgotten only when nothing of it is left.  A create that gives up      *)
(* takes its bridge down last, for the bridge is what keeps others out.    *)
(***************************************************************************)
EXTENDS Integers

CONSTANTS MaxNodes, RuleCount

VARIABLES
    pieces,    \* the parts of a lab that exist on the host
    building,  \* whether a create is under way
    recorded   \* the number of nodes of the recorded lab, 0 if there is none

lifecycle == <<pieces, building, recorded>>

Bridge == <<"bridge", 0>>
RulePieces == {<<"rule", r>> : r \in 1..RuleCount}
NetnsPieces(n) == {<<"netns", i>> : i \in 1..n}
WholeLab(n) == {Bridge} \cup RulePieces \cup NetnsPieces(n)

Init == pieces = {} /\ building = FALSE /\ recorded = 0

Found ==
    /\ ~building /\ recorded = 0 /\ pieces = {}
    /\ building' = TRUE
    /\ pieces' = {Bridge}
    /\ UNCHANGED recorded

Grow ==
    /\ building
    /\ \E x \in WholeLab(MaxNodes) \ pieces : pieces' = pieces \cup {x}
    /\ UNCHANGED <<building, recorded>>

Shrink ==
    /\ building
    /\ \E x \in pieces \ {Bridge} : pieces' = pieces \ {x}
    /\ UNCHANGED <<building, recorded>>

Abandon ==
    /\ building /\ pieces = {Bridge}
    /\ building' = FALSE
    /\ pieces' = {}
    /\ UNCHANGED recorded

Commit ==
    /\ building
    /\ \E n \in 1..MaxNodes : pieces = WholeLab(n) /\ recorded' = n
    /\ building' = FALSE
    /\ UNCHANGED pieces

TearDown ==
    /\ recorded > 0
    /\ \E x \in pieces : pieces' = pieces \ {x}
    /\ UNCHANGED <<building, recorded>>

Forget ==
    /\ recorded > 0 /\ pieces = {}
    /\ recorded' = 0
    /\ UNCHANGED <<pieces, building>>

Next == Found \/ Grow \/ Shrink \/ Abandon \/ Commit \/ TearDown \/ Forget

Spec == Init /\ [][Next]_lifecycle

=============================================================================
