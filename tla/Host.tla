-------------------------------- MODULE Host --------------------------------
(***************************************************************************)
(* The Linux host as the commands of internal/lab see it.  None of it is   *)
(* code of the repository: ip, iptables, sysctl and tc are modelled from   *)
(* the way create.go, destroy.go and apply.go use them, as functions from  *)
(* a host to the host the command leaves behind.  Whether a command        *)
(* succeeds on a given host is stated where it is run, in module Lab.      *)
(*                                                                         *)
(* Node i stands for the namespace node<i>, its interface veth-node<i>     *)
(* (eth0 once inside the namespace) and the peer br-node<i>.               *)
(***************************************************************************)
EXTENDS Integers, FiniteSets

CONSTANTS
    MaxNodes,     \* the most nodes a lab may have (250 in the code)
    RuleCount,    \* how many iptables rules a lab needs (3 in the code)
    HostForward,  \* net.ipv4.ip_forward before any lab was created
    HostRules     \* the rules of a lab that the host already had of its own

Nodes == 1..MaxNodes
Rules == 1..RuleCount
Flags == {"delay", "loss", "jitter", "bw"}

ASSUME HostAssumption ==
    /\ MaxNodes \in Nat \ {0}
    /\ RuleCount \in Nat \ {0}
    /\ HostForward \in {0, 1}
    /\ HostRules \subseteq Rules

(***************************************************************************)
(* A veth pair does not exist, has both ends in the root namespace and is  *)
(* about to be moved, is "left" there because the move has failed, has its *)
(* inner end in the node's namespace, or goes with a namespace that is     *)
(* deleted but not gone.  ports are the nodes whose peer is a port of the  *)
(* bridge, eth0 those whose inner end is renamed and can be reached, and   *)
(* qdisc[i] is the netem condition on eth0 of node i, {} if there is none. *)
(***************************************************************************)
VethStates == {"none", "host", "left", "moved", "dying"}

HostStates == [ bridge  : BOOLEAN,
                netns   : SUBSET Nodes,
                veth    : [Nodes -> VethStates],
                ports   : SUBSET Nodes,
                eth0    : SUBSET Nodes,
                rules   : [Rules -> Nat],
                forward : {0, 1},
                qdisc   : [Nodes -> SUBSET Flags] ]

OwnRules == [r \in Rules |-> IF r \in HostRules THEN 1 ELSE 0]

UntouchedHost == [ bridge  |-> FALSE,
                   netns   |-> {},
                   veth    |-> [i \in Nodes |-> "none"],
                   ports   |-> {},
                   eth0    |-> {},
                   rules   |-> OwnRules,
                   forward |-> HostForward,
                   qdisc   |-> [i \in Nodes |-> {}] ]

-----------------------------------------------------------------------------

BridgeAdd(h) == [h EXCEPT !.bridge = TRUE]

\* Deleting a bridge releases its ports, it does not delete the interfaces.
BridgeDel(h) == [h EXCEPT !.bridge = FALSE, !.ports = {}]

VethAdd(h, i) == [h EXCEPT !.veth[i] = "host"]

VethMove(h, i) == [h EXCEPT !.veth[i] = "moved"]

\* The move has failed: a pair in the root namespace stays there.
VethLeft(h, i) == [h EXCEPT !.veth[i] = IF @ = "host" THEN "left" ELSE @]

Enslave(h, i) == [h EXCEPT !.ports = @ \cup {i}]

Rename(h, i) == [h EXCEPT !.eth0 = @ \cup {i}]

\* Deleting either end of a veth deletes both, and what was set on them.
PeerDel(h, i) == [h EXCEPT !.veth[i] = "none",
                           !.ports = @ \ {i},
                           !.eth0 = @ \ {i},
                           !.qdisc[i] = {}]

NetnsAdd(h, i) == [h EXCEPT !.netns = @ \cup {i}]

\* The name goes at once, and with it all access to what is inside.  The
\* kernel deletes that later, and not before the last process in it has ended:
\* until then br-node<i> stays where it is.
NetnsDel(h, i) == [h EXCEPT !.netns = @ \ {i},
                            !.veth[i] = IF @ = "moved" THEN "dying" ELSE @,
                            !.eth0 = @ \ {i},
                            !.qdisc[i] = {}]

\* iptables -A appends a copy whether or not the rule is there already.
RuleAdd(h, r) == [h EXCEPT !.rules[r] = @ + 1]

RuleDel(h, r) == [h EXCEPT !.rules[r] = IF @ > 0 THEN @ - 1 ELSE 0]

SetForward(h, v) == [h EXCEPT !.forward = v]

Netem(h, i, flags) == [h EXCEPT !.qdisc[i] = flags]

=============================================================================
