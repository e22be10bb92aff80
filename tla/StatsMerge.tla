----------------------------- MODULE StatsMerge -----------------------------
(***************************************************************************)
(* The order of stats.jsonl.  Each peer stamps its statistics records with *)
(* the wall clock of the machine (collectWebRTCStats); mergeStatsLogs puts *)
(* the log of the offerer before that of the answerer and sorts all        *)
(* records by their stamps, in a stable way.  The clock may stand still    *)
(* between two records, jump, and be set back.                             *)
(*                                                                         *)
(* When and whether the logs are merged is in module Runs.                 *)
(***************************************************************************)
EXTENDS Integers, FiniteSets, Sequences

CONSTANTS
    Samples,   \* how many records each peer logs
    MaxClock,  \* the last time the clock shows, in half seconds
    MaxResets  \* how often the clock is set back

ASSUME MergeAssumption == Samples \in Nat /\ MaxClock \in Nat /\ MaxResets \in Nat

Roles == {"offerer", "answerer"}

VARIABLES
    clock,
    resets,  \* how often the clock has been set back
    logs,    \* logs[r]: the records of peer r
    merged,  \* stats.jsonl
    done     \* whether it is there

vars == <<clock, resets, logs, merged, done>>

Init ==
    /\ clock = 0
    /\ resets = 0
    /\ logs = [r \in Roles |-> <<>>]
    /\ merged = <<>>
    /\ done = FALSE

-----------------------------------------------------------------------------

Written == Len(logs["offerer"]) + Len(logs["answerer"])

\* The clock is read before the record is written, by one goroutine of a peer.
\* Besides the stamp the record has, for the properties, its place among all
\* records and the number of resets before it.
Sample(r) ==
    /\ Len(logs[r]) < Samples
    /\ logs' = [logs EXCEPT ![r] = Append(@,
                  [node |-> r, time |-> clock, place |-> Written + 1, era |-> resets])]
    /\ UNCHANGED <<clock, resets, merged, done>>

Time ==
    /\ clock < MaxClock
    /\ clock' \in (clock + 1)..MaxClock
    /\ UNCHANGED <<resets, logs, merged, done>>

SetBack ==
    /\ resets < MaxResets /\ resets' = resets + 1
    /\ clock' \in 0..(clock - 1)
    /\ UNCHANGED <<logs, merged, done>>

\* Mutant: stamps are compared as they are written, "0.5Z" before "0Z".
BeforeAsText(s, t) == s \div 2 < t \div 2 \/ (s \div 2 = t \div 2 /\ s % 2 > t % 2)

\* time.Time.Before, of the parsed stamps.  What does not parse is compared as
\* text, but every stamp the program writes parses.
Before(s, t) == s < t

\* sort.SliceStable: the rank of record i among all.
Rank(seq, i) ==
    Cardinality({ j \in 1..Len(seq) :
        \/ Before(seq[j].time, seq[i].time)
        \/ ~Before(seq[i].time, seq[j].time) /\ j <= i })

StableSort(seq) ==
    [k \in 1..Len(seq) |-> seq[CHOOSE i \in 1..Len(seq) : Rank(seq, i) = k]]

\* Mutant: records are kept by their time.
AllRecordsByTime ==
    LET all == logs["offerer"] \o logs["answerer"]
    IN  SelectSeq(all, LAMBDA rec :
            \A i \in 1..Len(all) : all[i].time = rec.time => rec.place <= all[i].place)

\* In the order of inputPaths.
AllRecords == logs["offerer"] \o logs["answerer"]

\* Both peers have ended.
Merge ==
    /\ ~done /\ done' = TRUE
    /\ \A r \in Roles : Len(logs[r]) = Samples
    /\ merged' = StableSort(AllRecords)
    /\ UNCHANGED <<clock, resets, logs>>

Over == done /\ UNCHANGED vars

Next == Time \/ SetBack \/ Merge \/ Over \/ \E r \in Roles : Sample(r)

Spec == Init /\ [][Next]_vars

-----------------------------------------------------------------------------
(* Correctness.                                                            *)

\* The merged log has every record of both peers, once.
NothingLost ==
    done =>
        /\ Len(merged) = 2 * Samples
        /\ \A r \in Roles : \A i \in 1..Len(logs[r]) :
            \E k \in 1..Len(merged) : merged[k] = logs[r][i]

\* Two records of the merged log are in the order in which they were taken,
\* be they of one peer or of both, unless the clock was set back between them,
\* or both peers took one at the same time: then the offerer's is first.
OnlyResetsReorder ==
    done => \A j, k \in 1..Len(merged) :
        LET a == merged[j]  b == merged[k]
        IN  j < k /\ a.era = b.era =>
                \/ a.place < b.place
                \/ a.time = b.time /\ a.node = "offerer" /\ b.node = "answerer"

=============================================================================
