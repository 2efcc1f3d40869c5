---------------------------- MODULE MCSmfGroups -----------------------------
(* SmfGroups for two devices that a wildcard matches, and one command per    *)
(* mode, so that the groups contend for the same pairs and for resequencing. *)
EXTENDS SmfGroups

CONSTANT W

Command(base, mode, rseq, list) == [base |-> base, mode |-> mode, rseq |-> rseq, list |-> list]

Devices == 1 .. 2
Matches == [p \in {W} |-> Devices]

Commands == {Command("cf", "RELAY", FALSE, << W >>),
             Command("push", "PUSH", TRUE, << W, 2 >>),
             Command("push", "PUSH", FALSE, << 2, W >>),
             Command("merge", "MERGE", TRUE, << 1, W >>)}
=============================================================================
