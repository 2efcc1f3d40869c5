-------------------------- MODULE DuplicateFilter --------------------------
(***************************************************************************)
(* What nrlsmf needs of a duplicate packet detector (class SmfDpd): it     *)
(* answers "duplicate" exactly for the packets it knows, it knows a packet *)
(* from the moment it has checked it, and it learns from nothing but       *)
(* checks.  When it forgets is the implementation's business.  A packet it *)
(* cannot judge it may call a duplicate "to be safe".                      *)
(***************************************************************************)
CONSTANTS
    Flow, PktId,
    Kind,   \* of an id: a detector may serve one kind per flow only
    Unfit   \* ids it cannot handle at all

VARIABLES
    known,  \* the packets, pairs of a flow and an id, it takes for duplicates
    answer  \* the answer the last step gave, if any: a set

vars == << known, answer >>

Answer(f, i, isDuplicate) == {[flow |-> f, id |-> i, isDuplicate |-> isDuplicate]}

Init == known = {} /\ answer = {}

Check(f, i) ==
    \/ /\ << f, i >> \in known
       /\ answer' = Answer(f, i, TRUE)
       /\ UNCHANGED known
    \/ /\ << f, i >> \notin known
       /\ answer' = Answer(f, i, FALSE)
       /\ << f, i >> \in known'
       /\ known' \subseteq known \cup {<< f, i >>}

\* An id the detector cannot compare with what it knows is not let through.
Refuse(f, i) ==
    /\ i \in Unfit \/ \E k \in known : k[1] = f /\ Kind[k[2]] # Kind[i]
    /\ answer' = Answer(f, i, TRUE)
    /\ UNCHANGED known

Forget == known' \subseteq known /\ answer' = {}

Next == Forget \/ \E f \in Flow, i \in PktId : Check(f, i) \/ Refuse(f, i)

Spec == Init /\ [][Next]_vars
=============================================================================
