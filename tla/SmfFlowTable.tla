---------------------------- MODULE SmfFlowTable ----------------------------
(***************************************************************************)
(* The flow table (class FlowTable): entries under keys that may leave     *)
(* fields open, and the search for the entries a description matches.      *)
(* The elastic build keeps its forwarding entries, its policies and its    *)
(* group memberships in such tables.                                       *)
(*                                                                         *)
(* The entries stand in a prefix tree under the bits of their keys, and    *)
(* the table keeps the lengths of its entries' prefixes in mask_list,      *)
(* longest first, counted in ref_count, so that a search need only try     *)
(* those lengths.  The list is moved with memmove, whose count is in bytes *)
(* while a cell has two.                                                   *)
(***************************************************************************)
EXTENDS SmfFlowKeys, Sequences, FiniteSets

CONSTANTS
    KeySets,  \* the keys that one table is given, for each table considered
    Static,   \* the keys that are never removed (managed entries)
    Query     \* the descriptions that tables are searched for

\* A policy gives the destination or is the wildcard, a membership and a flow
\* always have one.
ASSUME KeyAssumption ==
    \A K \in KeySets : IsFiniteSet(K) /\ \A k \in K : k[1] = Open => k[2] = Open

VARIABLES
    keys,        \* the keys this table is given
    table,       \* the entries, by key
    mask_list,   \* the cells of the list
    list_length,
    ref_count    \* per length: how many entries have it

tableVars == << keys, table, mask_list, list_length, ref_count >>

TableKey == UNION KeySets

-----------------------------------------------------------------------------
\* The list of lengths

\* As many cells as a table ever fills, and the two that memmove may touch.
Cells == 0 .. Cardinality(Lengths) + 1

\* memmove of n bytes, from cell "from" to cell "to": little endian, so that
\* an odd count moves the low byte of one more cell.
MoveBytes(list, to, from, n) ==
    [c \in Cells |->
        IF c \in to .. to + n \div 2 - 1 THEN list[c - to + from]
        ELSE IF n % 2 = 1 /\ c = to + n \div 2
        THEN (list[c - to + from] % 256) + 256 * (list[c] \div 256)
        ELSE list[c]]

\* The hybrid search: halves from the middle, then cell by cell.
Search(list, length, value) ==
    LET halve[delta \in 0 .. length] ==
            [index \in Int |->
                IF delta <= 1 \/ list[index] = value THEN index
                ELSE halve[delta \div 2][IF value < list[index] THEN index + delta \div 2
                                                               ELSE index - delta \div 2]]
        start == halve[length \div 2][length \div 2]
        below == {c \in Cells : c > start /\ list[c] <= value}
        above == {c \in Cells : c < start /\ list[c] >= value}
    IN IF value < list[start] THEN CHOOSE c \in below : \A b \in below : c <= b
       ELSE IF value > list[start] THEN CHOOSE c \in above : \A a \in above : c >= a
       ELSE start

\* The list with value put in cell index after moving n bytes up from there.
PutAt(list, index, n, value) ==
    [MoveBytes(list, index + 1, index, n) EXCEPT ![index] = value]

\* MaskLengthList::Insert of a length that was not counted.
Inserted(value) ==
    LET index == Search(mask_list, list_length, value)
    IN IF list_length = 0 THEN [mask_list EXCEPT ![0] = value]
       ELSE IF value > mask_list[0] THEN PutAt(mask_list, 0, list_length, value)
       ELSE IF value < mask_list[list_length - 1] THEN [mask_list EXCEPT ![list_length] = value]
       ELSE IF value < mask_list[index] THEN PutAt(mask_list, index + 1, list_length - index - 1, value)
       ELSE IF value > mask_list[index] THEN PutAt(mask_list, index, list_length - index, value)
       ELSE mask_list

\* It stands in the list already.
Listed(value) ==
    /\ list_length > 0
    /\ value \in mask_list[list_length - 1] .. mask_list[0]
    /\ mask_list[Search(mask_list, list_length, value)] = value

InsertLength(value) ==
    /\ ref_count' = [ref_count EXCEPT ![value] = @ + 1]
    /\ IF ref_count[value] > 0 \/ Listed(value)
       THEN UNCHANGED << mask_list, list_length >>
       ELSE /\ mask_list' = Inserted(value)
            /\ list_length' = list_length + 1

\* A definition named X_Fault is X with a plausible bug, used nowhere: it is
\* put in the place of X to see a property catch the bug.
RemoveLength_Down(value) == \* the count is not lowered while others have the length
    /\ ref_count' = IF ref_count[value] > 1 THEN ref_count ELSE [ref_count EXCEPT ![value] = 0]
    /\ IF ref_count[value] > 1 THEN UNCHANGED << mask_list, list_length >>
       ELSE LET index == Search(mask_list, list_length, value)
            IN /\ mask_list' = MoveBytes(mask_list, index, index + 1, list_length - index - 1)
               /\ list_length' = list_length - 1

\* MaskLengthList::Remove: nothing for a length out of the list's range.
RemoveLength(value) ==
    IF list_length = 0 \/ value \notin mask_list[list_length - 1] .. mask_list[0] \/ ref_count[value] = 0
    THEN UNCHANGED << mask_list, list_length, ref_count >>
    ELSE /\ ref_count' = [ref_count EXCEPT ![value] = @ - 1]
         /\ IF ref_count[value] = 1 /\ Listed(value)
            THEN LET index == Search(mask_list, list_length, value)
                 IN /\ mask_list' = MoveBytes(mask_list, index, index + 1, list_length - index - 1)
                    /\ list_length' = list_length - 1
            ELSE UNCHANGED << mask_list, list_length >>

-----------------------------------------------------------------------------
\* The search

\* The lengths tried after the description's own: from the first in the list
\* that is shorter, to its end.
Shorter(p) ==
    LET short == {i \in 0 .. list_length - 1 : mask_list[i] < p}
    IN IF short = {} THEN << >>
       ELSE LET first == CHOOSE i \in short : \A j \in short : i <= j
            IN [i \in 1 .. list_length - first |-> mask_list[first + i - 1]]

Passes_OneLevel(d, bimatch) == \* the iteration ends with the description's own prefix
    << {k \in table : Fits(k, d, bimatch) /\ Agree(k, d, PrefixSize(d))} >>

\* The entries an iterator returns for description d, pass by pass: those
\* that share all of its prefix, then, when both sides may be open, those
\* with exactly each shorter prefix of the list.
Passes(d, bimatch) ==
    LET p == PrefixSize(d)
        shorter == Shorter(p)
        fit == {k \in table : Fits(k, d, bimatch)}
        whole == /\ p > 0
                 /\ list_length > 0 /\ mask_list[0] < p
        top == IF whole THEN {} ELSE {k \in fit : Agree(k, d, p)}
    IN << top >> \o [i \in 1 .. Len(shorter) |->
                        {k \in fit : bimatch /\ PrefixSize(k) = shorter[i] /\ Agree(k, d, shorter[i])}]

\* FindBestMatch weighs an entry only if its class and protocol are open or
\* the description's.  One that names what the description leaves open is
\* returned by the iterator, and skipped.
Weighed(k, d) == \A j \in 3 .. 4 : k[j] \in {Open, d[j]}

\* Its weight: the longer addresses, then class, then protocol.
Weight(k) == (IF k[1] = Open THEN 0 ELSE AddrBits) + (IF k[2] = Open THEN 0 ELSE AddrBits)
             + (IF k[3] = Open THEN 1 ELSE 2) + (IF k[4] = Open THEN 1 ELSE 2)

\* FindBestMatch: the heaviest of the first pass in which any entry is weighed,
\* or of all passes when the search is deep.  Of equally heavy ones it takes
\* one with the description's class.
BestMatches(d, deep) ==
    LET passes == Passes(d, TRUE)
        hits == {i \in DOMAIN passes : \E k \in passes[i] : Weighed(k, d)}
        searched == IF deep THEN hits ELSE {i \in hits : \A j \in hits : i <= j}
        found == {k \in UNION {passes[i] : i \in searched} : Weighed(k, d)}
        heaviest == {k \in found : \A l \in found : Weight(l) <= Weight(k)}
    IN {k \in heaviest : k[3] = d[3] \/ \A l \in heaviest : l[3] # d[3]}

-----------------------------------------------------------------------------
TableInit ==
    /\ keys \in KeySets
    /\ table = {}
    /\ mask_list = [c \in Cells |-> 0]  \* the tables are static: all zero
    /\ list_length = 0
    /\ ref_count = [m \in Lengths |-> 0]

InsertEntry(k) ==
    /\ k \in keys \ table
    /\ table' = table \cup {k}
    /\ InsertLength(PrefixSize(k))
    /\ UNCHANGED keys

RemoveEntry(k) ==
    /\ k \in table \ Static
    /\ RemoveLength(PrefixSize(k))
    /\ table' = table \ {k}
    /\ UNCHANGED keys

TableNext == \E k \in TableKey : InsertEntry(k) \/ RemoveEntry(k)

TableSpec == TableInit /\ [][TableNext]_tableVars

-----------------------------------------------------------------------------
\* Type invariant, the first part of MaskListExact.
TableTypeOK ==
    /\ keys \in KeySets
    /\ table \subseteq keys
    /\ mask_list \in [Cells -> Nat]
    /\ list_length \in 0 .. Cardinality(Lengths)
    /\ ref_count \in [Lengths -> Nat]

\* The list holds the lengths of the entries' prefixes, each once, longest
\* first, and the counts are how many entries have them: what the searches
\* rely on to find anything.
MaskListExact ==
    /\ TableTypeOK
    /\ \A m \in Lengths : ref_count[m] = Cardinality({k \in table : PrefixSize(k) = m})
    /\ {mask_list[c] : c \in 0 .. list_length - 1} = {PrefixSize(k) : k \in table}
    /\ \A c \in 0 .. list_length - 2 : mask_list[c] > mask_list[c + 1]

\* What matching means: every field agrees or is open, on either side when
\* bimatch, on the description's side otherwise.
Matches(k, d, bimatch) ==
    \A j \in 1 .. 4 : d[j] = Open \/ k[j] = d[j] \/ (bimatch /\ k[j] = Open)

\* A search returns every entry that matches, each once.  A description that
\* names an interface matches by its prefix: no entry that leaves the interface
\* open, unless the entry leaves the source open too.  The best match is one of
\* those weighed that no other of them outweighs, and there is one if any is
\* weighed; for a description that names class and protocol, as the flows of
\* smf.cpp and mcastFib.cpp do, all that match are weighed.
SearchIsExact ==
    \A d \in Query : \A bimatch \in BOOLEAN :
        LET passes == Passes(d, bimatch)
            found == UNION {passes[i] : i \in DOMAIN passes}
            weighed == {k \in BiMatches(d, table) : Weighed(k, d)}
        IN /\ found = IF bimatch THEN BiMatches(d, table) ELSE SubMatches(d, table)
           /\ d[5] = Open => found = {k \in table : Matches(k, d, bimatch)}
           /\ \A i, j \in DOMAIN passes : i # j => passes[i] \cap passes[j] = {}
           /\ \A deep \in BOOLEAN :
                /\ BestMatches(d, deep) = {} <=> weighed = {}
                /\ \A k \in BestMatches(d, deep), l \in weighed : Weight(l) <= Weight(k)
           /\ d[3] # Open /\ d[4] # Open => weighed = BiMatches(d, table)

\* A new flow (all but the interface named) is found a policy, its best match,
\* searched deep, whenever the table holds an entry that matches: the wildcard
\* that SetPolicy enters with the first policy, at least.  Fails for IPv4 once a
\* policy names a group: the list then has three lengths, and memmove moves half
\* of what it should.
WildcardFound ==
    \A d \in Query : Depth(d) = 4 /\ BestMatches(d, TRUE) = {} =>
        ~ \E k \in table : Matches(k, d, TRUE)
=============================================================================
