----------------------------- MODULE MCRunStore -----------------------------
(***************************************************************************)
(* Instances of RunStore for TLC.                                          *)
(***************************************************************************)
EXTENDS RunStore, TLC

CONSTANTS r1, short1, long1, p1, p2, c1, c2, s1, auto, pick, place

MCRequests == {r1}
MCNames == {short1, long1}
MCShortName == [r \in MCRequests |-> short1]
MCLongName == [r \in MCRequests |-> long1]

\* A relabel, which is applied whatever the segment says, and a reviewed, labels
\* or boundary edit, which is refused when it would change nothing.
MCEdits == {[seg |-> s1, val |-> pick, checked |-> FALSE],
            [seg |-> s1, val |-> place, checked |-> TRUE]}

\* Neither the process ids nor the clients are told apart by any property.
Interchangeable == Permutations(Annotators) \cup Permutations(Editors)
=============================================================================
