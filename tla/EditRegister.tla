---------------------------- MODULE EditRegister ----------------------------
(***************************************************************************)
(* What the run store promises a review client: a published run is a       *)
(* register holding a version, and a PATCH is a compare-and-append on it.  *)
(* A version is one auto-generated run and the edits made to it since.     *)
(* An edit takes effect only on the very version its client holds, so no   *)
(* client ever overwrites an edit it has not seen.  A publication takes    *)
(* the register away and then installs a version without edits.            *)
(***************************************************************************)
EXTENDS Sequences

CONSTANTS Requests, Names, Edits, Clients, Absent

VARIABLES
    version,    \* version[n]: what the register n holds, or Absent
    held        \* held[c]: the name and version client c would edit

Version == [req : Requests, edits : Seq(Edits)]
Auto(r) == [req |-> r, edits |-> << >>]
Extend(v, e) == [req |-> v.req, edits |-> Append(v.edits, e)]

Init ==
    /\ version = [n \in Names |-> Absent]
    /\ held \in [Clients -> [name : Names, version : {Absent}]]

\* A client learns the current version of a register.
Read(c, n) ==
    /\ version[n] # Absent
    /\ held' = [held EXCEPT ![c] = [name |-> n, version |-> version[n]]]
    /\ UNCHANGED version

\* An edit commits: the register holds what the client holds.
Commit(c, e) ==
    LET n == held[c].name IN
    /\ version[n] # Absent
    /\ version[n] = held[c].version
    /\ version' = [version EXCEPT ![n] = Extend(@, e)]
    /\ UNCHANGED held

\* A publication sets the old run aside.
Withdraw(n) ==
    /\ version[n] # Absent
    /\ version' = [version EXCEPT ![n] = Absent]
    /\ UNCHANGED held

\* A publication installs its run; it never overwrites one in place.
Install(n, r) ==
    /\ version[n] = Absent
    /\ version' = [version EXCEPT ![n] = Auto(r)]
    /\ UNCHANGED held

Next ==
    \/ \E c \in Clients, n \in Names : Read(c, n)
    \/ \E c \in Clients, e \in Edits : Commit(c, e)
    \/ \E n \in Names : Withdraw(n)
    \/ \E n \in Names, r \in Requests : Install(n, r)

Spec == Init /\ [][Next]_<<version, held>>
=============================================================================
