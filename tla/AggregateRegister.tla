------------------------- MODULE AggregateRegister -------------------------
(***************************************************************************)
(* What PUT and GET of an aggregate promise to clients whose saves take    *)
(* turns, whatever the aggregate (routers/equipment.py, inspection.py,     *)
(* work_log.py, defect.py, equipment_properties.py,                        *)
(* sticker_installation.py): a register per aggregate that is replaced as  *)
(* a whole, in one step, and without force only by a client that knows the *)
(* version it replaces.                                                    *)
(***************************************************************************)
EXTENDS Integers

CONSTANTS Clients, Aggregates, Children

VARIABLES
    version,  \* of each aggregate, 0 while there is none
    parts,    \* its live children
    known,    \* the version each client has seen
    asked     \* the save each client waits for

vars == <<version, parts, known, asked>>

Nothing == [agg |-> 0, live |-> {}, force |-> FALSE]

Init ==
    /\ version = [a \in Aggregates |-> 0]
    /\ parts = [a \in Aggregates |-> {}]
    /\ known = [c \in Clients |-> [a \in Aggregates |-> 0]]
    /\ asked = [c \in Clients |-> Nothing]

Ask(c) ==
    /\ asked[c] = Nothing
    /\ \E a \in Aggregates, live \in SUBSET Children, force \in BOOLEAN :
           asked' = [asked EXCEPT ![c] =
                        [agg |-> a, live |-> live, force |-> force]]
    /\ UNCHANGED <<version, parts, known>>

\* The save happens and has a version later than all there are; its answer may
\* be lost.
Save(c) ==
    LET a == asked[c].agg
        v == version'[a] IN
    /\ asked[c] # Nothing
    /\ asked[c].force \/ known[c][a] = version[a]
    /\ \A b \in Aggregates : v > version[b]
    /\ version' = [version EXCEPT ![a] = v]
    /\ parts' = [parts EXCEPT ![a] = asked[c].live]
    /\ known' \in {known, [known EXCEPT ![c][a] = v]}
    /\ asked' = [asked EXCEPT ![c] = Nothing]

\* The save is refused or fails; a client may be told what is there.
Drop(c) ==
    LET a == asked[c].agg IN
    /\ asked[c] # Nothing
    /\ known' \in {known, [known EXCEPT ![c][a] = version[a]]}
    /\ asked' = [asked EXCEPT ![c] = Nothing]
    /\ UNCHANGED <<version, parts>>

\* A read started a while ago ends: what it found is not older than what the
\* client knew.
Learn(c) ==
    /\ \E seen \in [Aggregates -> UNION {0..version[b] : b \in Aggregates}] :
           /\ \A b \in Aggregates : seen[b] \in known[c][b]..version[b]
           /\ known' = [known EXCEPT ![c] = seen]
    /\ UNCHANGED <<version, parts, asked>>

Next == \E c \in Clients : Ask(c) \/ Save(c) \/ Drop(c) \/ Learn(c)
=============================================================================
