-------------------------- MODULE SessionRegister --------------------------
(***************************************************************************)
(* What services/auth.py promises to clients that take turns: a session is *)
(* handed from one refresh token to the next.  It has one current token    *)
(* until it ends, it does not come back, and a token on its way to a       *)
(* client is current until it gets there.                                  *)
(***************************************************************************)
EXTENDS Integers, Sequences

CONSTANTS Inspectors, Devices, Requests

VARIABLES
    origin,   \* of each token, in the order they were issued: the session it
              \* belongs to, named after its first token, and its owner
    current,  \* the tokens that refresh their session
    known,    \* the tokens clients have
    offered   \* the token in the answer to each request, 0 if there is none

vars == <<origin, current, known, offered>>

Issued == DOMAIN origin
New == Len(origin) + 1

\* The tokens of the session, and of the inspector, that t belongs to
Session(t) == {u \in Issued : origin[u].session = origin[t].session}
Of(i) == {u \in Issued : origin[u].inspector = i}

\* No client is about to be given one of them.
Settled(S) == \A r \in Requests : offered[r] \notin S

Init ==
    /\ origin = <<>>
    /\ current = {}
    /\ known = {}
    /\ offered = [r \in Requests |-> 0]

\* A token is issued, and offered to the client that asked.
Issue(r, o) ==
    /\ offered[r] = 0
    /\ origin' = Append(origin, o)
    /\ offered' = [offered EXCEPT ![r] = New]
    /\ UNCHANGED known

\* The password was right: a new session.
Open(r) ==
    /\ \E i \in Inspectors, d \in Devices :
           Issue(r, [inspector |-> i, device |-> d, session |-> New])
    /\ current' = current \cup {New}

\* The current token was presented: the session passes to a new one.
Pass(r) == \E t \in current \cap known :
    /\ Settled({t})
    /\ Issue(r, origin[t])
    /\ current' = (current \ {t}) \cup {New}

\* A token the session has passed on from was presented by a client that has
\* missed the answer: it is given the current one.
Remind(r) == \E t \in known, u \in current :
    /\ offered[r] = 0
    /\ u > t /\ origin[u] = origin[t]
    /\ offered' = [offered EXCEPT ![r] = u]
    /\ UNCHANGED <<origin, current, known>>

\* Some tokens stop being current for good.
Revoked(S) ==
    /\ Settled(S)
    /\ current' = current \ S
    /\ UNCHANGED <<origin, known, offered>>

\* A token was presented again too late: its session ends.
End == \E t \in known : Revoked(Session(t))

\* The password changes: all sessions of the inspector end.
EndAll == \E i \in Inspectors : Revoked(Of(i))

\* The answer gets to the client, or is lost.
Hand(r) ==
    /\ offered[r] # 0
    /\ known' \in {known, known \cup {offered[r]}}
    /\ offered' = [offered EXCEPT ![r] = 0]
    /\ UNCHANGED <<origin, current>>

Next ==
    \/ End \/ EndAll
    \/ \E r \in Requests : Open(r) \/ Pass(r) \/ Remind(r) \/ Hand(r)

Spec == Init /\ [][Next]_vars
=============================================================================
