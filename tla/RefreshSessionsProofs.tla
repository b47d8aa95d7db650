----------------------- MODULE RefreshSessionsProofs -----------------------
(***************************************************************************)
(* What TLAPS proves of RefreshTokens against its abstract specification:  *)
(* while clients take turns, every statement of /auth/login, /auth/refresh *)
(* and /auth/change-password is a step of SessionRegister or none.  On top *)
(* of TurnInv it takes that what a client is about to be given is current. *)
(***************************************************************************)
EXTENDS RefreshTurnsProofs

\* A refresh was asked for by a client that has the token, and an answer that
\* carries a token says so.
Given(r) ==
    /\ req[r].op = "refresh" => req[r].token \in known
    /\ req[r].answer # Null => req[r].result \in {"issued", "recovered"}

\* The session a login has started is its one token, which nobody has yet.
Fresh(r) ==
    LET u == req[r].answer IN
    (req[r].op = "login" /\ u # Null) =>
        /\ u \in Ids \ known /\ Live(u)
        /\ tokens[u].inspector = req[r].inspector
        /\ \A t \in Ids : tokens[t].session = tokens[u].session => t = u
        /\ \A p \in Requests \ {r} : req[p].op = "login" => req[p].answer # u

GivenInv ==
    /\ \A r \in Requests : Given(r)
    /\ serial => \A r \in Requests : Fresh(r)

\* What a client is about to be given
Current(r) ==
    req[r].answer # Null => req[r].answer \in Ids /\ Live(req[r].answer)

\* What is on its way to a client is current.
LEMMA AnswersCurrent ==
    ASSUME IInv, TurnInv, GivenInv, serial, NEW r \in Requests
    PROVE  Current(r)
  <1>1. /\ RequestOK(r) /\ Secured(r) /\ Fresh(r) /\ Given(r)
        /\ req[r].op \in Operations
    BY TurnParts DEF GivenInv, Request
  <1> QED
    BY <1>1 DEF RequestOK, Secured, Fresh, Given, Current, Operations, Foot,
       InSession, Of

\* The same of the next state.
LEMMA AnswersCurrentNext ==
    IInv' /\ TurnInv' /\ GivenInv' /\ serial'
        => \A r \in Requests : Current(r)'
  <1>1. IInv /\ TurnInv /\ GivenInv /\ serial => \A r \in Requests : Current(r)
    BY AnswersCurrent
  <1>2. (IInv /\ TurnInv /\ GivenInv /\ serial
            => \A r \in Requests : Current(r))'
    BY <1>1, PTL
  <1> QED
    BY <1>2

-----------------------------------------------------------------------------
(* The rows a step writes are its own.                                     *)

\* A step of the server writes rows of its own inspector, and of the session
\* it was asked about or a new one.
LEMMA OwnWrites ==
    ASSUME IInv, TurnInv, serial, NEW r \in Requests, Serve(r)
    PROVE  RowsStay /\ (tokens' = tokens \/ (Busy(r) /\ Writes(r)))
  <1> USE TurnParts
  <1>1. CASE InsertToken(r)
    <2>1. /\ req[r].inspector \in Inspectors /\ req[r].device \in Devices
          /\ req[r].op # "refresh" /\ Busy(r)
      BY <1>1 DEF InsertToken, RequestOK, Busy
    <2>2. /\ tokens' = Append(tokens, NewRow(req[r].inspector, req[r].device,
                                             New))
          /\ UNCHANGED <<password, now, known, serial>>
      BY <1>1 DEF InsertToken, New
    <2>3. RowsStay
      BY <2>1, <2>2, InsertKeeps DEF New
    <2>4. /\ Inserted(req[r].inspector, req[r].device, New)
          /\ \A t \in Ids : tokens'[t] = tokens[t]
      BY <2>1, <2>2, InsertRows
    <2> QED
      BY <2>1, <2>3, <2>4 DEF Inserted, Writes
  <1>2. CASE RefreshRotate(r)
    <2> DEFINE old == req[r].token
    <2>1. /\ req[r].op = "refresh" /\ old \in Ids /\ Busy(r)
          /\ req[r].inspector = tokens[old].inspector
          /\ req[r].inspector \in Inspectors /\ req[r].device \in Devices
          /\ req[r].device = tokens[old].device
      BY <1>2, Parts DEF RefreshRotate, RequestOK, Token, Busy
    <2>2. /\ tokens' = Append(RevokeAndReplace(tokens, old, New),
                              NewRow(req[r].inspector, req[r].device,
                                     tokens[old].session))
          /\ UNCHANGED <<password, now, known, serial>>
      BY <1>2 DEF RefreshRotate, New
    <2>3. RowsStay
      BY <2>1, <2>2, RotateKeeps DEF New
    <2>4. /\ Inserted(req[r].inspector, req[r].device, tokens[old].session)
          /\ \A t \in Ids \ {old} : tokens'[t] = tokens[t]
          /\ SameOrigin(tokens[old], tokens'[old])
      BY <2>1, <2>2, RotateRows
    <2> QED
      BY <2>1, <2>3, <2>4 DEF Inserted, Writes, SameOrigin
  <1>3. CASE RevokeChain(r) \/ RevokeChosen(r)
    <2> DEFINE S == req[r].chosen
    <2>1. /\ tokens' = Revoke(tokens, S)
          /\ UNCHANGED <<password, now, known, serial>>
          /\ req[r].pc \in {"revokeChain", "revokeChosen"}
      BY <1>3 DEF RevokeChain, RevokeChosen
    <2>2. /\ RowsStay /\ Ids' = Ids
          /\ \A t \in Ids \ S : tokens'[t] = tokens[t]
          /\ \A t \in Ids : SameOrigin(tokens[t], tokens'[t])
      BY <2>1, RevokeOwn
    <2>3. /\ S = Foot(r) /\ RequestOK(r) /\ Stages(r) /\ Busy(r)
      BY <2>1 DEF Secured, Busy
    <2>4. /\ req[r].op \in {"refresh", "change"}
          /\ req[r].op = "refresh" => req[r].token \in Ids
      BY <2>1, <2>3 DEF RequestOK, Stages
    <2>5. \A t \in S :
              /\ tokens[t].inspector = req[r].inspector
              /\ req[r].op = "refresh" =>
                     tokens[t].session = tokens[req[r].token].session
      BY <2>3, <2>4 DEF Foot, InSession, Of, Origins, RequestOK
    <2> HIDE DEF S
    <2> QED
      BY <2>2, <2>3, <2>4, <2>5 DEF Writes, SameOrigin
  <1>4. CASE tokens' = tokens /\ now' = now
    <2>1. RowsStay
      BY <1>4 DEF RowsStay, SameOrigin, Ids
    <2> QED
      BY <1>4, <2>1
  <1> QED
    BY <1>1, <1>2, <1>3, <1>4 DEF Serve, RecoverHop, ReuseDetected,
       PasswordUpdate, RevokeAll, Respond

-----------------------------------------------------------------------------
(* What a login gives, while other requests take steps.                    *)

\* An answer that is new to the step is a token that is.
NewAnswer(r) ==
    req'[r].answer # Null /\ req'[r].answer # req[r].answer =>
        req'[r].answer \notin Ids \/ req'[r].op # "login"

\* A step of one request makes known at most its answer.
Spreads(r) == known' \subseteq known \cup ({req[r].answer} \ {Null})

\* No step of another request touches the session a login has started, makes
\* its token known or offers it to a second client.
LEMMA FreshKept ==
    ASSUME IInv, TurnInv, TurnInv', GivenInv, serial,
           NEW r \in Requests, NEW q \in Requests \ {r}, OnlyChanges(r),
           RowsStay, tokens' = tokens \/ (Busy(r) /\ Writes(r)),
           Spreads(r), NewAnswer(r), req'[r].op = req[r].op \/ req'[r].answer = Null
    PROVE  Fresh(q)'
  <1> USE TurnParts
  <1> DEFINE u == req[q].answer
             s == tokens[u].session
  <1>1. req'[q] = req[q] /\ \A p \in Requests \ {r} : req'[p] = req[p]
    BY DEF OnlyChanges
  <1> SUFFICES ASSUME req[q].op = "login", u # Null
               PROVE  /\ u \in Ids' \ known' /\ ~tokens'[u].revoked
                      /\ tokens'[u].inspector = req[q].inspector
                      /\ \A t \in Ids' : tokens'[t].session
                                             = tokens'[u].session => t = u
                      /\ \A p \in Requests \ {q} :
                             req'[p].op = "login" => req'[p].answer # u
    BY <1>1 DEF Fresh, Live
  <1>2. /\ u \in Ids \ known /\ Live(u)
        /\ tokens[u].inspector = req[q].inspector
        /\ \A t \in Ids : tokens[t].session = s => t = u
        /\ \A p \in Requests \ {q} : req[p].op = "login" => req[p].answer # u
    BY DEF GivenInv, Fresh
  <1>3. /\ Busy(q) /\ Apart(r, q) /\ req[r].op \in Operations
        /\ Given(r) /\ Secured(r) /\ RequestOK(r) /\ Stages(r)
    BY DEF Stages, Busy, Turns, Request, GivenInv
  <1>4. req[r].op = "refresh" => tokens[req[r].token].session # s
    BY <1>2, <1>3 DEF Given, RequestOK
  <1>5. /\ s \in Ids /\ Origins' /\ u \in Ids'
        /\ tokens'[u].session = s /\ tokens'[u].inspector = req[q].inspector
    BY <1>2 DEF Origins, RowsStay, SameOrigin, TurnInv
  <1>6. ASSUME NEW t \in Ids', tokens'[t].session = s
        PROVE  t \in Ids /\ tokens'[t] = tokens[t]
    <2>1. SUFFICES ASSUME Busy(r), Writes(r),
                          ~(t \in Ids /\ tokens'[t] = tokens[t])
                   PROVE  FALSE
      BY DEF Ids
    <2>2. tokens'[t].inspector = req[q].inspector
      BY <1>5, <1>6 DEF Origins
    <2>3. req[r].inspector = req[q].inspector
      BY <2>1, <2>2 DEF Writes
    <2>4. req[r].op = "refresh" \/ req[r].op = "login"
      BY <1>3, <2>1, <2>3 DEF Apart, Operations
    <2> QED
      BY <1>4, <1>5, <1>6, <2>1, <2>4 DEF Writes
  <1>7. /\ ~tokens'[u].revoked
        /\ \A t \in Ids' : tokens'[t].session = tokens'[u].session => t = u
    BY <1>2, <1>5, <1>6 DEF Live
  <1>8. u \notin known'
    <2>1. SUFFICES ASSUME req[r].answer = u PROVE FALSE
      BY <1>2 DEF Spreads
    <2>2. CASE req[r].op = "login"
      BY <1>2, <2>1, <2>2
    <2>3. CASE req[r].op = "refresh"
      <3>1. u \in InSession(req[r].token)
        BY <1>3, <2>1, <2>3 DEF Given, Secured, Foot
      <3> QED
        BY <1>4, <2>3, <3>1 DEF InSession
    <2>4. CASE req[r].op = "change"
      <3>1. Busy(r) /\ tokens[u].inspector = req[r].inspector
        BY <1>3, <2>1, <2>4 DEF Stages, Busy, Secured, Foot, Of
      <3> QED
        BY <1>2, <1>3, <2>4, <3>1 DEF Apart
    <2> QED
      BY <1>3, <2>2, <2>3, <2>4 DEF Operations
  <1>9. ASSUME NEW p \in Requests \ {q}, req'[p].op = "login"
        PROVE  req'[p].answer # u
    <2>1. CASE p # r
      BY <1>1, <1>2, <1>9, <2>1
    <2>2. CASE p = r
      BY <1>2, <1>9, <2>2 DEF NewAnswer
    <2> QED
      BY <2>1, <2>2
  <1> QED
    BY <1>5, <1>7, <1>8, <1>9

\* A step of one request keeps what is given if its own part is kept.
LEMMA OneGiven ==
    ASSUME IInv, TurnInv, TurnInv', GivenInv, NEW r \in Requests,
           OnlyChanges(r), serial' = serial, known \subseteq known', Given(r)',
           serial => /\ RowsStay
                     /\ tokens' = tokens \/ (Busy(r) /\ Writes(r))
                     /\ Spreads(r) /\ NewAnswer(r) /\ Fresh(r)'
                     /\ req'[r].op = req[r].op \/ req'[r].answer = Null
    PROVE  GivenInv'
  <1>1. ASSUME NEW q \in Requests
        PROVE  Given(q)'
    <2>1. CASE q # r
      <3>1. req'[q] = req[q] /\ Given(q)
        BY <2>1 DEF OnlyChanges, GivenInv
      <3> QED
        BY <3>1 DEF Given
    <2> QED
      BY <2>1
  <1>2. ASSUME serial, NEW q \in Requests
        PROVE  Fresh(q)'
    BY <1>2, FreshKept
  <1> QED
    BY <1>1, <1>2 DEF GivenInv

\* So does one that offers its client nothing.
LEMMA NothingGiven ==
    ASSUME IInv, TurnInv, TurnInv', GivenInv, NEW r \in Requests,
           OnlyChanges(r), serial' = serial, known \subseteq known',
           req'[r].answer = Null,
           req'[r].op = "refresh" => req'[r].token \in known',
           serial => /\ RowsStay /\ Spreads(r)
                     /\ tokens' = tokens \/ (Busy(r) /\ Writes(r))
    PROVE  GivenInv'
  BY OneGiven DEF Given, Fresh, NewAnswer

\* A step that leaves the rows alone
LEMMA StillRows ==
    ASSUME IInv, UNCHANGED <<tokens, now>>
    PROVE  RowsStay /\ Ids' = Ids
  BY TwoParts DEF TableInv, RowsStay, SameOrigin, Ids

-----------------------------------------------------------------------------
(* The actions.                                                            *)

\* A request that starts is offered nothing, and presents a token its client
\* has.
LEMMA SendGiven ==
    ASSUME IInv, TurnInv, TurnInv', GivenInv, NEW r \in Requests, Send(r)
    PROVE  GivenInv'
  <1>1. UNCHANGED <<tokens, password, now, known, serial>>
    BY Zenon DEF Send, LoginRead, PasswordRead, RefreshRead
  <1>2. RowsStay /\ Spreads(r)
    BY <1>1, StillRows DEF Spreads
  <1>3. ASSUME OnlyChanges(r), req'[r].answer = Null,
               req'[r].op = "refresh" => req'[r].token \in known
        PROVE  GivenInv'
    BY <1>1, <1>2, <1>3, NothingGiven
  <1>4. ASSUME NEW i \in Inspectors, NEW d \in Devices, NEW given,
               LoginRead(r, i, d, given)
        PROVE  GivenInv'
    <2>1. OnlyChanges(r) /\ req'[r].answer = Null /\ req'[r].op = "login"
      BY <1>4, Parts DEF LoginRead, OnlyChanges, Idle
    <2> QED
      BY <1>3, <2>1
  <1>5. ASSUME NEW i \in Inspectors, NEW d \in Devices, NEW given,
               PasswordRead(r, i, d, given)
        PROVE  GivenInv'
    <2>1. OnlyChanges(r) /\ req'[r].answer = Null /\ req'[r].op = "change"
      BY <1>5, Parts DEF PasswordRead, OnlyChanges, Idle
    <2> QED
      BY <1>3, <2>1
  <1>6. ASSUME NEW t \in known, RefreshRead(r, t)
        PROVE  GivenInv'
    <2>1. /\ OnlyChanges(r) /\ req'[r].answer = Null /\ req'[r].token = t
      BY <1>6, Parts DEF RefreshRead, OnlyChanges, Idle
    <2> QED
      BY <1>3, <2>1
  <1> QED
    BY <1>4, <1>5, <1>6 DEF Send

\* A request that has no answer yet does not get one by going on.
LEMMA GoingOnGiven ==
    ASSUME IInv, TurnInv, TurnInv', GivenInv, NEW r \in Requests, Serve(r),
           UNCHANGED <<known, serial>>, OnlyChanges(r),
           req'[r].op = req[r].op, req'[r].token = req[r].token,
           req'[r].answer = Null
    PROVE  GivenInv'
  <1>1. Given(r)
    BY DEF GivenInv
  <1>2. serial => /\ RowsStay /\ Spreads(r)
                  /\ tokens' = tokens \/ (Busy(r) /\ Writes(r))
    BY OwnWrites DEF Spreads
  <1> QED
    BY <1>1, <1>2, NothingGiven DEF Given

\* The statements of a request before its answer
LEMMA StatementGiven ==
    ASSUME IInv, TurnInv, TurnInv', GivenInv, NEW r \in Requests, Serve(r),
           \/ ReuseDetected(r) \/ RevokeChain(r) \/ PasswordUpdate(r)
           \/ RevokeAll(r) \/ RevokeChosen(r)
    PROVE  GivenInv'
  <1>1. /\ UNCHANGED <<known, serial>> /\ req[r].answer = Null
        /\ req[r] \in Request
    BY TurnParts DEF ReuseDetected, RevokeChain, PasswordUpdate, RevokeAll,
       RevokeChosen, Stages
  <1>2. CASE Answered(r, "reused", Null) \/ Answered(r, "denied", Null)
    BY <1>1, <1>2, AnswerOnly, GoingOnGiven
  <1>3. ASSUME NEW p, NEW S, req' = [req EXCEPT ![r].pc = p, ![r].chosen = S]
        PROVE  GivenInv'
    <2>1. /\ OnlyChanges(r)
          /\ req'[r] = [req[r] EXCEPT !.pc = p, !.chosen = S]
      BY <1>3, Parts DEF OnlyChanges
    <2>2. /\ req'[r].op = req[r].op /\ req'[r].token = req[r].token
          /\ req'[r].answer = Null
      BY <1>1, <2>1 DEF Request
    <2> QED
      BY <1>1, <2>1, <2>2, GoingOnGiven
  <1>4. CASE req' = [req EXCEPT ![r].pc = "revokeAll"]
    <2>1. /\ OnlyChanges(r)
          /\ req'[r] = [req[r] EXCEPT !.pc = "revokeAll"]
      BY <1>4, Parts DEF OnlyChanges
    <2>2. /\ req'[r].op = req[r].op /\ req'[r].token = req[r].token
          /\ req'[r].answer = Null
      BY <1>1, <2>1 DEF Request
    <2> QED
      BY <1>1, <2>1, <2>2, GoingOnGiven
  <1> QED
    BY <1>2, <1>3, <1>4, Zenon DEF ReuseDetected, RevokeChain, PasswordUpdate,
       RevokeAll, RevokeChosen

\* A login starts a session nobody else has heard of.
LEMMA InsertTokenGiven ==
    ASSUME IInv, TurnInv, TurnInv', GivenInv, NEW r \in Requests,
           InsertToken(r)
    PROVE  GivenInv'
  <1> USE TurnParts
  <1> DEFINE i == req[r].inspector
             d == req[r].device
  <1>1. /\ i \in Inspectors /\ d \in Devices
        /\ req[r].op # "refresh" /\ known \subseteq Ids
    BY DEF InsertToken, RequestOK, TableInv
  <1>2. /\ tokens' = Append(tokens, NewRow(i, d, New))
        /\ Answered(r, "issued", New)
        /\ UNCHANGED <<password, now, known, serial>>
    BY DEF InsertToken, New
  <1>3. Inserted(i, d, New) /\ \A t \in Ids : tokens'[t] = tokens[t]
    BY <1>1, <1>2, InsertRows
  <1>4. /\ OnlyChanges(r) /\ req'[r].result = "issued"
        /\ req'[r].answer = New /\ req'[r].op = req[r].op
        /\ req'[r].inspector = i
    BY <1>2, AnswerOnly
  <1>5. Given(r)' /\ Spreads(r) /\ NewAnswer(r)
    BY <1>1, <1>2, <1>3, <1>4 DEF Given, Spreads, NewAnswer, Inserted
  <1>6. Fresh(r)'
    <2> DEFINE v == New
    <2>1. /\ req'[r].answer = v /\ v \in Ids' \ known' /\ ~tokens'[v].revoked
          /\ tokens'[v].inspector = i /\ tokens'[v].session = v
      BY <1>1, <1>2, <1>3, <1>4 DEF Inserted
    <2>2. \A t \in Ids' : tokens'[t].session = v => t = v
      BY <1>3 DEF Inserted, Origins
    <2>3. \A p \in Requests \ {r} : req'[p].answer # v
      <3>1. \A p \in Requests \ {r} :
                req'[p].answer \in Ids \cup {Null} /\ v \notin Ids \cup {Null}
        BY <1>3, <1>4, Linked DEF OnlyChanges, RequestOK, Inserted, Null, New
      <3> QED
        BY <3>1
    <2> HIDE DEF v
    <2> QED
      BY <1>4, <2>1, <2>2, <2>3 DEF Fresh, Live
  <1>7. serial => RowsStay /\ (tokens' = tokens \/ (Busy(r) /\ Writes(r)))
    BY OwnWrites DEF Serve
  <1> QED
    BY <1>2, <1>4, <1>5, <1>6, <1>7, OneGiven

\* A rotation offers the new token.
LEMMA RefreshRotateGiven ==
    ASSUME IInv, TurnInv, TurnInv', GivenInv, NEW r \in Requests,
           RefreshRotate(r)
    PROVE  GivenInv'
  <1>1. /\ req[r].op = "refresh" /\ Given(r)
        /\ Answered(r, "issued", New) /\ UNCHANGED <<known, serial>>
    BY TurnParts DEF RefreshRotate, RequestOK, New, GivenInv
  <1>2. /\ OnlyChanges(r) /\ req'[r].result = "issued"
        /\ req'[r].op = req[r].op /\ req'[r].token = req[r].token
    BY <1>1, AnswerOnly
  <1>3. Given(r)' /\ Spreads(r) /\ NewAnswer(r) /\ Fresh(r)'
    BY <1>1, <1>2 DEF Given, Spreads, NewAnswer, Fresh
  <1>4. serial => RowsStay /\ (tokens' = tokens \/ (Busy(r) /\ Writes(r)))
    BY OwnWrites DEF Serve
  <1> QED
    BY <1>1, <1>2, <1>3, <1>4, OneGiven

\* A hop of recovery ends with an answer, or goes on without one.
LEMMA RecoverHopGiven ==
    ASSUME IInv, TurnInv, TurnInv', GivenInv, NEW r \in Requests,
           RecoverHop(r)
    PROVE  GivenInv'
  <1>1. /\ req[r].op = "refresh" /\ Given(r) /\ req[r].answer = Null
        /\ UNCHANGED <<tokens, now, known, serial>> /\ req[r] \in Request
    BY TurnParts DEF RecoverHop, RequestOK, GivenInv, Stages
  <1>2. ASSUME NEW result, NEW x, Answered(r, result, x),
               x # Null => result = "recovered"
        PROVE  GivenInv'
    <2>1. /\ OnlyChanges(r) /\ req'[r].result = result /\ req'[r].answer = x
          /\ req'[r].op = req[r].op /\ req'[r].token = req[r].token
      BY <1>2, AnswerOnly
    <2>2. Given(r)' /\ Spreads(r) /\ NewAnswer(r) /\ Fresh(r)'
      BY <1>1, <1>2, <2>1 DEF Given, Spreads, NewAnswer, Fresh
    <2> QED
      BY <1>1, <2>1, <2>2, StillRows, OneGiven
  <1>3. ASSUME NEW v, NEW l, NEW c,
               req' = [req EXCEPT ![r].visited = v, ![r].link = l,
                                  ![r].cipher = c]
        PROVE  GivenInv'
    <2>1. /\ OnlyChanges(r)
          /\ req'[r] = [req[r] EXCEPT !.visited = v, !.link = l, !.cipher = c]
      BY <1>3, Parts DEF OnlyChanges
    <2>2. /\ req'[r].op = req[r].op /\ req'[r].token = req[r].token
          /\ req'[r].answer = Null
      BY <1>1, <2>1 DEF Request
    <2>3. Serve(r)
      BY DEF Serve
    <2> QED
      BY <1>1, <2>1, <2>2, <2>3, GoingOnGiven
  <1> QED
    BY <1>2, <1>3, Zenon DEF RecoverHop

\* An answer that gets to its client is known from then on; a request that
\* ends offers nothing any more.
LEMMA EndGiven ==
    ASSUME IInv, TurnInv, TurnInv', GivenInv, NEW r \in Requests,
           Respond(r) \/ Crash(r)
    PROVE  GivenInv'
  <1>1. /\ OnlyChanges(r) /\ req'[r] = Idle
        /\ UNCHANGED <<tokens, now, serial>>
        /\ known \subseteq known' /\ Spreads(r)
    BY Parts DEF Respond, Crash, OnlyChanges, Spreads
  <1>2. req'[r].answer = Null /\ req'[r].op = "login"
    BY <1>1 DEF Idle
  <1> QED
    BY <1>1, <1>2, StillRows, NothingGiven

\* Nothing is given to start with, and every step keeps what is.
LEMMA GivenInit == Init => GivenInv
  BY DEF Init, Idle, GivenInv, Given, Fresh

\* Every step keeps it.
LEMMA GivenNext ==
    IInv /\ TurnInv /\ TurnInv' /\ GivenInv /\ [Next]_vars => GivenInv'
  <1> SUFFICES ASSUME IInv, TurnInv, TurnInv', GivenInv, [Next]_vars
               PROVE  GivenInv'
    OBVIOUS
  <1>1. ASSUME NEW r \in Requests, Serve(r)
        PROVE  GivenInv'
    BY <1>1, InsertTokenGiven, RefreshRotateGiven, RecoverHopGiven,
       StatementGiven, EndGiven DEF Serve
  <1>2. CASE Tick \/ UNCHANGED vars
    <2>1. UNCHANGED <<tokens, known, req, serial>>
      BY <1>2 DEF Tick, vars
    <2> QED
      BY <2>1 DEF GivenInv, Given, Fresh, Ids, Live
  <1> QED
    BY <1>1, <1>2, SendGiven, EndGiven DEF Next

\* In every reachable state.
LEMMA GivenInvariant == Spec => []GivenInv
  BY Invariant, TurnInvariant, GivenInit, GivenNext, PTL DEF Spec

-----------------------------------------------------------------------------
(* The register: what a step of a request is on it.                        *)

Offered == [q \in Requests |-> req[q].answer]
Holders == {t \in Ids : Live(t)}

\* Where a row comes from
From(row) == [inspector |-> row.inspector, device |-> row.device,
              session |-> row.session]

\* The register has a token for each row.
LEMMA OriginRows ==
    ASSUME TableInv
    PROVE  /\ DOMAIN Origin = Ids /\ Origin \in Seq({From(row) : row \in Token})
           /\ Len(Origin) = Len(tokens) /\ Len(tokens) \in Nat
           /\ \A t \in Ids : Origin[t] = From(tokens[t])
           /\ Ids = 1..Len(tokens)
  <1>1. /\ Ids = 1..Len(tokens) /\ Len(tokens) \in Nat
        /\ \A t \in Ids : tokens[t] \in Token
    BY Linked
  <1>2. DOMAIN Origin = Ids /\ \A t \in Ids : Origin[t] = From(tokens[t])
    BY DEF Origin, From
  <1>3. Origin \in [1..Len(tokens) -> {From(row) : row \in Token}]
    BY <1>1, <1>2 DEF Origin, From
  <1>4. Origin \in Seq({From(row) : row \in Token})
    BY <1>1, <1>3, SeqDef
  <1>5. Len(Origin) = Len(tokens)
    BY <1>1, <1>2, <1>4, LenProperties
  <1> QED
    BY <1>1, <1>2, <1>4, <1>5

\* Statements that insert no row leave where tokens come from.
LEMMA OriginStays ==
    ASSUME RowsStay, Ids' = Ids
    PROVE  Origin' = Origin
  BY DEF Origin, RowsStay, SameOrigin

\* One that inserts a row issues a token.
LEMMA OriginGrows ==
    ASSUME TableInv, RowsStay, NEW i \in Inspectors, NEW d \in Devices,
           NEW s \in Nat, Inserted(i, d, s)
    PROVE  Origin' = Append(Origin, [inspector |-> i, device |-> d,
                                     session |-> s])
  <1> DEFINE o == [inspector |-> i, device |-> d, session |-> s]
             S == {From(row) : row \in Token} \cup {o}
             longer == Append(Origin, o)
  <1>1. /\ Origin \in Seq(S) /\ o \in S /\ Len(Origin) = Len(tokens)
        /\ Len(tokens) \in Nat /\ Ids = 1..Len(tokens)
        /\ \A t \in Ids : Origin[t] = From(tokens[t])
    <2>1. Origin \in Seq({From(row) : row \in Token})
      BY OriginRows
    <2>2. Origin \in Seq(S)
      BY <2>1, OriginRows, SeqDef
    <2> QED
      BY <2>2, OriginRows
  <1> HIDE DEF S
  <1>2. /\ DOMAIN longer = 1..(Len(tokens) + 1)
        /\ \A t \in 1..Len(tokens) : longer[t] = Origin[t]
        /\ longer[Len(tokens) + 1] = o
        /\ longer = [t \in DOMAIN longer |-> longer[t]]
    BY <1>1, AppendProperties, LenProperties
  <1>3. Ids' = 1..(Len(tokens) + 1)
    BY <1>1 DEF Inserted, New
  <1>4. ASSUME NEW t \in Ids'
        PROVE  From(tokens'[t]) = longer[t]
    <2>1. CASE t \in Ids
      BY <1>1, <1>2, <2>1 DEF From, RowsStay, SameOrigin
    <2>2. CASE t = New
      BY <1>1, <1>2, <2>2 DEF From, New, Inserted
    <2> QED
      BY <2>1, <2>2 DEF Inserted
  <1>5. Origin' = [t \in Ids' |-> From(tokens'[t])]
    BY DEF Origin, From
  <1>6. longer = [t \in Ids' |-> longer[t]]
    BY <1>2, <1>3
  <1> HIDE DEF longer
  <1> QED
    BY <1>4, <1>5, <1>6 DEF longer

\* What a step of one request does to what is offered
LEMMA OfferedNext ==
    ASSUME NEW r \in Requests, OnlyChanges(r)
    PROVE  /\ Offered' = [Offered EXCEPT ![r] = req'[r].answer]
           /\ req'[r].answer = req[r].answer => Offered' = Offered
           /\ Offered[r] = req[r].answer
  BY DEF Offered, OnlyChanges

\* A step that changes neither the table nor what is known or offered is none
\* of the register's.
LEMMA QuietStep ==
    ASSUME NEW r \in Requests, UNCHANGED <<tokens, known>>, OnlyChanges(r),
           req'[r].answer = req[r].answer
    PROVE  UNCHANGED Register!vars
  <1>1. Ids' = Ids /\ Origin' = Origin /\ Holders' = Holders
    BY DEF Ids, Origin, Holders, Live
  <1>2. Offered' = Offered
    BY OfferedNext
  <1> QED
    BY <1>1, <1>2 DEF Register!vars, Holders, Offered

\* Before the answer there is none.
LEMMA NoAnswerYet ==
    ASSUME IInv, TurnInv, NEW r \in Requests, req[r].pc # "answered"
    PROVE  req[r].answer = Null
  BY TurnParts DEF Stages

\* A request that starts does nothing to the register.
LEMMA SendStep ==
    ASSUME IInv, TurnInv, NEW r \in Requests, Send(r)
    PROVE  UNCHANGED Register!vars
  <1>1. UNCHANGED <<tokens, known>> /\ req[r].pc = "idle"
    BY Zenon DEF Send, LoginRead, PasswordRead, RefreshRead, Busy
  <1>2. req[r].answer = Null
    BY <1>1, NoAnswerYet
  <1>3. ASSUME NEW i \in Inspectors, NEW d \in Devices, NEW given,
               LoginRead(r, i, d, given) \/ PasswordRead(r, i, d, given)
        PROVE  OnlyChanges(r) /\ req'[r].answer = Null
    <2>1. CASE LoginRead(r, i, d, given)
      BY <2>1, Parts DEF LoginRead, OnlyChanges, Idle
    <2>2. CASE PasswordRead(r, i, d, given)
      BY <2>2, Parts DEF PasswordRead, OnlyChanges, Idle
    <2> QED
      BY <1>3, <2>1, <2>2
  <1>4. ASSUME NEW t \in known, RefreshRead(r, t)
        PROVE  OnlyChanges(r) /\ req'[r].answer = Null
    BY <1>4, Parts DEF RefreshRead, OnlyChanges, Idle
  <1>5. OnlyChanges(r) /\ req'[r].answer = Null
    BY <1>3, <1>4 DEF Send
  <1> QED
    BY <1>1, <1>2, <1>5, QuietStep

\* create_refresh_token of a login or a password change opens a session.
LEMMA InsertTokenStep ==
    ASSUME IInv, TurnInv, NEW r \in Requests, InsertToken(r)
    PROVE  Register!Open(r)
  <1> USE TurnParts
  <1> DEFINE i == req[r].inspector
             d == req[r].device
  <1>1. /\ i \in Inspectors /\ d \in Devices /\ req[r].answer = Null
    BY NoAnswerYet DEF InsertToken, RequestOK
  <1>2. /\ tokens' = Append(tokens, NewRow(i, d, New))
        /\ Answered(r, "issued", New)
        /\ UNCHANGED <<password, now, known, serial>>
    BY DEF InsertToken, New
  <1>3. /\ Inserted(i, d, New) /\ \A t \in Ids : tokens'[t] = tokens[t]
        /\ RowsStay
    BY <1>1, <1>2, InsertRows, InsertKeeps DEF New
  <1>4. OnlyChanges(r) /\ req'[r].answer = New
    BY <1>2, AnswerOnly
  <1>5. Register!New = New /\ New \in Nat
    BY OriginRows DEF Register!New, New
  <1>6. Origin' = Append(Origin, [inspector |-> i, device |-> d,
                                  session |-> New])
    BY <1>1, <1>3, <1>5, OriginGrows
  <1>7. Holders' = Holders \cup {New}
    BY <1>3 DEF Holders, Live, Inserted
  <1>8. Offered[r] = Null /\ Offered' = [Offered EXCEPT ![r] = New]
    BY <1>1, <1>4, OfferedNext
  <1> HIDE DEF i, d
  <1> QED
    BY <1>1, <1>2, <1>5, <1>6, <1>7, <1>8
       DEF Register!Open, Register!Issue, Holders, Offered, Null

\* The register's steps with the names used here
LEMMA PassForm ==
    ASSUME NEW r \in Requests, NEW t \in Holders \cap known,
           Register!Settled({t}), Register!Issue(r, Origin[t]),
           Holders' = (Holders \ {t}) \cup {Register!New}
    PROVE  Register!Pass(r)
  BY DEF Register!Pass, Holders

\* A rotation passes its session on.
LEMMA RefreshRotateStep ==
    ASSUME IInv, TurnInv, GivenInv, serial, \A q \in Requests : Current(q)',
           NEW r \in Requests, RefreshRotate(r)
    PROVE  Register!Pass(r)
  <1> USE TurnParts
  <1> DEFINE i == req[r].inspector
             d == req[r].device
             old == req[r].token
             s == tokens[old].session
  <1>1. /\ i \in Inspectors /\ d \in Devices /\ req[r].answer = Null
        /\ req[r].op = "refresh" /\ req[r].pc = "rotate"
        /\ old \in Ids /\ i = tokens[old].inspector /\ d = tokens[old].device
        /\ s \in Nat
    BY Parts, NoAnswerYet DEF RefreshRotate, RequestOK, Token
  <1>2. old \in known /\ Live(old)
    BY <1>1 DEF GivenInv, Given, Secured
  <1>3. /\ tokens' = Append(RevokeAndReplace(tokens, old, New),
                            NewRow(i, d, s))
        /\ Answered(r, "issued", New)
        /\ UNCHANGED <<password, now, known, serial>>
    BY DEF RefreshRotate, New
  <1>4. /\ Inserted(i, d, s) /\ tokens'[old].revoked
        /\ \A t \in Ids \ {old} : tokens'[t] = tokens[t]
    BY <1>1, <1>3, RotateRows
  <1>5. RowsStay
    BY <1>1, <1>3, RotateKeeps DEF New
  <1>6. OnlyChanges(r) /\ req'[r].answer = New
    BY <1>3, AnswerOnly
  <1>7. Register!New = New /\ New \in Nat /\ New # Null
    BY OriginRows DEF Register!New, New, Null
  <1>8. /\ Origin' = Append(Origin, Origin[old])
    <2>1. Origin[old] = [inspector |-> i, device |-> d, session |-> s]
      BY <1>1, OriginRows DEF From
    <2>2. Origin' = Append(Origin, [inspector |-> i, device |-> d,
                                    session |-> s])
      <3> HIDE DEF i, d, s
      <3> QED
        BY <1>1, <1>4, <1>5, OriginGrows
    <2> QED
      BY <2>1, <2>2
  <1>9. Holders' = (Holders \ {old}) \cup {New}
    BY <1>4 DEF Holders, Live, Inserted
  <1>10. Offered[r] = Null /\ Offered' = [Offered EXCEPT ![r] = New]
    BY <1>1, <1>6, OfferedNext
  <1>11. ASSUME NEW q \in Requests
         PROVE  Offered[q] # old
    <2>1. CASE q = r
      BY <1>1, <2>1, Linked DEF Offered
    <2>2. CASE q # r
      <3>1. req'[q].answer = req[q].answer /\ Current(q)'
        BY <1>6, <2>2 DEF OnlyChanges
      <3> QED
        BY <1>1, <1>4, <3>1, Linked DEF Current, Live, Offered
    <2> QED
      BY <2>1, <2>2
  <1>12. PICK t \in Holders \cap known : t = old
    BY <1>1, <1>2 DEF Holders
  <1> HIDE DEF i, d, old, s
  <1>13. Register!Settled({t})
    BY <1>11, <1>12 DEF Register!Settled, Offered
  <1>14. Register!Issue(r, Origin[t])
    BY <1>3, <1>7, <1>8, <1>10, <1>12 DEF Register!Issue, Offered, Null
  <1>15. Holders' = (Holders \ {t}) \cup {Register!New}
    BY <1>7, <1>9, <1>12
  <1> QED
    BY <1>13, <1>14, <1>15, PassForm

\* Recovery reminds its client of the current token, or tells it nothing.
LEMMA RecoverHopStep ==
    ASSUME IInv, IInv', TurnInv, GivenInv, NEW r \in Requests, RecoverHop(r)
    PROVE  Register!Remind(r) \/ UNCHANGED Register!vars
  <1> USE TurnParts
  <1>1. /\ req[r].answer = Null /\ req[r].op = "refresh" /\ req[r] \in Request
        /\ req[r].token \in known /\ req[r].token \in Ids
        /\ UNCHANGED <<tokens, known>> /\ Ids' = Ids
    BY NoAnswerYet DEF RecoverHop, RequestOK, GivenInv, Given, Ids
  <1>2. CASE Answered(r, "denied", Null) \/ Answered(r, "unreadable", Null)
    BY <1>1, <1>2, AnswerOnly, QuietStep
  <1>3. ASSUME NEW v, NEW l, NEW c,
               req' = [req EXCEPT ![r].visited = v, ![r].link = l,
                                  ![r].cipher = c]
        PROVE  UNCHANGED Register!vars
    <2>1. /\ OnlyChanges(r)
          /\ req'[r] = [req[r] EXCEPT !.visited = v, !.link = l, !.cipher = c]
      BY <1>3, Parts DEF OnlyChanges
    <2>2. req'[r].answer = req[r].answer
      BY <1>1, <2>1 DEF Request
    <2> QED
      BY <1>1, <2>1, <2>2, QuietStep
  <1>4. ASSUME NEW u, u # Null, Live(u), Answered(r, "recovered", u)
        PROVE  Register!Remind(r)
    <2> PICK t \in known : t = req[r].token
      BY <1>1
    <2>1. /\ OnlyChanges(r) /\ req'[r].answer = u /\ req'[r].op = "refresh"
          /\ req'[r].token = t
      BY <1>1, <1>4, AnswerOnly
    <2>2. /\ u \in Ids /\ u > t
          /\ tokens[u].session = tokens[t].session
          /\ tokens[u].inspector = tokens[t].inspector
          /\ tokens[u].device = tokens[t].device
      <3>1. AnswerInSession(r)'
        BY TwoPartsNext DEF RequestInv
      <3> QED
        BY <1>1, <1>4, <2>1, <3>1 DEF AnswerInSession
    <2>3. Origin[u] = Origin[t] /\ u \in Holders
      BY <1>1, <1>4, <2>2, OriginRows DEF From, Holders
    <2>4. Origin' = Origin /\ Holders' = Holders
      BY <1>1 DEF Origin, Holders, Live
    <2>5. Offered[r] = Null /\ Offered' = [Offered EXCEPT ![r] = u]
      BY <1>1, <2>1, OfferedNext
    <2> QED
      BY <1>1, <2>2, <2>3, <2>4, <2>5
         DEF Register!Remind, Holders, Offered, Null
  <1>5. ASSUME req[r].cipher # Null, Live(req[r].cipher),
               Answered(r, "recovered", req[r].cipher)
        PROVE  Register!Remind(r)
    <2> PICK u : u = req[r].cipher
      OBVIOUS
    <2> QED
      BY <1>4, <1>5 DEF Live, Answered
  <1> QED
    BY <1>2, <1>3, <1>5 DEF RecoverHop

\* A statement that revokes rows ends what it is about: nothing of it is
\* offered to another client, and the rest stays current.
LEMMA RevokedRows ==
    ASSUME IInv, TurnInv, serial, \A q \in Requests : Current(q)',
           NEW r \in Requests, OnlyChanges(r), req[r].answer = Null,
           req'[r].answer = Null, NEW S \in SUBSET Ids,
           tokens' = Revoke(tokens, S), UNCHANGED <<password, now, known, serial>>
    PROVE  /\ Holders' = Holders \ S /\ \A q \in Requests : Offered[q] \notin S
           /\ Origin' = Origin /\ Offered' = Offered
  <1> USE TurnParts
  <1>1. /\ RowsStay /\ Ids' = Ids
        /\ \A t \in Ids \ S : tokens'[t] = tokens[t]
    BY RevokeOwn
  <1>2. \A t \in S : tokens'[t].revoked
    BY Linked DEF Revoke, Ids, Token
  <1>3. Origin' = Origin /\ Offered' = Offered
    BY <1>1, OriginStays, OfferedNext
  <1>4. Holders' = Holders \ S
    BY <1>1, <1>2 DEF Holders, Live
  <1>5. ASSUME NEW q \in Requests, Offered[q] \in S
        PROVE  FALSE
    <2>1. Null \notin S
      BY Linked
    <2>2. req'[q].answer = Offered[q]
      BY <1>5, <2>1 DEF OnlyChanges, Offered
    <2>3. Live(req[q].answer)'
      BY <1>5, <2>1, <2>2 DEF Current
    <2> QED
      BY <1>2, <1>5, <2>2, <2>3 DEF Live
  <1> QED
    BY <1>3, <1>4, <1>5

\* Reuse ends the session of the token, all of it.
LEMMA RevokeChainStep ==
    ASSUME IInv, TurnInv, GivenInv, serial, \A q \in Requests : Current(q)',
           NEW r \in Requests, RevokeChain(r)
    PROVE  Register!End
  <1> USE TurnParts
  <1>1. /\ req[r].answer = Null /\ req[r].op = "refresh"
        /\ req[r].token \in known /\ req[r].token \in Ids
        /\ req[r].chosen = InSession(req[r].token)
    BY NoAnswerYet DEF RevokeChain, RequestOK, GivenInv, Given, Secured, Foot
  <1>2. PICK t \in known : t = req[r].token
    BY <1>1
  <1>3. PICK S \in SUBSET Ids : S = req[r].chosen
    BY <1>1 DEF InSession
  <1>4. /\ tokens' = Revoke(tokens, S) /\ Answered(r, "reused", Null)
        /\ UNCHANGED <<password, now, known, serial>>
    BY <1>3 DEF RevokeChain
  <1>5. OnlyChanges(r) /\ req'[r].answer = Null
    BY <1>4, AnswerOnly
  <1>6. /\ Holders' = Holders \ S /\ \A q \in Requests : Offered[q] \notin S
        /\ Origin' = Origin /\ Offered' = Offered
    BY <1>1, <1>4, <1>5, RevokedRows
  <1>7. Register!Session(t) = S
    BY <1>1, <1>2, <1>3, OriginRows DEF Register!Session, Register!Issued,
       InSession, From
  <1> QED
    BY <1>4, <1>6, <1>7 DEF Register!End, Register!Revoked, Register!Settled,
       Holders, Offered

\* A password change ends all sessions of its inspector.
LEMMA RevokeChosenStep ==
    ASSUME IInv, TurnInv, serial, \A q \in Requests : Current(q)',
           NEW r \in Requests, RevokeChosen(r)
    PROVE  Register!EndAll
  <1> USE TurnParts
  <1>1. /\ req[r].answer = Null /\ req[r].op = "change" /\ req[r] \in Request
        /\ req[r].inspector \in Inspectors
        /\ req[r].chosen = Of(req[r].inspector)
    BY NoAnswerYet DEF RevokeChosen, RequestOK, Stages, Secured, Foot
  <1>2. PICK i \in Inspectors : i = req[r].inspector
    BY <1>1
  <1>3. PICK S \in SUBSET Ids : S = req[r].chosen
    BY <1>1 DEF Of
  <1>4. /\ tokens' = Revoke(tokens, S)
        /\ req' = [req EXCEPT ![r].pc = "insert", ![r].chosen = {}]
        /\ UNCHANGED <<password, now, known, serial>>
    BY <1>3 DEF RevokeChosen
  <1>5. OnlyChanges(r) /\ req'[r].answer = Null
    BY <1>1, <1>4, Parts DEF OnlyChanges, Request
  <1>6. /\ Holders' = Holders \ S /\ \A q \in Requests : Offered[q] \notin S
        /\ Origin' = Origin /\ Offered' = Offered
    BY <1>1, <1>4, <1>5, RevokedRows
  <1>7. Register!Of(i) = S
    BY <1>1, <1>2, <1>3, OriginRows DEF Register!Of, Register!Issued, Of, From
  <1> QED
    BY <1>4, <1>6, <1>7 DEF Register!EndAll, Register!Revoked,
       Register!Settled, Holders, Offered

\* An answer with a token hands it over; another one does nothing.
LEMMA RespondStep ==
    ASSUME IInv, NEW r \in Requests, Respond(r)
    PROVE  Register!Hand(r) \/ UNCHANGED Register!vars
  <1>1. /\ OnlyChanges(r) /\ req'[r].answer = Null /\ tokens' = tokens
        /\ known' = known \cup ({req[r].answer} \ {Null}) \/ known' = known
    BY Parts DEF Respond, OnlyChanges, Idle
  <1>2. CASE req[r].answer = Null
    <2>1. known' = known
      BY <1>1, <1>2
    <2> QED
      BY <1>1, <1>2, <2>1, QuietStep
  <1>3. CASE req[r].answer # Null
    <2>1. Origin' = Origin /\ Holders' = Holders
      BY <1>1 DEF Origin, Holders, Live, Ids
    <2>2. /\ Offered[r] # Null /\ Offered' = [Offered EXCEPT ![r] = Null]
          /\ Offered[r] = req[r].answer
      BY <1>1, <1>3, OfferedNext
    <2>3. known' \in {known, known \cup {Offered[r]}}
      BY <1>1, <1>3, <2>2
    <2> QED
      BY <2>1, <2>2, <2>3 DEF Register!Hand, Holders, Offered, Null
  <1> QED
    BY <1>2, <1>3

\* The other statements, and a crash, do nothing.
LEMMA OtherStep ==
    ASSUME IInv, TurnInv, NEW r \in Requests,
           ReuseDetected(r) \/ PasswordUpdate(r) \/ RevokeAll(r) \/ Crash(r)
    PROVE  UNCHANGED Register!vars
  <1>1. /\ req[r].pc # "answered" /\ UNCHANGED <<tokens, known>>
        /\ req[r] \in Request
    BY TurnParts DEF ReuseDetected, PasswordUpdate, RevokeAll, Crash
  <1>2. req[r].answer = Null
    BY <1>1, NoAnswerYet
  <1>3. ASSUME NEW p, NEW S, req' = [req EXCEPT ![r].pc = p, ![r].chosen = S]
        PROVE  UNCHANGED Register!vars
    <2>1. /\ OnlyChanges(r)
          /\ req'[r] = [req[r] EXCEPT !.pc = p, !.chosen = S]
      BY <1>3, Parts DEF OnlyChanges
    <2>2. req'[r].answer = req[r].answer
      BY <1>1, <2>1 DEF Request
    <2> QED
      BY <1>1, <2>1, <2>2, QuietStep
  <1>4. CASE req' = [req EXCEPT ![r].pc = "revokeAll"]
    <2>1. /\ OnlyChanges(r)
          /\ req'[r] = [req[r] EXCEPT !.pc = "revokeAll"]
      BY <1>4, Parts DEF OnlyChanges
    <2>2. req'[r].answer = req[r].answer
      BY <1>1, <2>1 DEF Request
    <2> QED
      BY <1>1, <2>1, <2>2, QuietStep
  <1>5. CASE Answered(r, "denied", Null)
    BY <1>1, <1>2, <1>5, AnswerOnly, QuietStep
  <1>6. CASE req' = [req EXCEPT ![r] = Idle]
    <2>1. OnlyChanges(r) /\ req'[r].answer = Null
      BY <1>6, Parts DEF OnlyChanges, Idle
    <2> QED
      BY <1>1, <1>2, <2>1, QuietStep
  <1> QED
    BY <1>3, <1>4, <1>5, <1>6, Zenon DEF ReuseDetected, PasswordUpdate,
       RevokeAll, Crash

\* Every step is one of the register, or none.
LEMMA RegisterStep ==
    ASSUME IInv, IInv', TurnInv, TurnInv', GivenInv, GivenInv', serial,
           [Next]_vars
    PROVE  Register!Next \/ UNCHANGED Register!vars
  <1>1. serial'
    <2>1. ASSUME NEW r \in Requests, Send(r) \/ Crash(r)
          PROVE  serial' = serial
      BY <2>1, Zenon DEF Send, LoginRead, PasswordRead, RefreshRead, Crash
    <2>2. ASSUME NEW r \in Requests, Serve(r)
          PROVE  serial' = serial
      BY <2>2, Zenon DEF Serve, InsertToken, RefreshRotate, RecoverHop,
         ReuseDetected, RevokeChain, PasswordUpdate, RevokeAll, RevokeChosen,
         Respond
    <2>3. serial' = serial
      BY <2>1, <2>2, Zenon DEF Next, Tick, vars
    <2> QED
      BY <2>3
  <1>2. \A q \in Requests : Current(q)'
    BY <1>1, AnswersCurrentNext
  <1>3. ASSUME NEW r \in Requests, Serve(r)
        PROVE  Register!Next \/ UNCHANGED Register!vars
    <2>1. \/ Register!Open(r) \/ Register!Pass(r) \/ Register!Remind(r)
          \/ Register!End \/ Register!EndAll \/ Register!Hand(r)
          \/ UNCHANGED Register!vars
      BY <1>2, <1>3, InsertTokenStep, RefreshRotateStep, RecoverHopStep,
         RevokeChainStep, RevokeChosenStep, RespondStep, OtherStep DEF Serve
    <2> QED
      BY <2>1 DEF Register!Next
  <1>4. CASE Tick \/ UNCHANGED vars
    <2>1. UNCHANGED <<tokens, known, req>>
      BY <1>4 DEF Tick, vars
    <2> QED
      BY <2>1 DEF Register!vars, Origin, Ids, Live
  <1> QED
    BY <1>3, <1>4, SendStep, OtherStep DEF Next

\* Clients taking turns, logins, refreshes, recoveries, reuse and password
\* changes act on sessions as SessionRegister says, for any number of
\* inspectors, devices and requests, with lost answers and crashes.
THEOREM Refinement == Spec => ActsAsRegister
  <1> DEFINE A == serial => Register!Next
             v == Register!vars
             I == Register!Init
  <1>1. Init => I
    <2> SUFFICES ASSUME Init PROVE I
      OBVIOUS
    <2>1. Ids = {} /\ tokens = <<>>
      BY EmptySeq DEF Init, Ids
    <2>2. Origin = <<>>
      BY <2>1 DEF Origin, Ids
    <2>3. {t \in Ids : Live(t)} = {}
      BY <2>1
    <2>4. [r \in Requests |-> req[r].answer] = [r \in Requests |-> 0]
      BY DEF Init, Idle, Null
    <2> QED
      BY <2>2, <2>3, <2>4 DEF Init, Register!Init
  <1>2. ASSUME IInv, IInv', TurnInv, TurnInv', GivenInv, GivenInv', [Next]_vars
        PROVE  A \/ UNCHANGED v
    BY <1>2, RegisterStep
  <1>3. ActsAsRegister <=> I /\ [][A]_v
    BY DEF ActsAsRegister
  <1> HIDE DEF A, v, I
  <1>4. IInv /\ IInv' /\ TurnInv /\ TurnInv' /\ GivenInv /\ GivenInv'
            /\ [Next]_vars => [A]_v
    BY <1>2
  <1> QED
    BY <1>1, <1>3, <1>4, Invariant, TurnInvariant, GivenInvariant, PTL DEF Spec

\* The session t belongs to has ended.
Ended(t) == \A u \in InSession(t) : ~Live(u)

\* A session that has ended does not come back: after reuse or a password
\* change no request still in flight gives it a token that refreshes.
THEOREM EndedForGood ==
    Spec => [][serial => \A t \in Ids : Ended(t) => Ended(t)']_vars
  <1> DEFINE Stays == \A t \in Ids : Ended(t) => Ended(t)'
  <1>1. ASSUME IInv, TurnInv, [Next]_vars, serial
        PROVE  Stays
    <2> USE <1>1, TurnParts
    <2>1. ASSUME RowsStay, Ids' = Ids,
                 \A u \in Ids : ~Live(u) => tokens'[u].revoked
          PROVE  Stays
      BY <2>1 DEF Ended, InSession, Live, RowsStay, SameOrigin
    <2>2. CASE tokens' = tokens
      BY <2>2 DEF Ended, InSession, Live, Ids
    <2>3. ASSUME NEW S, tokens' = Revoke(tokens, S),
                 UNCHANGED <<password, now, known, serial>>
          PROVE  Stays
      <3>1. RowsStay /\ Ids' = Ids
        BY <2>3, RevokeKeeps DEF Revoke, Ids
      <3>2. \A u \in Ids : ~Live(u) => tokens'[u].revoked
        BY <2>3, RevokeRows DEF TableInv, Live, Revoke, Ids
      <3> QED
        BY <2>1, <3>1, <3>2
    <2>4. ASSUME NEW r \in Requests, InsertToken(r)
          PROVE  Stays
      <3>1. req[r].inspector \in Inspectors /\ req[r].device \in Devices
        BY <2>4 DEF InsertToken, RequestOK
      <3>2. /\ Inserted(req[r].inspector, req[r].device, New)
            /\ \A t \in Ids : tokens'[t] = tokens[t]
        BY <2>4, <3>1, InsertRows DEF InsertToken, New
      <3>3. \A t \in Ids : tokens'[t].session # New
        BY <3>2 DEF Origins, Inserted
      <3> QED
        BY <3>2, <3>3 DEF Ended, InSession, Live, Inserted
    <2>5. ASSUME NEW r \in Requests, RefreshRotate(r)
          PROVE  Stays
      <3> DEFINE old == req[r].token
                 s == tokens[old].session
      <3>1. /\ old \in Ids /\ Live(old) /\ req[r].inspector \in Inspectors
            /\ req[r].device \in Devices
        BY <2>5, Parts DEF RefreshRotate, RequestOK, Secured, Token
      <3>2. /\ Inserted(req[r].inspector, req[r].device, s)
            /\ \A t \in Ids \ {old} : tokens'[t] = tokens[t]
            /\ tokens'[old].revoked /\ SameOrigin(tokens[old], tokens'[old])
        BY <2>5, <3>1, RotateRows DEF RefreshRotate, New
      <3>3. \A t \in Ids : tokens'[t].session = tokens[t].session
        BY <3>2 DEF SameOrigin
      <3> SUFFICES ASSUME NEW t \in Ids, Ended(t) PROVE Ended(t)'
        OBVIOUS
      <3>4. tokens[t].session # s
        BY <3>1 DEF Ended, InSession
      <3>5. ASSUME NEW u \in Ids', tokens'[u].session = tokens'[t].session
            PROVE  tokens'[u].revoked
        <4>1. u # New
          BY <3>2, <3>3, <3>4, <3>5 DEF Inserted
        <4>2. u \in Ids /\ u # old /\ tokens[u].session = tokens[t].session
          BY <3>2, <3>3, <3>4, <3>5, <4>1 DEF Inserted
        <4> QED
          BY <3>2, <4>2 DEF Ended, InSession, Live
      <3> QED
        BY <3>5 DEF Ended, InSession, Live
    <2>6. ASSUME NEW r \in Requests, Serve(r)
          PROVE  Stays
      <3> HIDE DEF Stays
      <3> QED
        BY <2>2, <2>3, <2>4, <2>5, <2>6 DEF Serve, RecoverHop, ReuseDetected,
           RevokeChain, PasswordUpdate, RevokeAll, RevokeChosen, Respond
    <2>7. ASSUME NEW r \in Requests, Send(r) \/ Crash(r)
          PROVE  tokens' = tokens
      BY <2>7, Zenon DEF Send, LoginRead, PasswordRead, RefreshRead, Crash
    <2> QED
      BY <2>2, <2>6, <2>7 DEF Next, Tick, vars
  <1>2. IInv /\ TurnInv /\ [Next]_vars => [serial => Stays]_vars
    BY <1>1
  <1> QED
    BY <1>2, Invariant, TurnInvariant, PTL DEF Spec
=============================================================================
