------------------------ MODULE RefreshTokensProofs ------------------------
(***************************************************************************)
(* What TLAPS proves of RefreshTokens, for every set of inspectors,        *)
(* devices and requests and whatever the clients do.                       *)
(***************************************************************************)
EXTENDS RefreshTokens, SequenceTheorems, TLAPS

\* The loop of _recover_refresh goes forward: what it is about to look up is
\* younger than everything it has visited.
RecoveryAdvances ==
    \A r \in Requests :
        (req[r].pc = "recover" /\ req[r].link # Null) =>
            \A v \in req[r].visited : v < req[r].link

\* What a request holds between its statements is consistent with the table.
RequestOK(r) == LET q == req[r] IN
    /\ q.asOf <= now
    /\ q.pc \in {"insert", "update", "revokeAll", "revokeChosen"} =>
           /\ q.op # "refresh"
           /\ q.inspector \in Inspectors /\ q.device \in Devices
    /\ q.pc \in {"rotate", "recover", "reuse", "revokeChain"} => q.op = "refresh"
    /\ q.answer # Null => q.answer \in Ids
    /\ q.op = "refresh" =>
           /\ q.token \in Ids /\ q.token \in q.visited
           /\ q.inspector = tokens[q.token].inspector
           /\ q.device = tokens[q.token].device
           /\ q.cipher \in {Null, q.link}
           /\ q.link # Null =>
                  /\ q.link \in Ids
                  /\ tokens[q.link].session = tokens[q.token].session

\* The inductive invariant: the properties, and RequestOK.
IInv ==
    /\ TypeOK
    /\ now >= 1
    /\ RotationForest
    /\ RecoveryMaterial
    /\ AnswerStaysInSession
    /\ RecoveryAdvances
    /\ \A r \in Requests : RequestOK(r)

-----------------------------------------------------------------------------
(* The table: what INSERT and the UPDATEs do to its rows.                  *)

\* The columns no statement of auth.sql updates
SameOrigin(row, rowNext) ==
    /\ rowNext.session = row.session
    /\ rowNext.inspector = row.inspector
    /\ rowNext.device = row.device
    /\ rowNext.expires_at = row.expires_at

\* INSERT adds a row after the others and leaves those alone.
LEMMA AppendRow ==
    ASSUME NEW rows \in Seq(Token), NEW row \in Token
    PROVE  /\ Append(rows, row) \in Seq(Token)
           /\ DOMAIN Append(rows, row) = DOMAIN rows \cup {Len(rows) + 1}
           /\ \A t \in DOMAIN rows : Append(rows, row)[t] = rows[t]
           /\ Append(rows, row)[Len(rows) + 1] = row
           /\ \A t \in DOMAIN rows : t \in Nat /\ 1 <= t /\ t <= Len(rows)
           /\ Len(rows) \in Nat
  <1>1. /\ Append(rows, row) \in Seq(Token)
        /\ Len(Append(rows, row)) = Len(rows) + 1
        /\ \A i \in 1..Len(rows) : Append(rows, row)[i] = rows[i]
        /\ Append(rows, row)[Len(rows) + 1] = row
    BY AppendProperties
  <1>2. DOMAIN rows = 1..Len(rows) /\ Len(rows) \in Nat
    BY LenProperties
  <1>3. DOMAIN Append(rows, row) = 1..(Len(rows) + 1)
    BY <1>1, LenProperties
  <1> QED
    BY <1>1, <1>2, <1>3

\* Revoking rows changes nothing else: what they are and what they lead to
\* stays, and a ciphertext may only go.
LEMMA RevokeRows ==
    ASSUME NEW rows \in Seq(Token), NEW S
    PROVE  /\ Revoke(rows, S) \in Seq(Token)
           /\ DOMAIN Revoke(rows, S) = DOMAIN rows
           /\ \A t \in DOMAIN rows :
                /\ SameOrigin(rows[t], Revoke(rows, S)[t])
                /\ Revoke(rows, S)[t].replaced_by = rows[t].replaced_by
                /\ Revoke(rows, S)[t].used_at = rows[t].used_at
                /\ Revoke(rows, S)[t].ciphertext \in {Null, rows[t].ciphertext}
                /\ ~Revoke(rows, S)[t].revoked => ~rows[t].revoked
  <1>1. /\ DOMAIN rows = 1..Len(rows) /\ Len(rows) \in Nat
        /\ \A t \in DOMAIN rows : rows[t] \in Token
    BY ElementOfSeq, LenProperties
  <1>2. ASSUME NEW t \in DOMAIN rows
        PROVE  Revoke(rows, S)[t] \in Token
    BY <1>1 DEF Revoke, Token, Null
  <1>3. Revoke(rows, S) \in [1..Len(rows) -> Token]
    BY <1>1, <1>2 DEF Revoke
  <1>4. Revoke(rows, S) \in Seq(Token)
    BY <1>1, <1>3, SeqDef
  <1> QED
    BY <1>1, <1>4 DEF Revoke, Token, SameOrigin

\* Replacing a row changes its own rotation columns only.
LEMMA ReplaceRow ==
    ASSUME NEW rows \in Seq(Token), NEW old \in DOMAIN rows, NEW new \in Nat,
           now \in Nat
    PROVE  \E after \in Seq(Token) :
           /\ after = RevokeAndReplace(rows, old, new)
           /\ DOMAIN after = DOMAIN rows /\ Len(after) = Len(rows)
           /\ \A t \in DOMAIN rows : SameOrigin(rows[t], after[t])
           /\ \A t \in DOMAIN rows \ {old} : after[t] = rows[t]
           /\ after[old].revoked /\ after[old].replaced_by = new
           /\ after[old].used_at = now /\ after[old].ciphertext = new
  <1> DEFINE after == RevokeAndReplace(rows, old, new)
  <1>1. /\ DOMAIN rows = 1..Len(rows) /\ Len(rows) \in Nat
        /\ \A t \in DOMAIN rows : rows[t] \in Token
    BY ElementOfSeq, LenProperties
  <1>2. ASSUME NEW t \in DOMAIN rows
        PROVE  after[t] \in Token
    BY <1>1 DEF RevokeAndReplace, Token
  <1>3. DOMAIN after = DOMAIN rows
    BY DEF RevokeAndReplace
  <1>4. after \in [1..Len(rows) -> Token]
    BY <1>1, <1>2, <1>3 DEF RevokeAndReplace
  <1>5. after \in Seq(Token)
    BY <1>1, <1>4, SeqDef
  <1>6. Len(after) = Len(rows)
    BY <1>1, <1>3, <1>5, LenProperties
  <1> QED
    BY <1>1, <1>3, <1>5, <1>6 DEF RevokeAndReplace, Token, SameOrigin

-----------------------------------------------------------------------------
(* One request: what the invariant says of it, and when that lasts.        *)

AnswerInSession(r) == LET t == req[r].token  u == req[r].answer IN
    (req[r].op = "refresh" /\ u # Null) =>
        /\ u \in Ids /\ u > t
        /\ tokens[u].session = tokens[t].session
        /\ tokens[u].inspector = tokens[t].inspector
        /\ tokens[u].device = tokens[t].device
        /\ tokens[u].expires_at >= req[r].asOf

Advances(r) ==
    (req[r].pc = "recover" /\ req[r].link # Null) =>
        \A v \in req[r].visited : v < req[r].link

RequestInv(r) ==
    req[r] \in Request /\ RequestOK(r) /\ AnswerInSession(r) /\ Advances(r)

\* The invariant in two parts, the table and the requests.
TableInv ==
    /\ tokens \in Seq(Token) /\ password \in [Inspectors -> Nat]
    /\ now \in Nat /\ now >= 1 /\ known \subseteq Ids /\ serial \in BOOLEAN
    /\ RotationForest /\ RecoveryMaterial

\* The invariant is what the table satisfies and what every request satisfies.
LEMMA TwoParts ==
    IInv <=> /\ TableInv
             /\ req = [r \in Requests |-> req[r]]
             /\ \A r \in Requests : RequestInv(r)
  <1>1. AnswerStaysInSession <=> \A r \in Requests : AnswerInSession(r)
    BY Zenon DEF AnswerStaysInSession, AnswerInSession
  <1>2. RecoveryAdvances <=> \A r \in Requests : Advances(r)
    BY Zenon DEF RecoveryAdvances, Advances
  <1>3. req \in [Requests -> Request] <=>
            /\ req = [r \in Requests |-> req[r]]
            /\ \A r \in Requests : req[r] \in Request
    BY Zenon
  <1> QED
    BY <1>1, <1>2, <1>3, Zenon DEF IInv, TypeOK, TableInv, RequestInv

\* The same of the next state.
LEMMA TwoPartsNext ==
    (IInv <=> /\ TableInv
              /\ req = [r \in Requests |-> req[r]]
              /\ \A r \in Requests : RequestInv(r))'
  BY TwoParts, PTL

\* What every step does to the table as a request sees it: rows stay, and so
\* does what they are.
RowsStay ==
    /\ now' \in Nat /\ now' >= now
    /\ \A t \in Ids : t \in Ids' /\ SameOrigin(tokens[t], tokens'[t])

\* A step that revokes rows or appends some keeps what a request relies on.
LEMMA Undisturbed ==
    ASSUME TableInv, RowsStay, NEW q \in Requests, RequestInv(q),
           req'[q] = req[q]
    PROVE  RequestInv(q)'
  <1>1. req[q].asOf \in Nat /\ now \in Nat /\ req[q] \in Request
    BY DEF RequestInv, Request, TableInv
  <1>2. RequestOK(q)'
    BY <1>1 DEF RequestInv, RequestOK, RowsStay, SameOrigin
  <1>3. AnswerInSession(q)'
    <2> SUFFICES ASSUME req[q].op = "refresh", req[q].answer # Null
                 PROVE  /\ req[q].answer \in Ids'
                        /\ req[q].answer > req[q].token
                        /\ tokens'[req[q].answer].session
                               = tokens'[req[q].token].session
                        /\ tokens'[req[q].answer].inspector
                               = tokens'[req[q].token].inspector
                        /\ tokens'[req[q].answer].device
                               = tokens'[req[q].token].device
                        /\ tokens'[req[q].answer].expires_at >= req[q].asOf
      BY DEF AnswerInSession
    <2>1. req[q].token \in Ids /\ req[q].answer \in Ids
      BY DEF RequestInv, RequestOK, AnswerInSession
    <2> QED
      BY <2>1 DEF RequestInv, AnswerInSession, RowsStay, SameOrigin
  <1>4. Advances(q)'
    BY DEF RequestInv, Advances
  <1> QED
    BY <1>1, <1>2, <1>3, <1>4 DEF RequestInv

\* A slot with no request satisfies its part of the invariant.
LEMMA IdleInv ==
    ASSUME NEW q \in Requests, now' \in Nat, req'[q] = Idle
    PROVE  RequestInv(q)'
  BY DEF RequestInv, Idle, Request, RequestOK, AnswerInSession, Advances, Null,
         Operations, Steps, Results

OnlyChanges(r) ==
    /\ req' = [q \in Requests |-> req'[q]]
    /\ \A q \in Requests \ {r} : req'[q] = req[q]

\* A step of one request keeps the invariant if it keeps the rows, the table's
\* part, and this request's part: the other requests are undisturbed.
LEMMA OneRequest ==
    ASSUME IInv, NEW r \in Requests, OnlyChanges(r),
           RowsStay, TableInv', RequestInv(r)'
    PROVE  IInv'
  <1>1. TableInv /\ \A q \in Requests : RequestInv(q)
    BY TwoParts
  <1>2. req' = [q \in Requests |-> req'[q]]
    BY DEF OnlyChanges
  <1>3. ASSUME NEW q \in Requests
        PROVE  RequestInv(q)'
    <2>1. CASE q = r
      BY <2>1
    <2>2. CASE q # r
      <3>1. req'[q] = req[q]
        BY <2>2 DEF OnlyChanges
      <3> QED
        BY <1>1, <3>1, Undisturbed
    <2> QED
      BY <2>1, <2>2
  <1> QED
    BY <1>2, <1>3, TwoPartsNext

\* Steps that leave the table alone leave its part of the invariant alone.
LEMMA SameTable ==
    ASSUME TableInv, tokens' = tokens, now' = now, serial' = serial,
           password' \in [Inspectors -> Nat], known' \subseteq Ids
    PROVE  RowsStay /\ TableInv'
  <1>1. RotationForest'
    BY DEF TableInv, RotationForest, Ids
  <1>2. RecoveryMaterial'
    BY DEF TableInv, RecoveryMaterial, Ids, Live
  <1>3. Ids' = Ids
    BY DEF Ids
  <1> QED
    BY <1>1, <1>2, <1>3 DEF TableInv, RowsStay, SameOrigin

-----------------------------------------------------------------------------
(* The table's part of the invariant, statement by statement.              *)

\* create_refresh_token, alone
LEMMA InsertKeeps ==
    ASSUME TableInv, NEW i \in Inspectors, NEW d \in Devices,
           tokens' = Append(tokens, NewRow(i, d, Len(tokens) + 1)),
           UNCHANGED <<password, now, known, serial>>
    PROVE  RowsStay /\ TableInv' /\ Len(tokens) + 1 \in Ids'
  <1> DEFINE row == NewRow(i, d, Len(tokens) + 1)
             new == Len(tokens) + 1
  <1>1. tokens \in Seq(Token) /\ Len(tokens) \in Nat
    BY LenProperties DEF TableInv
  <1>2. row \in Token
    BY <1>1, LifetimeAssumption DEF NewRow, Token, TableInv, Null
  <1>3. /\ tokens' \in Seq(Token) /\ Ids' = Ids \cup {new}
        /\ \A t \in Ids : tokens'[t] = tokens[t]
        /\ tokens'[new] = row
        /\ \A t \in Ids : t \in Nat /\ 1 <= t /\ t <= Len(tokens)
    BY <1>1, <1>2, AppendRow DEF Ids
  <1>4. RowsStay
    BY <1>3 DEF RowsStay, SameOrigin, TableInv
  <1>5. row.replaced_by = Null /\ row.used_at = Null /\ row.ciphertext = Null
        /\ row.revoked = FALSE
    BY DEF NewRow
  <1>6. RotationForest'
    BY <1>1, <1>3, <1>5 DEF TableInv, RotationForest, Null
  <1>7. RecoveryMaterial'
    BY <1>1, <1>3, <1>5 DEF TableInv, RecoveryMaterial, Null, Live
  <1> QED
    BY <1>3, <1>4, <1>6, <1>7 DEF TableInv

\* create_refresh_token and revoke_and_replace, at the commit of a refresh:
\* no link leads to the new row yet, so overwriting one keeps the forest.
LEMMA RotateKeeps ==
    ASSUME TableInv, NEW old \in Ids, NEW i \in Inspectors, NEW d \in Devices,
           i = tokens[old].inspector, d = tokens[old].device,
           tokens' = Append(RevokeAndReplace(tokens, old, Len(tokens) + 1),
                            NewRow(i, d, tokens[old].session)),
           UNCHANGED <<password, now, known, serial>>
    PROVE  /\ RowsStay /\ TableInv'
           /\ Len(tokens) + 1 \in Ids' /\ Len(tokens) + 1 > old
           /\ tokens'[Len(tokens) + 1].session = tokens[old].session
           /\ tokens'[Len(tokens) + 1].inspector = tokens[old].inspector
           /\ tokens'[Len(tokens) + 1].device = tokens[old].device
           /\ tokens'[Len(tokens) + 1].expires_at = now + RefreshLifetime
  <1> DEFINE new == Len(tokens) + 1
             row == NewRow(i, d, tokens[old].session)
  <1>1. /\ tokens \in Seq(Token) /\ Len(tokens) \in Nat /\ now \in Nat
        /\ Ids = 1..Len(tokens) /\ tokens[old] \in Token
    BY LenProperties, ElementOfSeq DEF TableInv, Ids
  <1>2. row \in Token
    <2>1. tokens[old].session \in Nat
      BY <1>1 DEF Token
    <2>2. now + RefreshLifetime \in Nat
      BY <1>1, LifetimeAssumption
    <2> QED
      BY <2>1, <2>2 DEF NewRow, Token, Null
  <1>3. PICK mid \in Seq(Token) :
        /\ mid = RevokeAndReplace(tokens, old, new)
        /\ DOMAIN mid = Ids /\ Len(mid) = Len(tokens)
        /\ \A t \in Ids : SameOrigin(tokens[t], mid[t])
        /\ \A t \in Ids \ {old} : mid[t] = tokens[t]
        /\ mid[old].revoked /\ mid[old].replaced_by = new
        /\ mid[old].used_at = now /\ mid[old].ciphertext = new
    <2>1. old \in DOMAIN tokens /\ new \in Nat
      BY <1>1 DEF Ids
    <2>2. tokens \in Seq(Token) /\ now \in Nat
      BY <1>1
    <2> HIDE DEF new, row
    <2> QED
      BY <2>1, <2>2, ReplaceRow, Zenon DEF Ids
  <1>4. /\ tokens' \in Seq(Token) /\ Ids' = Ids \cup {new}
        /\ \A t \in Ids : tokens'[t] = mid[t]
        /\ tokens'[new] = row
    BY <1>1, <1>2, <1>3, AppendRow DEF Ids
  <1>5. RowsStay
    BY <1>1, <1>3, <1>4 DEF RowsStay, SameOrigin
  <1>6. /\ row.replaced_by = Null /\ row.used_at = Null /\ row.ciphertext = Null
        /\ row.revoked = FALSE /\ row.expires_at = now + RefreshLifetime
        /\ row.session = tokens[old].session
        /\ row.inspector = tokens[old].inspector
        /\ row.device = tokens[old].device
    BY DEF NewRow
  <1>7. RotationForest'
    <2> SUFFICES ASSUME NEW t \in Ids', tokens'[t].replaced_by # Null
                 PROVE  LET u == tokens'[t].replaced_by IN
                        /\ u \in Ids' /\ u > t
                        /\ tokens'[u].session = tokens'[t].session
                        /\ tokens'[u].inspector = tokens'[t].inspector
                        /\ tokens'[u].device = tokens'[t].device
                        /\ \A s \in Ids' \ {t} : tokens'[s].replaced_by # u
      BY DEF RotationForest
    <2>1. CASE t = old
      BY <1>1, <1>3, <1>4, <1>6, <2>1
         DEF TableInv, RotationForest, SameOrigin, Null
    <2>2. CASE t # old
      <3> DEFINE u == tokens[t].replaced_by
      <3>1. t \in Ids /\ tokens'[t] = tokens[t]
        BY <1>3, <1>4, <1>6, <2>2
      <3>2. /\ u \in Ids /\ u > t
            /\ tokens[u].session = tokens[t].session
            /\ tokens[u].inspector = tokens[t].inspector
            /\ tokens[u].device = tokens[t].device
            /\ \A s \in Ids \ {t} : tokens[s].replaced_by # u
        BY <3>1, Zenon DEF TableInv, RotationForest
      <3>5. u # new /\ u # Null
        BY <1>1, <3>2 DEF Null
      <3> HIDE DEF u, new, row
      <3>3. SameOrigin(tokens[u], tokens'[u])
        BY <1>3, <1>4, <3>2
      <3>4. ASSUME NEW s \in Ids' \ {t}
            PROVE  tokens'[s].replaced_by # u
        <4>1. CASE s = new
          BY <1>4, <1>6, <3>5, <4>1
        <4>2. CASE s = old
          BY <1>3, <1>4, <3>5, <4>2
        <4>3. CASE s \in Ids \ {t, old}
          <5>1. tokens'[s] = tokens[s]
            BY <1>3, <1>4, <4>3
          <5>2. tokens[s].replaced_by # u
            BY <3>2, <4>3
          <5> QED
            BY <5>1, <5>2
        <4> QED
          BY <1>4, <4>1, <4>2, <4>3
      <3>6. tokens'[t].replaced_by = u
        BY <3>1 DEF u
      <3> QED
        BY <1>4, <3>1, <3>2, <3>3, <3>4, <3>6 DEF SameOrigin
    <2> QED
      BY <2>1, <2>2
  <1>8. RecoveryMaterial'
    BY <1>1, <1>3, <1>4, <1>6 DEF TableInv, RecoveryMaterial, Null, Live
  <1>9. new \in Ids' /\ new > old /\ known' \subseteq Ids'
    BY <1>1, <1>4 DEF TableInv
  <1> QED
    BY <1>4, <1>5, <1>6, <1>7, <1>8, <1>9 DEF TableInv

\* revoke_token_chain, revoke_all_tokens_for_inspector, for any set of rows
LEMMA RevokeKeeps ==
    ASSUME TableInv, NEW S, tokens' = Revoke(tokens, S),
           UNCHANGED <<password, now, known, serial>>
    PROVE  RowsStay /\ TableInv'
  <1>1. /\ tokens' \in Seq(Token) /\ Ids' = Ids
        /\ \A t \in Ids :
              /\ SameOrigin(tokens[t], tokens'[t])
              /\ tokens'[t].replaced_by = tokens[t].replaced_by
              /\ tokens'[t].used_at = tokens[t].used_at
              /\ tokens'[t].ciphertext \in {Null, tokens[t].ciphertext}
              /\ ~tokens'[t].revoked => ~tokens[t].revoked
    BY RevokeRows DEF TableInv, Ids
  <1>2. RowsStay
    BY <1>1 DEF RowsStay, TableInv
  <1>3. RotationForest'
    BY <1>1 DEF TableInv, RotationForest, SameOrigin
  <1>4. RecoveryMaterial'
    BY <1>1 DEF TableInv, RecoveryMaterial, Live
  <1> QED
    BY <1>1, <1>2, <1>3, <1>4 DEF TableInv

-----------------------------------------------------------------------------
(* The actions.                                                            *)

SameOwner(t, u) ==
    /\ tokens'[u].session = tokens[t].session
    /\ tokens'[u].inspector = tokens[t].inspector
    /\ tokens'[u].device = tokens[t].device

\* The part of the invariant each request satisfies, as one fact to cite.
LEMMA Parts ==
    ASSUME IInv, NEW r \in Requests
    PROVE  /\ TableInv /\ RequestInv(r)
           /\ req = [q \in Requests |-> req[q]]
           /\ req[r] \in Request
           /\ tokens \in Seq(Token) /\ Len(tokens) \in Nat /\ now \in Nat
           /\ Ids = 1..Len(tokens) /\ now >= 1
           /\ \A t \in Ids : tokens[t] \in Token
  <1>1. TableInv /\ req = [q \in Requests |-> req[q]]
        /\ \A q \in Requests : RequestInv(q)
    BY TwoParts
  <1> QED
    BY <1>1, LenProperties, ElementOfSeq DEF TableInv, RequestInv, Ids

\* A request record stays one when it is answered, and when it starts.
LEMMA AnsweredType ==
    ASSUME NEW q \in Request, NEW answer \in Nat, NEW result \in Results
    PROVE  [q EXCEPT !.pc = "answered", !.result = result, !.answer = answer]
               \in Request
  BY DEF Request, Steps

\* A request record stays one when a request starts.
LEMMA StartedType ==
    ASSUME NEW op \in Operations, NEW pc \in Steps, NEW result \in Results,
           NEW i \in Inspectors, NEW d \in Devices, NEW h \in Nat
    PROVE  /\ Idle \in Request
           /\ [Idle EXCEPT !.op = op, !.inspector = i, !.device = d,
                           !.pc = pc, !.result = result] \in Request
           /\ [Idle EXCEPT !.op = op, !.inspector = i, !.device = d,
                           !.hash = h, !.pc = pc, !.result = result] \in Request
  <1>1. Idle \in Request
    BY DEF Request, Idle, Null, Operations, Steps, Results
  <1> QED
    BY <1>1 DEF Request

\* POST /auth/login, its reads, keeps the invariant.
LEMMA LoginReadKeeps ==
    ASSUME IInv, NEW r \in Requests, NEW i \in Inspectors, NEW d \in Devices,
           NEW given, LoginRead(r, i, d, given)
    PROVE  IInv'
  <1>1. RowsStay /\ TableInv'
    BY Parts, SameTable DEF LoginRead, TableInv
  <1>2. OnlyChanges(r)
    BY Parts DEF LoginRead, OnlyChanges
  <1>3. req'[r] = [Idle EXCEPT
            !.op = "login", !.inspector = i, !.device = d,
            !.pc = IF given = password[i] THEN "insert" ELSE "answered",
            !.result = IF given = password[i] THEN "none" ELSE "denied"]
    BY Parts DEF LoginRead
  <1>4. RequestInv(r)'
    <2>1. req'[r] \in Request
      <3> DEFINE pc == IF given = password[i] THEN "insert" ELSE "answered"
                 result == IF given = password[i] THEN "none" ELSE "denied"
      <3>1. pc \in Steps /\ result \in Results /\ "login" \in Operations
        BY DEF Steps, Results, Operations
      <3>2. req'[r] = [Idle EXCEPT !.op = "login", !.inspector = i,
                !.device = d, !.pc = pc, !.result = result]
        BY <1>3
      <3> HIDE DEF pc, result
      <3>3. [Idle EXCEPT !.op = "login", !.inspector = i,
                !.device = d, !.pc = pc, !.result = result] \in Request
        BY <1>3, <3>1, StartedType
      <3> QED
        BY <3>2, <3>3
    <2>2. /\ req'[r].op # "refresh" /\ req'[r].answer = Null
          /\ req'[r].asOf = 0 /\ req'[r].inspector = i /\ req'[r].device = d
          /\ req'[r].pc \in {"insert", "update", "answered"}
      BY <1>3 DEF Idle, Null
    <2>3. RequestOK(r)'
      BY <1>1, <2>2 DEF RequestOK, RowsStay
    <2> QED
      BY <2>1, <2>2, <2>3 DEF RequestInv, AnswerInSession, Advances
  <1> QED
    BY <1>1, <1>2, <1>4, OneRequest

\* POST /auth/change-password, its reads, keeps the invariant.
LEMMA PasswordReadKeeps ==
    ASSUME IInv, NEW r \in Requests, NEW i \in Inspectors, NEW d \in Devices,
           NEW given, PasswordRead(r, i, d, given)
    PROVE  IInv'
  <1>1. RowsStay /\ TableInv'
    BY Parts, SameTable DEF PasswordRead, TableInv
  <1>2. OnlyChanges(r)
    BY Parts DEF PasswordRead, OnlyChanges
  <1>3. /\ password[i] \in Nat
        /\ req'[r] = [Idle EXCEPT
            !.op = "change", !.inspector = i, !.device = d,
            !.hash = password[i],
            !.pc = IF given = password[i] THEN "update" ELSE "answered",
            !.result = IF given = password[i] THEN "none" ELSE "denied"]
    BY Parts DEF PasswordRead, TableInv
  <1>4. RequestInv(r)'
    <2>1. req'[r] \in Request
      <3> DEFINE pc == IF given = password[i] THEN "update" ELSE "answered"
                 result == IF given = password[i] THEN "none" ELSE "denied"
      <3>1. pc \in Steps /\ result \in Results /\ "change" \in Operations
        BY DEF Steps, Results, Operations
      <3>2. req'[r] = [Idle EXCEPT !.op = "change", !.inspector = i,
                !.device = d, !.hash = password[i], !.pc = pc, !.result = result]
        BY <1>3
      <3> HIDE DEF pc, result
      <3>3. [Idle EXCEPT !.op = "change", !.inspector = i,
                !.device = d, !.hash = password[i], !.pc = pc, !.result = result] \in Request
        BY <1>3, <3>1, StartedType
      <3> QED
        BY <3>2, <3>3
    <2>2. /\ req'[r].op # "refresh" /\ req'[r].answer = Null
          /\ req'[r].asOf = 0 /\ req'[r].inspector = i /\ req'[r].device = d
          /\ req'[r].pc \in {"insert", "update", "answered"}
      BY <1>3 DEF Idle, Null
    <2>3. RequestOK(r)'
      BY <1>1, <2>2 DEF RequestOK, RowsStay
    <2> QED
      BY <2>1, <2>2, <2>3 DEF RequestInv, AnswerInSession, Advances
  <1> QED
    BY <1>1, <1>2, <1>4, OneRequest

\* Answering a request: what the token in the answer has to be.
LEMMA AnsweredKeeps ==
    ASSUME IInv, NEW r \in Requests, NEW result \in Results, NEW x \in Nat,
           Answered(r, result, x), RowsStay, TableInv',
           x # Null => x \in Ids',
           (x # Null /\ req[r].op = "refresh") =>
               /\ x > req[r].token
               /\ SameOwner(req[r].token, x)
               /\ tokens'[x].expires_at >= req[r].asOf
    PROVE  IInv'
  <1> USE Parts
  <1>1. OnlyChanges(r)
    BY DEF Answered, OnlyChanges
  <1>2. req'[r] = [req[r] EXCEPT !.pc = "answered", !.result = result,
                                 !.answer = x]
    BY DEF Answered
  <1>3. [req[r] EXCEPT !.pc = "answered", !.result = result,
                       !.answer = x] \in Request
    BY AnsweredType
  <1>4. req'[r] \in Request
    BY <1>2, <1>3
  <1>5. /\ req'[r].pc = "answered" /\ req'[r].answer = x
        /\ req'[r].op = req[r].op /\ req'[r].asOf = req[r].asOf
        /\ req'[r].token = req[r].token /\ req'[r].visited = req[r].visited
        /\ req'[r].inspector = req[r].inspector
        /\ req'[r].device = req[r].device
        /\ req'[r].link = req[r].link /\ req'[r].cipher = req[r].cipher
    BY <1>2 DEF Request
  <1>6. RequestOK(r) /\ req[r].asOf \in Nat
    BY DEF RequestInv, Request
  <1>7. RequestOK(r)'
    BY <1>5, <1>6 DEF RequestOK, RowsStay, SameOrigin
  <1>8. AnswerInSession(r)'
    BY <1>5, <1>6 DEF RequestOK, AnswerInSession, SameOwner, RowsStay, SameOrigin
  <1>9. RequestInv(r)'
    BY <1>4, <1>5, <1>7, <1>8 DEF RequestInv, Advances
  <1> QED
    BY <1>1, <1>9, OneRequest

\* create_refresh_token of login and change_password keeps the invariant.
LEMMA InsertTokenKeeps ==
    ASSUME IInv, NEW r \in Requests, InsertToken(r)
    PROVE  IInv'
  <1>1. req[r].inspector \in Inspectors /\ req[r].device \in Devices
        /\ req[r].op # "refresh"
    BY Parts DEF InsertToken, RequestInv, RequestOK
  <1>2. RowsStay /\ TableInv' /\ Len(tokens) + 1 \in Ids'
    BY <1>1, Parts, InsertKeeps DEF InsertToken
  <1>3. "issued" \in Results /\ Len(tokens) + 1 \in Nat
    BY Parts DEF Results
  <1>4. Answered(r, "issued", Len(tokens) + 1)
    BY DEF InsertToken
  <1> QED
    BY <1>1, <1>2, <1>3, <1>4, AnsweredKeeps

\* A rotation keeps the invariant, also one that overwrites another.
LEMMA RefreshRotateKeeps ==
    ASSUME IInv, NEW r \in Requests, RefreshRotate(r)
    PROVE  IInv'
  <1> DEFINE old == req[r].token
             new == Len(tokens) + 1
  <1>1. /\ req[r].op = "refresh" /\ old \in Ids
        /\ req[r].inspector = tokens[old].inspector
        /\ req[r].device = tokens[old].device
        /\ req[r].asOf <= now /\ req[r].asOf \in Nat
    BY Parts DEF RefreshRotate, RequestInv, RequestOK, Request
  <1>2. tokens[old].inspector \in Inspectors /\ tokens[old].device \in Devices
    BY <1>1, Parts DEF Token
  <1>3. /\ tokens' = Append(RevokeAndReplace(tokens, old, new),
                            NewRow(req[r].inspector, req[r].device,
                                   tokens[old].session))
        /\ Answered(r, "issued", new)
        /\ UNCHANGED <<password, now, known, serial>>
    BY DEF RefreshRotate
  <1>4. /\ RowsStay /\ TableInv' /\ new \in Ids' /\ new > old
        /\ SameOwner(old, new)
        /\ tokens'[new].expires_at = now + RefreshLifetime
    BY <1>1, <1>2, <1>3, Parts, RotateKeeps DEF SameOwner
  <1>5. "issued" \in Results /\ new \in Nat
    BY Parts DEF Results
  <1>6. tokens'[new].expires_at >= req[r].asOf
    BY <1>1, <1>4, Parts, LifetimeAssumption
  <1> HIDE DEF old, new
  <1> QED
    BY <1>3, <1>4, <1>5, <1>6, AnsweredKeeps DEF old

\* Revoking the chain of a reused token keeps the invariant.
LEMMA RevokeChainKeeps ==
    ASSUME IInv, NEW r \in Requests, RevokeChain(r)
    PROVE  IInv'
  <1>1. RowsStay /\ TableInv'
    BY Parts, RevokeKeeps DEF RevokeChain
  <1>2. Answered(r, "reused", Null) /\ "reused" \in Results /\ Null \in Nat
    BY DEF RevokeChain, Results, Null
  <1> QED
    BY <1>1, <1>2, AnsweredKeeps

\* Steps that only move a request on, and choose rows.
LEMMA MovedKeeps ==
    ASSUME IInv, NEW r \in Requests, NEW p \in Steps, NEW c \in SUBSET Nat,
           \/ req' = [req EXCEPT ![r].pc = p, ![r].chosen = c]
           \/ req' = [req EXCEPT ![r].pc = p],
           \/ p = "revokeChain" /\ req[r].pc = "reuse"
           \/ /\ p \in {"revokeAll", "revokeChosen", "insert"}
              /\ req[r].pc \in {"update", "revokeAll", "revokeChosen"},
           RowsStay, TableInv'
    PROVE  IInv'
  <1> USE Parts
  <1>1. OnlyChanges(r)
    BY DEF OnlyChanges
  <1>2. \/ req'[r] = [req[r] EXCEPT !.pc = p, !.chosen = c]
        \/ req'[r] = [req[r] EXCEPT !.pc = p]
    OBVIOUS
  <1>3. /\ [req[r] EXCEPT !.pc = p, !.chosen = c] \in Request
        /\ [req[r] EXCEPT !.pc = p] \in Request
    BY DEF Request
  <1>4. req'[r] \in Request
    BY <1>2, <1>3
  <1>5. /\ req'[r].pc = p /\ req'[r].answer = req[r].answer
        /\ req'[r].op = req[r].op /\ req'[r].asOf = req[r].asOf
        /\ req'[r].token = req[r].token /\ req'[r].visited = req[r].visited
        /\ req'[r].inspector = req[r].inspector
        /\ req'[r].device = req[r].device
        /\ req'[r].link = req[r].link /\ req'[r].cipher = req[r].cipher
    BY <1>2 DEF Request
  <1>6. /\ RequestOK(r) /\ AnswerInSession(r) /\ req[r].asOf \in Nat
        /\ p # "recover"
    BY DEF RequestInv, Request
  <1>7. RequestOK(r)'
    BY <1>5, <1>6 DEF RequestOK, RowsStay, SameOrigin
  <1>8. AnswerInSession(r)'
    BY <1>5, <1>6 DEF RequestOK, AnswerInSession, RowsStay, SameOrigin
  <1>9. RequestInv(r)'
    BY <1>4, <1>5, <1>6, <1>7, <1>8 DEF RequestInv, Advances
  <1> QED
    BY <1>1, <1>9, OneRequest

\* Choosing the rows of a chain keeps the invariant.
LEMMA ReuseDetectedKeeps ==
    ASSUME IInv, NEW r \in Requests, ReuseDetected(r)
    PROVE  IInv'
  <1>1. RowsStay /\ TableInv'
    BY Parts, SameTable DEF ReuseDetected, TableInv
  <1>2. Chain(req[r].token) \in SUBSET Nat
    BY Parts DEF Chain, Forward
  <1> QED
    BY <1>1, <1>2, MovedKeeps DEF ReuseDetected, Steps

\* Choosing all rows of an inspector keeps the invariant.
LEMMA RevokeAllKeeps ==
    ASSUME IInv, NEW r \in Requests, RevokeAll(r)
    PROVE  IInv'
  <1>1. RowsStay /\ TableInv'
    BY Parts, SameTable DEF RevokeAll, TableInv
  <1>2. {t \in Ids : tokens[t].inspector = req[r].inspector} \in SUBSET Nat
    BY Parts
  <1> QED
    BY <1>1, <1>2, MovedKeeps DEF RevokeAll, Steps

\* Revoking the rows chosen by a password change keeps the invariant.
LEMMA RevokeChosenKeeps ==
    ASSUME IInv, NEW r \in Requests, RevokeChosen(r)
    PROVE  IInv'
  <1>1. RowsStay /\ TableInv'
    BY Parts, RevokeKeeps DEF RevokeChosen
  <1> QED
    BY <1>1, {} \in SUBSET Nat, MovedKeeps DEF RevokeChosen, Steps

\* update_password keeps the invariant, whether it matches or not.
LEMMA PasswordUpdateKeeps ==
    ASSUME IInv, NEW r \in Requests, PasswordUpdate(r)
    PROVE  IInv'
  <1>1. password' \in [Inspectors -> Nat]
    BY Parts DEF PasswordUpdate, TableInv
  <1>2. RowsStay /\ TableInv'
    BY <1>1, Parts, SameTable DEF PasswordUpdate, TableInv
  <1>3. CASE Answered(r, "denied", Null)
    <2>1. "denied" \in Results /\ Null \in Nat
      BY DEF Results, Null
    <2> QED
      BY <1>2, <1>3, <2>1, AnsweredKeeps
  <1>4. CASE req' = [req EXCEPT ![r].pc = "revokeAll"]
    BY <1>2, <1>4, MovedKeeps DEF PasswordUpdate, Steps
  <1> QED
    BY <1>3, <1>4 DEF PasswordUpdate

\* A response, received or lost, keeps the invariant.
LEMMA RespondKeeps ==
    ASSUME IInv, NEW r \in Requests, Respond(r)
    PROVE  IInv'
  <1>1. known' \subseteq Ids
    BY Parts DEF Respond, TableInv, RequestInv, RequestOK
  <1>2. RowsStay /\ TableInv'
    BY <1>1, Parts, SameTable DEF Respond, TableInv
  <1>3. OnlyChanges(r) /\ req'[r] = Idle
    BY Parts DEF Respond, OnlyChanges
  <1> QED
    BY <1>2, <1>3, IdleInv, OneRequest DEF RowsStay

\* A request that dies between two statements keeps the invariant.
LEMMA CrashKeeps ==
    ASSUME IInv, NEW r \in Requests, Crash(r)
    PROVE  IInv'
  <1>1. RowsStay /\ TableInv'
    BY Parts, SameTable DEF Crash, TableInv
  <1>2. OnlyChanges(r) /\ req'[r] = Idle
    BY Parts DEF Crash, OnlyChanges
  <1> QED
    BY <1>1, <1>2, IdleInv, OneRequest DEF RowsStay

\* The passing of time keeps the invariant.
LEMMA TickKeeps ==
    ASSUME IInv, Tick
    PROVE  IInv'
  <1>1. TableInv /\ req = [q \in Requests |-> req[q]]
        /\ \A q \in Requests : RequestInv(q)
    BY TwoParts
  <1>2. Ids' = Ids
    BY DEF Tick, Ids
  <1>3. RowsStay
    BY <1>1, <1>2 DEF Tick, RowsStay, SameOrigin, TableInv
  <1>4. RotationForest' /\ RecoveryMaterial'
    BY <1>1, <1>2 DEF Tick, TableInv, RotationForest, RecoveryMaterial, Live
  <1>5. TableInv'
    BY <1>1, <1>2, <1>3, <1>4 DEF Tick, TableInv, RowsStay
  <1>6. ASSUME NEW q \in Requests
        PROVE  RequestInv(q)'
    BY <1>1, <1>3, Undisturbed DEF Tick
  <1> QED
    BY <1>1, <1>5, <1>6, TwoPartsNext DEF Tick

\* The read of a refresh, in each of its four branches, keeps the invariant.
LEMMA RefreshReadKeeps ==
    ASSUME IInv, NEW r \in Requests, NEW t \in Ids, RefreshRead(r, t)
    PROVE  IInv'
  <1> DEFINE row == tokens[t]
             pc == NextStep(t)
             result == IF NextStep(t) = "answered" THEN "denied" ELSE "none"
             q == [Idle EXCEPT
                     !.op = "refresh", !.pc = pc, !.inspector = row.inspector,
                     !.device = row.device, !.token = t, !.asOf = now,
                     !.visited = {t}, !.link = row.replaced_by,
                     !.cipher = row.ciphertext, !.result = result]
  <1>1. RowsStay /\ TableInv'
    BY Parts, SameTable DEF RefreshRead, TableInv
  <1>2. OnlyChanges(r)
    BY Parts DEF RefreshRead, OnlyChanges
  <1>3. req'[r] = q
    BY Parts DEF RefreshRead
  <1>4. /\ pc \in {"answered", "rotate", "recover", "reuse"} /\ pc \in Steps
        /\ result \in Results
    BY DEF NextStep, Steps, Results
  <1>5. row \in Token /\ t \in Nat /\ now \in Nat
    BY Parts
  <1>6. /\ row.ciphertext \in {Null, row.replaced_by}
        /\ row.replaced_by # Null =>
              /\ row.replaced_by \in Ids /\ row.replaced_by > t
              /\ tokens[row.replaced_by].session = row.session
    <2>1. RotationForest /\ RecoveryMaterial
      BY Parts DEF TableInv
    <2> QED
      BY <2>1, Zenon DEF RotationForest, RecoveryMaterial
  <1> HIDE DEF pc, result
  <1>7. q \in Request
    <2>1. Idle \in Request
      BY DEF Request, Idle, Null, Operations, Steps, Results
    <2>2. /\ row.inspector \in Inspectors /\ row.device \in Devices
          /\ row.replaced_by \in Nat /\ row.ciphertext \in Nat
      BY <1>5 DEF Token
    <2> HIDE DEF row
    <2> QED
      BY <1>4, <1>5, <2>1, <2>2 DEF Request, Operations
  <1>8. /\ q.op = "refresh" /\ q.pc = pc /\ q.inspector = row.inspector
        /\ q.device = row.device /\ q.token = t /\ q.asOf = now
        /\ q.visited = {t} /\ q.link = row.replaced_by
        /\ q.cipher = row.ciphertext /\ q.answer = Null
    BY DEF Idle
  <1> HIDE DEF q
  <1>9. tokens' = tokens /\ now' = now /\ Ids' = Ids
    BY DEF RefreshRead, Ids
  <1>10. RequestOK(r)'
    BY <1>3, <1>4, <1>5, <1>6, <1>8, <1>9 DEF RequestOK
  <1>11. AnswerInSession(r)' /\ Advances(r)'
    BY <1>3, <1>6, <1>8, <1>9 DEF AnswerInSession, Advances
  <1> QED
    BY <1>1, <1>2, <1>3, <1>7, <1>10, <1>11, OneRequest DEF RequestInv

\* A turn of the loop of _recover_refresh keeps the invariant.
LEMMA RecoverHopKeeps ==
    ASSUME IInv, NEW r \in Requests, RecoverHop(r)
    PROVE  IInv'
  <1> DEFINE t == req[r].cipher
  <1>1. RowsStay /\ TableInv'
    BY Parts, SameTable DEF RecoverHop, TableInv
  <1>2. /\ req[r].op = "refresh" /\ req[r].pc = "recover"
        /\ req[r].token \in Ids /\ req[r].token \in req[r].visited
        /\ req[r].inspector = tokens[req[r].token].inspector
        /\ req[r].device = tokens[req[r].token].device
        /\ t \in {Null, req[r].link}
        /\ req[r].link # Null =>
              /\ req[r].link \in Ids
              /\ tokens[req[r].link].session = tokens[req[r].token].session
              /\ \A v \in req[r].visited : v < req[r].link
    BY Parts DEF RecoverHop, RequestInv, RequestOK, Advances
  <1>3. ASSUME NEW result \in Results, Answered(r, result, Null)
        PROVE  IInv'
    BY <1>1, <1>3, Null \in Nat, AnsweredKeeps DEF Null
  <1>4. CASE req[r].link = Null \/ t = Null
    BY <1>3, <1>4 DEF RecoverHop, Results
  <1>5. CASE ~Usable(r, t) /\ Answered(r, "denied", Null)
    BY <1>3, <1>5 DEF Results
  <1>6. CASE Answered(r, "unreadable", Null)
    BY <1>3, <1>6 DEF Results
  <1>7. CASE /\ req[r].link # Null /\ t # Null
             /\ Usable(r, t) /\ Live(t) /\ Answered(r, "recovered", t)
    <2>1. t \in Ids /\ t \in Nat /\ "recovered" \in Results
      BY <1>2, <1>7, Parts DEF Results
    <2>2. tokens' = tokens /\ Ids' = Ids
      BY DEF RecoverHop, Ids
    <2>3. SameOwner(req[r].token, t) /\ t > req[r].token
      BY <1>2, <1>7, <2>2 DEF SameOwner, Usable
    <2>4. tokens[t].expires_at \in Nat /\ req[r].asOf \in Nat
      BY <2>1, Parts DEF Token, Request
    <2>5. tokens'[t].expires_at >= req[r].asOf
      BY <1>7, <2>2, <2>4 DEF Usable
    <2> HIDE DEF t
    <2> QED
      BY <1>1, <1>7, <2>1, <2>2, <2>3, <2>5, AnsweredKeeps
  <1>8. CASE /\ req[r].link # Null /\ t # Null /\ Usable(r, t)
             /\ req' = [req EXCEPT ![r].visited = @ \cup {t},
                                   ![r].link = tokens[t].replaced_by,
                                   ![r].cipher = tokens[t].ciphertext]
    <2> DEFINE row == tokens[t]
               q == [req[r] EXCEPT !.visited = @ \cup {t},
                                   !.link = row.replaced_by,
                                   !.cipher = row.ciphertext]
    <2>1. t \in Ids /\ t = req[r].link /\ t \in Nat /\ row \in Token
      BY <1>2, <1>8, Parts
    <2>2. OnlyChanges(r) /\ req'[r] = q
      BY <1>8, Parts DEF OnlyChanges
    <2>3. /\ row.ciphertext \in {Null, row.replaced_by}
          /\ row.replaced_by # Null =>
                /\ row.replaced_by \in Ids /\ row.replaced_by > t
                /\ tokens[row.replaced_by].session = row.session
      <3>1. RotationForest /\ RecoveryMaterial
        BY Parts DEF TableInv
      <3> QED
        BY <2>1, <3>1, Zenon DEF RotationForest, RecoveryMaterial
    <2>4. row.replaced_by \in Nat /\ row.ciphertext \in Nat
      BY <2>1 DEF Token
    <2>5. q \in Request
      BY <2>1, <2>4, Parts DEF Request
    <2>6. /\ q.op = req[r].op /\ q.pc = req[r].pc /\ q.token = req[r].token
          /\ q.inspector = req[r].inspector /\ q.device = req[r].device
          /\ q.asOf = req[r].asOf /\ q.answer = req[r].answer
          /\ q.visited = req[r].visited \cup {t}
          /\ q.link = row.replaced_by /\ q.cipher = row.ciphertext
      BY Parts DEF Request
    <2>7. /\ tokens' = tokens /\ now' = now /\ Ids' = Ids
          /\ req[r].visited \in SUBSET Nat
          /\ RequestOK(r) /\ AnswerInSession(r)
      BY Parts DEF RecoverHop, Ids, Request, RequestInv
    <2> HIDE DEF q
    <2>8. row.replaced_by # Null =>
              tokens[row.replaced_by].session = tokens[req[r].token].session
      BY <1>2, <1>8, <2>1, <2>3
    <2>9. \A v \in req[r].visited \cup {t} : row.replaced_by # Null =>
              v < row.replaced_by
      <3> SUFFICES ASSUME NEW v \in req[r].visited \cup {t},
                          row.replaced_by # Null
                   PROVE  v < row.replaced_by
        OBVIOUS
      <3>1. v \in Nat /\ v <= t
        BY <1>2, <1>8, <2>1, <2>7
      <3> QED
        BY <2>1, <2>3, <2>4, <3>1
    <2> HIDE DEF row, t
    <2>10. RequestOK(r)'
      <3>1. /\ req'[r].op = "refresh" /\ req'[r].pc = "recover"
            /\ req'[r].token = req[r].token /\ req'[r].asOf = req[r].asOf
            /\ req'[r].inspector = req[r].inspector
            /\ req'[r].device = req[r].device
            /\ req'[r].answer = req[r].answer
            /\ req'[r].visited = req[r].visited \cup {t}
            /\ req'[r].link = row.replaced_by
            /\ req'[r].cipher = row.ciphertext
        BY <1>2, <2>2, <2>6
      <3>2. req[r].asOf <= now /\ (req[r].answer # Null => req[r].answer \in Ids)
        BY <2>7 DEF RequestOK
      <3> QED
        BY <1>2, <2>3, <2>7, <2>8, <3>1, <3>2 DEF RequestOK
    <2>11. AnswerInSession(r)'
      BY <2>2, <2>6, <2>7 DEF AnswerInSession
    <2>12. Advances(r)'
      BY <2>2, <2>6, <2>9 DEF Advances
    <2> QED
      BY <1>1, <2>2, <2>5, <2>10, <2>11, <2>12, OneRequest DEF RequestInv
  <1> QED
    BY <1>4, <1>5, <1>6, <1>7, <1>8 DEF RecoverHop

-----------------------------------------------------------------------------
\* The empty table satisfies the invariant.
LEMMA InitHolds == Init => IInv
  <1> SUFFICES ASSUME Init PROVE IInv
    OBVIOUS
  <1>1. Ids = {} /\ tokens \in Seq(Token)
    BY EmptySeq DEF Init, Ids
  <1>2. Idle \in Request
    BY DEF Request, Idle, Null, Operations, Steps, Results
  <1>3. TypeOK /\ now >= 1
    BY <1>1, <1>2 DEF Init, TypeOK
  <1>4. RotationForest /\ RecoveryMaterial
    BY <1>1 DEF RotationForest, RecoveryMaterial
  <1>5. ASSUME NEW r \in Requests
        PROVE  /\ req[r].op = "login" /\ req[r].pc = "idle"
               /\ req[r].answer = Null /\ req[r].asOf = 0
    BY DEF Init, Idle, Null
  <1>6. AnswerStaysInSession /\ RecoveryAdvances
    BY <1>5 DEF AnswerStaysInSession, RecoveryAdvances
  <1>7. \A r \in Requests : RequestOK(r)
    BY <1>3, <1>5 DEF RequestOK, TypeOK
  <1> QED
    BY <1>3, <1>4, <1>6, <1>7 DEF IInv

\* Every step keeps the invariant.
LEMMA NextKeeps == IInv /\ [Next]_vars => IInv'
  <1> SUFFICES ASSUME IInv, [Next]_vars PROVE IInv'
    OBVIOUS
  <1>1. ASSUME NEW r \in Requests, Send(r)
        PROVE  IInv'
    <2>1. known \subseteq Ids
      BY TwoParts DEF TableInv
    <2> QED
      BY <1>1, <2>1, LoginReadKeeps, PasswordReadKeeps, RefreshReadKeeps
         DEF Send
  <1>2. ASSUME NEW r \in Requests, Serve(r)
        PROVE  IInv'
    BY <1>2, InsertTokenKeeps, RefreshRotateKeeps, RecoverHopKeeps,
       ReuseDetectedKeeps, RevokeChainKeeps, PasswordUpdateKeeps,
       RevokeAllKeeps, RevokeChosenKeeps, RespondKeeps DEF Serve
  <1>3. CASE UNCHANGED vars
    <2>1. Ids' = Ids
      BY <1>3 DEF vars, Ids
    <2> QED
      BY <1>3, <2>1 DEF vars, IInv, TypeOK, RotationForest, RecoveryMaterial,
         AnswerStaysInSession, RecoveryAdvances, RequestOK, Live
  <1> QED
    BY <1>1, <1>2, <1>3, TickKeeps, CrashKeeps DEF Next

\* The invariant holds in every reachable state.
THEOREM Invariant == Spec => []IInv
  BY InitHolds, NextKeeps, PTL DEF Spec

\* Every variable keeps its type, with any number of requests in flight.
THEOREM TypeCorrect == Spec => []TypeOK
  <1>1. IInv => TypeOK
    BY DEF IInv
  <1> QED
    BY <1>1, Invariant, PTL

\* However refreshes race, links form a forest of ever younger tokens inside
\* one session: revoke_token_chain's two walks end and agree on the root.
THEOREM LinksFormForest == Spec => []RotationForest
  <1>1. IInv => RotationForest
    BY DEF IInv
  <1> QED
    BY <1>1, Invariant, PTL

\* What recovery reads of a row is consistent however UPDATEs interleave.
THEOREM MaterialConsistent == Spec => []RecoveryMaterial
  <1>1. IInv => RecoveryMaterial
    BY DEF IInv
  <1> QED
    BY <1>1, Invariant, PTL

\* Recovery never turns back: _recover_refresh's "in visited" check is never
\* what stops it, and it makes at most as many hops as there are tokens.
THEOREM RecoveryGoesForward == Spec => []RecoveryAdvances
  <1>1. IInv => RecoveryAdvances
    BY DEF IInv
  <1> QED
    BY <1>1, Invariant, PTL

\* No interleaving answers a refresh with another session's token, another
\* inspector's or device's, or the token that was presented.
THEOREM AnswersStayInSession == Spec => []AnswerStaysInSession
  <1>1. IInv => AnswerStaysInSession
    BY DEF IInv
  <1> QED
    BY <1>1, Invariant, PTL
=============================================================================
