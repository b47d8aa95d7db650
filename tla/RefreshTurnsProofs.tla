------------------------- MODULE RefreshTurnsProofs -------------------------
(***************************************************************************)
(* What TLAPS proves of RefreshTokens while clients take turns: sessions   *)
(* have one live token, retries keep them, reuse and password changes end  *)
(* them.  Turns are about the requests of one session only; requests of    *)
(* other sessions, lost answers, crashes and the clock interleave freely.  *)
(***************************************************************************)
EXTENDS RefreshTokensProofs, FiniteSetTheorems, WellFoundedInduction

\* The tokens of an inspector
Of(i) == {t \in Ids : tokens[t].inspector = i}

\* A session is named after its first token and belongs to one inspector and
\* one device, and younger tokens expire later.
Origins ==
    \A t \in Ids :
        /\ tokens[t].session \in Ids /\ tokens[t].session <= t
        /\ tokens[tokens[t].session].inspector = tokens[t].inspector
        /\ tokens[tokens[t].session].device = tokens[t].device
        /\ tokens[t].expires_at <= now + RefreshLifetime
        /\ \A u \in Ids : t < u => tokens[t].expires_at <= tokens[u].expires_at

\* Which steps which requests come to
Stages(r) ==
    /\ req[r].pc \in {"update", "revokeAll", "revokeChosen"} =>
           req[r].op = "change"
    /\ req[r].answer # Null \/ req[r].result # "none" => req[r].pc = "answered"
    /\ req[r].result = "reused" => req[r].op = "refresh"

\* What "serial" asks of two requests in flight
Apart(r, q) ==
    (Busy(r) /\ Busy(q) /\ req[r].inspector = req[q].inspector) =>
        /\ req[r].op # "change" /\ req[q].op # "change"
        /\ (req[r].op = "refresh" /\ req[q].op = "refresh") =>
               tokens[req[r].token].session # tokens[req[q].token].session
Turns == \A r, q \in Requests : r # q => Apart(r, q)

\* A session is one chain, with at most one live token; and if a token of it
\* has nothing to recover although it is revoked, no token of it is live.
Chained ==
    \A t \in Ids : tokens[t].session # t =>
        \E p \in Ids : tokens[p].replaced_by = t
OneLive ==
    \A t, u \in Ids :
        (tokens[t].session = tokens[u].session /\ Live(t) /\ Live(u)) => t = u
Spent ==
    \A t, u \in Ids :
        (tokens[t].session = tokens[u].session /\ ~Live(t)
            /\ tokens[t].ciphertext = Null) => ~Live(u)
Sessions == Chained /\ OneLive /\ Spent

\* The rows a refresh or a password change is about
Foot(r) == IF req[r].op = "refresh" THEN InSession(req[r].token)
           ELSE Of(req[r].inspector)

\* What a request has made sure of about them
Secured(r) ==
    LET q == req[r] IN
    /\ q.pc = "rotate" => Live(q.token)
    /\ q.pc \in {"revokeChain", "revokeChosen"} => q.chosen = Foot(r)
    /\ q.pc = "recover" =>
           /\ tokens[q.token].expires_at > q.asOf
           /\ \E w \in Foot(r) : /\ ~Live(w) /\ q.link = tokens[w].replaced_by
                                 /\ q.cipher = tokens[w].ciphertext
    /\ (q.pc = "insert" /\ q.op = "change") => \A u \in Foot(r) : ~Live(u)
    /\ (q.op = "change" /\ q.answer # Null) =>
           /\ q.answer \in Foot(r) /\ Live(q.answer)
           /\ \A u \in Foot(r) : Live(u) => u = q.answer
    /\ q.op = "refresh" =>
           /\ q.result \in {"issued", "recovered"} =>
                  q.answer \in Foot(r) /\ Live(q.answer)
           /\ q.result = "denied" =>
                  \/ tokens[q.token].expires_at <= now
                  \/ \A u \in Foot(r) : Live(u) => tokens[u].expires_at <= now
           /\ q.result = "reused" => \A u \in Foot(r) : ~Live(u)

InTurn == Turns /\ Sessions /\ \A r \in Requests : Secured(r)

\* The invariant with turns, on top of IInv
TurnInv ==
    /\ Origins
    /\ \A r \in Requests : Stages(r)
    /\ serial => InTurn

-----------------------------------------------------------------------------
(* The two CTEs of revoke_token_chain find the session.                    *)

\* A nonempty set of natural numbers has a least member.
LEMMA LeastMember ==
    ASSUME NEW S \in SUBSET Nat, S # {}
    PROVE  \E m \in S : \A x \in S : m <= x
  <1> DEFINE R == StrictSubsetOrdering(Nat)
             F == FiniteSubsetsOf(Nat)
             T == {0..x : x \in S}
  <1>1. IsWellFoundedOn(R, F)
    BY FS_StrictSubsetOrderingWellFounded
  <1>2. T \subseteq F
    <2>1. ASSUME NEW x \in S PROVE 0..x \in F
      <3>1. IsFiniteSet(0..x)
        BY FS_Interval
      <3> QED
        BY <3>1 DEF FiniteSubsetsOf
    <2> QED
      BY <2>1
  <1>3. T # {}
    OBVIOUS
  <1>4. PICK t \in T : \A u \in T : ~ (<<u, t>> \in R)
    <2> HIDE DEF R, F, T
    <2> QED
      BY <1>1, <1>2, <1>3, WFMin
  <1>5. PICK m \in S : t = 0..m
    BY <1>4
  <1>6. ASSUME NEW x \in S, x < m PROVE FALSE
    <2>1. 0..x \subseteq 0..m /\ 0..x # 0..m
      <3>1. m \in 0..m /\ m \notin 0..x
        BY <1>6
      <3> QED
        BY <3>1, <1>6
    <2>2. <<0..x, 0..m>> \in R
      <3>1. 0..x \in SUBSET Nat /\ 0..m \in SUBSET Nat
        OBVIOUS
      <3> QED
        BY <2>1, <3>1 DEF StrictSubsetOrdering
    <2> QED
      BY <1>4, <1>5, <2>2
  <1> QED
    BY <1>6

\* The ids are positive numbers, and a link leads to a younger token of the
\* session and the owner of the token it replaces.
LEMMA Linked ==
    ASSUME TableInv
    PROVE  /\ Ids \in SUBSET Nat /\ Null \notin Ids /\ Ids = 1..Len(tokens)
           /\ Len(tokens) \in Nat
           /\ \A t \in Ids : tokens[t] \in Token
           /\ \A p \in Ids : \A u \in Ids : tokens[p].replaced_by = u =>
                  /\ p < u /\ tokens[u].session = tokens[p].session
                  /\ tokens[u].inspector = tokens[p].inspector
                  /\ tokens[u].device = tokens[p].device
           /\ \A p \in Ids : tokens[p].replaced_by \in Ids \cup {Null}
  <1>1. /\ Ids = 1..Len(tokens) /\ Len(tokens) \in Nat
        /\ \A t \in Ids : tokens[t] \in Token
    BY LenProperties, ElementOfSeq DEF TableInv, Ids
  <1> QED
    BY <1>1 DEF TableInv, RotationForest, Null

\* Going back from a token of a session that is one chain, the first CTE comes
\* to the token the session is named after.
LEMMA RootNamesSession ==
    ASSUME TableInv, Origins, Chained, NEW t \in Ids
    PROVE  /\ Root(t) = tokens[t].session
           /\ Root(t) \in Ids /\ tokens[Root(t)].session = Root(t)
  <1> USE Linked
  <1>1. \A v \in InSession(t) : Predecessors(v) \subseteq InSession(t)
    BY DEF InSession, Predecessors
  <1>2. t \in InSession(t) /\ InSession(t) \in SUBSET Ids
    BY DEF InSession
  <1>3. Back(t) \subseteq InSession(t)
    BY <1>1, <1>2 DEF Back
  <1>4. t \in Back(t)
    BY DEF Back
  <1>5. ASSUME NEW v \in Back(t), NEW p \in Predecessors(v)
        PROVE  p \in Back(t)
    <2>1. p \in Ids
      BY DEF Predecessors
    <2>2. ASSUME NEW S \in SUBSET Ids, t \in S,
                 \A x \in S : Predecessors(x) \subseteq S
          PROVE  p \in S
      <3>1. v \in S
        BY <2>2 DEF Back
      <3> QED
        BY <2>2, <3>1
    <2> QED
      BY <2>1, <2>2 DEF Back
  <1>6. \E u \in Back(t) : Predecessors(u) = {}
    <2>1. Back(t) \in SUBSET Nat /\ Back(t) # {}
      BY <1>4 DEF Back
    <2>2. PICK m \in Back(t) : \A x \in Back(t) : m <= x
      BY <2>1, LeastMember
    <2>3. ASSUME NEW p \in Predecessors(m)
          PROVE  FALSE
      <3>1. p \in Back(t) /\ m <= p
        BY <1>5, <2>2
      <3>2. p \in Ids /\ m \in Ids /\ tokens[p].replaced_by = m
        BY <2>2 DEF Predecessors, Back
      <3>3. p < m /\ p \in Nat /\ m \in Nat
        BY <3>2
      <3> QED
        BY <3>1, <3>3
    <2> QED
      BY <2>3
  <1>7. Root(t) \in Back(t) /\ Predecessors(Root(t)) = {}
    BY <1>6 DEF Root
  <1>8. Root(t) \in Ids /\ tokens[Root(t)].session = tokens[t].session
    BY <1>3, <1>7 DEF InSession
  <1> QED
    BY <1>7, <1>8 DEF Chained, Predecessors

\* What revoke_token_chain revokes is the session of the token it is given.
LEMMA ChainIsSession ==
    ASSUME TableInv, Origins, Chained, NEW t \in Ids
    PROVE  Chain(t) = InSession(t)
  <1> DEFINE s == tokens[t].session
  <1>1. Chain(t) = Forward(s)
    BY RootNamesSession DEF Chain
  <1>2. s \in Ids /\ tokens[s].session = s
    BY RootNamesSession, Zenon
  <1> USE Linked
  <1>3. Forward(s) \subseteq InSession(t)
    <2>1. s \in InSession(t) /\ InSession(t) \in SUBSET Ids
      BY <1>2 DEF InSession
    <2>2. \A v \in InSession(t) :
              tokens[v].replaced_by \in InSession(t) \cup {Null}
      BY DEF InSession
    <2> QED
      BY <2>1, <2>2 DEF Forward
  <1>4. ASSUME NEW S \in SUBSET Ids, s \in S,
               \A v \in S : tokens[v].replaced_by \in S \cup {Null}
        PROVE  InSession(t) \subseteq S
    <2> DEFINE Rest == InSession(t) \ S
    <2>1. SUFFICES ASSUME Rest # {} PROVE FALSE
      OBVIOUS
    <2>2. Rest \in SUBSET Nat
      BY DEF InSession
    <2>3. PICK m \in Rest : \A x \in Rest : m <= x
      <3> HIDE DEF Rest
      <3> QED
        BY <2>1, <2>2, LeastMember
    <2>4. m \in Ids /\ m \notin S /\ tokens[m].session = s /\ m # s
      BY <1>4 DEF InSession
    <2>5. PICK p \in Ids : tokens[p].replaced_by = m
      BY <2>4 DEF Chained
    <2>6. p < m /\ tokens[p].session = s
      BY <2>4, <2>5
    <2>7. p \in S
      <3>1. p \in InSession(t)
        BY <2>5, <2>6 DEF InSession
      <3>2. p \in Nat /\ m \in Nat
        BY <2>4, <2>5
      <3> QED
        BY <2>3, <2>6, <3>1, <3>2
    <2> QED
      BY <1>4, <2>4, <2>5, <2>7
  <1>5. InSession(t) \subseteq Forward(s)
    <2>1. InSession(t) \in SUBSET Ids
      BY DEF InSession
    <2> HIDE DEF s
    <2> QED
      BY <1>4, <2>1 DEF Forward
  <1>6. Forward(s) = InSession(t)
    <2>1. \A A, B : A \subseteq B /\ B \subseteq A => A = B
      OBVIOUS
    <2> QED
      BY <1>3, <1>5, <2>1, Zenon
  <1> QED
    BY <1>1, <1>6, Zenon

-----------------------------------------------------------------------------
(* The table after a statement, row by row.                                *)

New == Len(tokens) + 1

\* The row a statement has inserted
Inserted(i, d, s) ==
    /\ Ids' = Ids \cup {New} /\ New \notin Ids /\ \A t \in Ids : t < New
    /\ tokens'[New].inspector = i /\ tokens'[New].device = d
    /\ tokens'[New].session = s
    /\ tokens'[New].expires_at = now + RefreshLifetime
    /\ ~tokens'[New].revoked /\ tokens'[New].replaced_by = Null

\* What an INSERT alone does to the table
LEMMA InsertRows ==
    ASSUME TableInv, NEW i \in Inspectors, NEW d \in Devices,
           tokens' = Append(tokens, NewRow(i, d, New))
    PROVE  Inserted(i, d, New) /\ \A t \in Ids : tokens'[t] = tokens[t]
  <1>1. /\ tokens \in Seq(Token) /\ Len(tokens) \in Nat /\ now \in Nat
        /\ Ids = 1..Len(tokens)
    BY Linked DEF TableInv
  <1>2. NewRow(i, d, New) \in Token
    BY <1>1, LifetimeAssumption DEF NewRow, Token, Null, New
  <1>3. /\ Ids' = Ids \cup {New}
        /\ \A t \in Ids : tokens'[t] = tokens[t]
        /\ tokens'[New] = NewRow(i, d, New)
    BY <1>1, <1>2, AppendRow DEF Ids, New
  <1>4. New \notin Ids /\ \A t \in Ids : t < New
    BY <1>1 DEF New
  <1> DEFINE row == NewRow(i, d, New)
  <1>5. /\ row.inspector = i /\ row.device = d /\ row.session = New
        /\ row.expires_at = now + RefreshLifetime
        /\ row.revoked = FALSE /\ row.replaced_by = Null
    BY DEF NewRow
  <1> HIDE DEF row
  <1> QED
    BY <1>3, <1>4, <1>5 DEF Inserted, row

\* What a rotation does to the table
LEMMA RotateRows ==
    ASSUME TableInv, NEW old \in Ids, NEW i \in Inspectors, NEW d \in Devices,
           tokens' = Append(RevokeAndReplace(tokens, old, New),
                            NewRow(i, d, tokens[old].session))
    PROVE  /\ Inserted(i, d, tokens[old].session)
           /\ \A t \in Ids \ {old} : tokens'[t] = tokens[t]
           /\ tokens'[old].revoked /\ tokens'[old].replaced_by = New
           /\ tokens'[old].ciphertext = New
           /\ SameOrigin(tokens[old], tokens'[old])
  <1> DEFINE row == NewRow(i, d, tokens[old].session)
  <1>1. /\ tokens \in Seq(Token) /\ Len(tokens) \in Nat /\ now \in Nat
        /\ Ids = 1..Len(tokens) /\ tokens[old] \in Token
    BY Linked DEF TableInv
  <1>2. row \in Token
    <2>1. tokens[old].session \in Nat
      BY <1>1 DEF Token
    <2>2. now + RefreshLifetime \in Nat
      BY <1>1, LifetimeAssumption
    <2> QED
      BY <2>1, <2>2 DEF NewRow, Token, Null
  <1>3. PICK mid \in Seq(Token) :
        /\ mid = RevokeAndReplace(tokens, old, New)
        /\ DOMAIN mid = Ids /\ Len(mid) = Len(tokens)
        /\ \A t \in Ids : SameOrigin(tokens[t], mid[t])
        /\ \A t \in Ids \ {old} : mid[t] = tokens[t]
        /\ mid[old].revoked /\ mid[old].replaced_by = New
        /\ mid[old].used_at = now /\ mid[old].ciphertext = New
    <2>1. old \in DOMAIN tokens /\ New \in Nat
      BY <1>1 DEF Ids, New
    <2>2. tokens \in Seq(Token) /\ now \in Nat
      BY <1>1
    <2> HIDE DEF row
    <2> QED
      BY <2>1, <2>2, ReplaceRow, Zenon DEF Ids
  <1>4. /\ Ids' = Ids \cup {New}
        /\ \A t \in Ids : tokens'[t] = mid[t]
        /\ tokens'[New] = row
    BY <1>1, <1>2, <1>3, AppendRow DEF Ids, New
  <1>5. New \notin Ids /\ \A t \in Ids : t < New
    BY <1>1 DEF New
  <1>6. /\ row.inspector = i /\ row.device = d
        /\ row.session = tokens[old].session
        /\ row.expires_at = now + RefreshLifetime
        /\ row.revoked = FALSE /\ row.replaced_by = Null
    BY DEF NewRow
  <1> HIDE DEF row
  <1>7. Inserted(i, d, tokens[old].session)
    BY <1>4, <1>5, <1>6 DEF Inserted
  <1> QED
    BY <1>3, <1>4, <1>7

-----------------------------------------------------------------------------
(* Origins.                                                                *)

\* Steps that insert nothing keep where tokens come from.
LEMMA OriginsStay ==
    ASSUME TableInv, Origins, RowsStay, Ids' = Ids
    PROVE  Origins'
  <1> USE Linked, LifetimeAssumption
  <1>1. now \in Nat
    BY DEF TableInv
  <1> SUFFICES ASSUME NEW t \in Ids
               PROVE  /\ tokens'[t].session \in Ids /\ tokens'[t].session <= t
                      /\ tokens'[tokens'[t].session].inspector
                             = tokens'[t].inspector
                      /\ tokens'[tokens'[t].session].device
                             = tokens'[t].device
                      /\ tokens'[t].expires_at <= now' + RefreshLifetime
                      /\ \A u \in Ids : t < u =>
                             tokens'[t].expires_at <= tokens'[u].expires_at
    BY DEF Origins
  <1>2. SameOrigin(tokens[t], tokens'[t])
        /\ SameOrigin(tokens[tokens[t].session], tokens'[tokens[t].session])
    BY DEF Origins, RowsStay
  <1>3. tokens[t].expires_at \in Nat
    BY DEF Token
  <1>4. \A u \in Ids : tokens'[u].expires_at = tokens[u].expires_at
    BY DEF RowsStay, SameOrigin
  <1> QED
    BY <1>1, <1>2, <1>3, <1>4 DEF Origins, RowsStay, SameOrigin

\* So does an inserted row that starts a session or joins its owner's.
LEMMA OriginsGrow ==
    ASSUME TableInv, Origins, RowsStay, now' = now, NEW i, NEW d, NEW s,
           Inserted(i, d, s),
           s = New \/ \E p \in Ids : s = tokens[p].session
                          /\ i = tokens[p].inspector /\ d = tokens[p].device
    PROVE  Origins'
  <1> USE Linked, LifetimeAssumption DEF Inserted
  <1>1. now \in Nat
    BY DEF TableInv
  <1>2. \A t \in Ids :
            /\ t \in Ids' /\ tokens'[t].session = tokens[t].session
            /\ tokens'[t].inspector = tokens[t].inspector
            /\ tokens'[t].device = tokens[t].device
            /\ tokens'[t].expires_at = tokens[t].expires_at
            /\ tokens[t].expires_at \in Nat
    BY DEF RowsStay, SameOrigin, Token
  <1>3. ASSUME NEW t \in Ids
        PROVE  /\ tokens'[t].session \in Ids' /\ tokens'[t].session <= t
               /\ tokens'[tokens'[t].session].inspector = tokens'[t].inspector
               /\ tokens'[tokens'[t].session].device = tokens'[t].device
               /\ tokens'[t].expires_at <= now' + RefreshLifetime
               /\ \A u \in Ids' : t < u =>
                      tokens'[t].expires_at <= tokens'[u].expires_at
    BY <1>2 DEF Origins
  <1>4. /\ tokens'[New].session \in Ids' /\ tokens'[New].session <= New
        /\ tokens'[tokens'[New].session].inspector = tokens'[New].inspector
        /\ tokens'[tokens'[New].session].device = tokens'[New].device
    <2>1. CASE s = New
      BY <2>1 DEF New
    <2>2. CASE \E p \in Ids : s = tokens[p].session
                   /\ i = tokens[p].inspector /\ d = tokens[p].device
      BY <1>2, <2>2 DEF Origins, New
    <2> QED
      BY <2>1, <2>2
  <1>5. /\ tokens'[New].expires_at <= now' + RefreshLifetime
        /\ \A u \in Ids' : New < u =>
               tokens'[New].expires_at <= tokens'[u].expires_at
    BY <1>1 DEF New
  <1> QED
    BY <1>3, <1>4, <1>5 DEF Origins

-----------------------------------------------------------------------------
(* What a request has made sure of, while another one takes a step.        *)

\* A step leaves the rows a request is about as they are.
Kept(q) == Foot(q)' = Foot(q) /\ \A t \in Foot(q) : tokens'[t] = tokens[t]

\* The rows a request writes are its inspector's, and of the session of the
\* token it was given, or of a session that it starts.
Writes(r) ==
    \A t \in Ids' :
        \/ t \in Ids /\ tokens'[t] = tokens[t]
        \/ /\ tokens'[t].inspector = req[r].inspector
           /\ req[r].op = "refresh" =>
                  tokens'[t].session = tokens[req[r].token].session
           /\ req[r].op = "login" => tokens'[t].session \notin Ids

\* A login, and a slot with no request, have made sure of nothing.
LEMMA NothingSecured ==
    ASSUME NEW q \in Requests, RequestOK(q), Stages(q),
           ~Busy(q) \/ req[q].op = "login"
    PROVE  Secured(q)
  BY DEF RequestOK, Stages, Secured, Busy

\* The same of the next state.
LEMMA NothingSecuredNext ==
    ASSUME NEW q \in Requests, RequestOK(q)', Stages(q)',
           req'[q].pc = "idle" \/ req'[q].op = "login"
    PROVE  Secured(q)'
  BY DEF RequestOK, Stages, Secured

\* The rows a request is about are in the table.
LEMMA FootRows ==
    ASSUME NEW q \in Requests, RequestOK(q)
    PROVE  /\ Foot(q) \subseteq Ids
           /\ req[q].op = "refresh" => req[q].token \in Foot(q)
  BY DEF Foot, InSession, Of, RequestOK

\* What a request has made sure of lasts while its rows do.
LEMMA SecuredLasts ==
    ASSUME TableInv, NEW q \in Requests, RequestOK(q), Secured(q), Kept(q),
           req'[q] = req[q], now' >= now, now' \in Nat
    PROVE  Secured(q)'
  <1> DEFINE k == req[q]
  <1>1. /\ now \in Nat /\ Foot(q) \subseteq Ids
        /\ \A t \in Ids : tokens[t].expires_at \in Nat
    BY Linked, FootRows DEF TableInv, Token
  <1>2. /\ Foot(q)' = Foot(q)
        /\ \A t \in Foot(q) : /\ tokens'[t] = tokens[t]
                              /\ Live(t)' <=> Live(t)
    BY DEF Kept, Live
  <1>3. k.op = "refresh" => k.token \in Foot(q)
    BY FootRows
  <1>4. k.pc \in {"rotate", "recover"} => k.op = "refresh"
    BY DEF RequestOK
  <1>5. k.pc = "rotate" => Live(k.token)'
    BY <1>2, <1>3, <1>4 DEF Secured
  <1>6. k.pc = "recover" =>
           /\ tokens'[k.token].expires_at > k.asOf
           /\ \E w \in Foot(q) : /\ ~Live(w)' /\ k.link = tokens'[w].replaced_by
                                 /\ k.cipher = tokens'[w].ciphertext
    BY <1>2, <1>3, <1>4 DEF Secured
  <1>7. (k.pc = "insert" /\ k.op = "change") => \A u \in Foot(q) : ~Live(u)'
    BY <1>2 DEF Secured
  <1>8. (k.op = "change" /\ k.answer # Null) =>
           /\ k.answer \in Foot(q) /\ Live(k.answer)'
           /\ \A u \in Foot(q) : Live(u)' => u = k.answer
    BY <1>2 DEF Secured
  <1>9. k.op = "refresh" =>
           /\ k.result \in {"issued", "recovered"} =>
                  k.answer \in Foot(q) /\ Live(k.answer)'
           /\ k.result = "denied" =>
                  \/ tokens'[k.token].expires_at <= now'
                  \/ \A u \in Foot(q) : Live(u)' => tokens'[u].expires_at <= now'
           /\ k.result = "reused" => \A u \in Foot(q) : ~Live(u)'
    <2>1. \A t \in Foot(q) : tokens[t].expires_at <= now =>
              tokens'[t].expires_at <= now'
      BY <1>1, <1>2
    <2> QED
      BY <1>2, <1>3, <2>1 DEF Secured
  <1>10. k.pc \in {"revokeChain", "revokeChosen"} => k.chosen = Foot(q)
    BY DEF Secured
  <1> QED
    BY <1>2, <1>5, <1>6, <1>7, <1>8, <1>9, <1>10 DEF Secured

\* Two requests that take turns are about different rows.
LEMMA Elsewhere ==
    ASSUME TableInv, RowsStay, Origins, Origins', Turns,
           NEW r \in Requests, NEW q \in Requests \ {r},
           RequestOK(r), RequestOK(q), Busy(r), Busy(q), req[q].op # "login",
           req[r] \in Request, req[q] \in Request,
           Writes(r), req'[q] = req[q]
    PROVE  Kept(q)
  <1> DEFINE touched == {t \in Ids' : ~(t \in Ids /\ tokens'[t] = tokens[t])}
  <1>1. Apart(r, q) /\ req[r].op \in Operations /\ req[q].op \in Operations
    BY DEF Turns, Request
  <1>2. \A t \in Ids : t \in Ids' /\ tokens'[t].session = tokens[t].session
                       /\ tokens'[t].inspector = tokens[t].inspector
    BY DEF RowsStay, SameOrigin
  <1>3. \A t \in touched :
            /\ tokens'[t].inspector = req[r].inspector
            /\ req[r].op = "refresh" =>
                   tokens'[t].session = tokens[req[r].token].session
            /\ req[r].op = "login" => tokens'[t].session \notin Ids
    BY DEF Writes
  <1>4. CASE req[q].op = "refresh"
    <2> DEFINE s == tokens[req[q].token].session
    <2>1. /\ req[q].token \in Ids /\ s \in Ids
          /\ tokens[s].inspector = req[q].inspector
      BY <1>4 DEF RequestOK, Origins
    <2>2. ASSUME NEW t \in touched, tokens'[t].session = s
          PROVE  FALSE
      <3>1. tokens'[t].inspector = req[q].inspector
        BY <1>2, <2>1, <2>2 DEF Origins
      <3>2. req[r].inspector = req[q].inspector
        BY <1>3, <3>1
      <3>3. /\ req[r].op # "change"
            /\ req[r].op = "refresh" => tokens[req[r].token].session # s
        BY <1>1, <1>4, <3>2 DEF Apart
      <3> QED
        BY <1>1, <1>3, <2>1, <2>2, <3>3 DEF Operations
    <2>3. /\ Foot(q)' = {u \in Ids' : tokens'[u].session = s}
          /\ Foot(q) = {u \in Ids : tokens[u].session = s}
      BY <1>2, <1>4, <2>1 DEF Foot, InSession
    <2> HIDE DEF s
    <2> QED
      BY <1>2, <2>2, <2>3 DEF Kept
  <1>5. CASE req[q].op = "change"
    <2>1. ASSUME NEW t \in touched, tokens'[t].inspector = req[q].inspector
          PROVE  FALSE
      BY <1>1, <1>3, <1>5, <2>1 DEF Apart
    <2>2. /\ Foot(q)' = {u \in Ids' : tokens'[u].inspector = req[q].inspector}
          /\ Foot(q) = {u \in Ids : tokens[u].inspector = req[q].inspector}
      BY <1>5 DEF Foot, Of
    <2> QED
      BY <1>2, <2>1, <2>2 DEF Kept
  <1> QED
    BY <1>1, <1>4, <1>5 DEF Operations

-----------------------------------------------------------------------------
(* Turns.                                                                  *)

\* How a step moves a request: it ends, goes on, or starts in its turn.
Ends(r) == req'[r].pc = "idle"
GoesOn(r) ==
    /\ Busy(r)
    /\ req'[r].op = req[r].op /\ req'[r].inspector = req[r].inspector
    /\ req'[r].token = req[r].token
Starts(r) ==
    /\ tokens' = tokens
    /\ Alone(r, req'[r].op, req'[r].inspector, req'[r].token)

\* Requests keep taking turns.
LEMMA TurnsKept ==
    ASSUME Turns, serial, RowsStay, NEW r \in Requests, OnlyChanges(r),
           \A q \in Requests : RequestOK(q),
           Ends(r) \/ GoesOn(r) \/ Starts(r)
    PROVE  Turns'
  <1>1. ASSUME NEW q \in Requests, NEW p \in Requests, q # r, p # r, q # p
        PROVE  Apart(q, p)'
    <2>1. Apart(q, p) /\ req'[q] = req[q] /\ req'[p] = req[p]
      BY <1>1 DEF Turns, OnlyChanges
    <2> QED
      BY <2>1 DEF Apart, Busy, RequestOK, RowsStay, SameOrigin
  <1>2. ASSUME NEW q \in Requests, q # r
        PROVE  Apart(r, q)' /\ Apart(q, r)'
    <2>1. /\ Apart(r, q) /\ Apart(q, r) /\ req'[q] = req[q]
          /\ RequestOK(q) /\ RequestOK(r)
      BY <1>2 DEF Turns, OnlyChanges
    <2>2. CASE Ends(r)
      BY <2>2 DEF Ends, Apart, Busy
    <2>3. CASE GoesOn(r)
      BY <2>1, <2>3 DEF GoesOn, Apart, Busy, RequestOK, RowsStay, SameOrigin
    <2>4. CASE Starts(r)
      BY <1>2, <2>1, <2>4 DEF Starts, Alone, Apart, Busy
    <2> QED
      BY <2>2, <2>3, <2>4
  <1> QED
    BY <1>1, <1>2 DEF Turns

-----------------------------------------------------------------------------
(* Sessions.                                                               *)

\* A row that starts a session changes no other.
LEMMA SessionsStart ==
    ASSUME TableInv, Origins, Sessions, NEW i, NEW d, Inserted(i, d, New),
           \A t \in Ids : tokens'[t] = tokens[t]
    PROVE  Sessions'
  <1> USE Linked DEF Inserted
  <1>1. \A t \in Ids : tokens'[t].session # New /\ tokens'[t] = tokens[t]
    BY DEF Origins
  <1>2. Chained'
    BY <1>1 DEF Sessions, Chained
  <1>3. OneLive'
    BY <1>1 DEF Sessions, OneLive, Live
  <1>4. Spent'
    BY <1>1 DEF Sessions, Spent, Live
  <1> QED
    BY <1>2, <1>3, <1>4 DEF Sessions

\* Rotating a live token hands its session over.
LEMMA SessionsRotate ==
    ASSUME TableInv, Origins, Sessions, NEW i, NEW d, NEW old \in Ids,
           Live(old), Inserted(i, d, tokens[old].session), RowsStay,
           \A t \in Ids \ {old} : tokens'[t] = tokens[t],
           tokens'[old].revoked, tokens'[old].replaced_by = New,
           tokens'[old].ciphertext = New
    PROVE  Sessions'
  <1> USE Linked DEF Inserted
  <1> DEFINE s == tokens[old].session
  <1>1. /\ tokens[old].replaced_by = Null /\ New # Null
        /\ \A t \in Ids : tokens'[t].session = tokens[t].session
    BY DEF TableInv, RecoveryMaterial, RowsStay, SameOrigin, New, Null
  <1>2. \A t \in Ids \ {old} : tokens[t].session = s => ~Live(t)
    BY DEF Sessions, OneLive
  <1>3. \A t \in Ids \ {old} : tokens[t].session = s =>
            tokens[t].ciphertext # Null
    BY <1>2 DEF Sessions, Spent
  <1>4. Chained'
    <2> SUFFICES ASSUME NEW t \in Ids', tokens'[t].session # t
                 PROVE  \E p \in Ids' : tokens'[p].replaced_by = t
      BY DEF Chained
    <2>1. CASE t = New
      BY <2>1
    <2>2. CASE t \in Ids
      <3>1. PICK p \in Ids : tokens[p].replaced_by = t
        BY <1>1, <2>2 DEF Sessions, Chained
      <3>2. p # old
        BY <1>1, <2>2, <3>1
      <3> QED
        BY <3>1, <3>2
    <2> QED
      BY <2>1, <2>2
  <1>5. OneLive'
    <2>1. \A t \in Ids : tokens'[t].session = s => ~Live(t)'
      BY <1>1, <1>2 DEF Live
    <2>2. \A t \in Ids : tokens'[t].session # s => tokens'[t] = tokens[t]
      BY <1>1
    <2> HIDE DEF s
    <2> SUFFICES ASSUME NEW t \in Ids', NEW u \in Ids', Live(t)', Live(u)',
                        tokens'[t].session = tokens'[u].session
                 PROVE  t = u
      BY DEF OneLive
    <2>3. CASE tokens'[t].session = s
      BY <2>1, <2>3
    <2>4. CASE tokens'[t].session # s
      BY <2>2, <2>4 DEF Sessions, OneLive, Live, s
    <2> QED
      BY <2>3, <2>4
  <1>6. Spent'
    <2> SUFFICES ASSUME NEW t \in Ids', NEW u \in Ids', ~Live(t)', Live(u)',
                        tokens'[t].session = tokens'[u].session,
                        tokens'[t].ciphertext = Null
                 PROVE  FALSE
      BY DEF Spent
    <2>1. t \in Ids /\ t # old /\ tokens'[t] = tokens[t]
      BY <1>1 DEF Live
    <2>2. tokens[t].session # s
      BY <1>3, <2>1
    <2>3. u \in Ids /\ u # old /\ tokens'[u] = tokens[u]
      BY <1>1, <2>1, <2>2
    <2> QED
      BY <2>1, <2>3 DEF Sessions, Spent, Live
  <1> QED
    BY <1>4, <1>5, <1>6 DEF Sessions

\* Revoking whole sessions leaves none of their tokens live.
LEMMA SessionsRevoke ==
    ASSUME TableInv, Sessions, NEW S, tokens' = Revoke(tokens, S),
           \A t, u \in Ids : t \in S /\ tokens[u].session = tokens[t].session
               => u \in S
    PROVE  Sessions' /\ \A t \in S \cap Ids : ~Live(t)'
  <1>1. /\ Ids' = Ids
        /\ \A t \in Ids :
              /\ tokens'[t].session = tokens[t].session
              /\ tokens'[t].replaced_by = tokens[t].replaced_by
              /\ Live(t)' => Live(t)
    BY RevokeRows DEF TableInv, Ids, SameOrigin, Live
  <1>2. \A t \in Ids \ S : tokens'[t] = tokens[t]
    BY DEF Revoke, Ids
  <1>3. \A t \in S \cap Ids : ~Live(t)'
    BY Linked DEF Revoke, Ids, Live, Token
  <1>4. Chained' /\ OneLive'
    BY <1>1 DEF Sessions, Chained, OneLive
  <1>5. Spent'
    BY <1>1, <1>2, <1>3 DEF Sessions, Spent, Live
  <1> QED
    BY <1>3, <1>4, <1>5 DEF Sessions

-----------------------------------------------------------------------------
(* One step of one request, and what is left to show for it.               *)

\* What IInv and TurnInv say of every request, as facts to cite
LEMMA TurnParts ==
    ASSUME IInv, TurnInv
    PROVE  /\ TableInv /\ Origins /\ now \in Nat
           /\ \A q \in Requests : /\ RequestOK(q) /\ Stages(q) /\ Advances(q)
                                  /\ req[q] \in Request
           /\ serial => /\ Turns /\ Sessions
                        /\ \A q \in Requests : Secured(q)
  BY TwoParts DEF TurnInv, InTurn, RequestInv, TableInv

\* A step of one request keeps the invariant if it keeps origins and sessions,
\* writes only rows of its own, and makes sure of what it has to.
LEMMA OneTurn ==
    ASSUME IInv, IInv', TurnInv, NEW r \in Requests, OnlyChanges(r), RowsStay,
           serial' = serial, Origins', Stages(r)',
           serial => /\ tokens' = tokens \/ (Busy(r) /\ Writes(r))
                     /\ Ends(r) \/ GoesOn(r) \/ Starts(r)
                     /\ Sessions' /\ Secured(r)'
    PROVE  TurnInv'
  <1> USE TurnParts
  <1>1. ASSUME NEW q \in Requests, q # r
        PROVE  Stages(q)' /\ RequestOK(q)'
    <2>1. RequestOK(q)'
      BY DEF IInv
    <2>2. Stages(q)'
      BY <1>1 DEF OnlyChanges, Stages
    <2> QED
      BY <2>1, <2>2
  <1>2. ASSUME serial
        PROVE  InTurn'
    <2>1. Turns'
      BY <1>2, TurnsKept
    <2>2. ASSUME NEW q \in Requests, q # r
          PROVE  Secured(q)'
      <3>1. req'[q] = req[q] /\ now' >= now /\ now' \in Nat
        BY <2>2 DEF OnlyChanges, RowsStay
      <3>2. CASE ~Busy(q) \/ req[q].op = "login"
        BY <1>1, <2>2, <3>1, <3>2, NothingSecuredNext DEF Busy
      <3>3. CASE Busy(q) /\ req[q].op # "login"
        <4>1. CASE tokens' = tokens
          <5>1. Foot(q)' = Foot(q)
            BY <3>1, <4>1 DEF Foot, InSession, Of, Ids
          <5>2. Kept(q)
            BY <4>1, <5>1 DEF Kept
          <5> QED
            BY <1>2, <3>1, <5>2, SecuredLasts
        <4>2. CASE Busy(r) /\ Writes(r)
          <5>1. Kept(q)
            BY <1>2, <2>2, <3>1, <3>3, <4>2, Elsewhere
          <5> QED
            BY <1>2, <3>1, <5>1, SecuredLasts
        <4> QED
          BY <1>2, <4>1, <4>2
      <3> QED
        BY <3>2, <3>3
    <2>3. \A q \in Requests : Secured(q)'
      BY <1>2, <2>2
    <2> QED
      BY <1>2, <2>1, <2>3 DEF InTurn
  <1>3. \A q \in Requests : Stages(q)'
    BY <1>1
  <1> QED
    BY <1>2, <1>3 DEF TurnInv

\* The same for a step that leaves the table alone.
LEMMA QuietTurn ==
    ASSUME IInv, IInv', TurnInv, NEW r \in Requests, OnlyChanges(r),
           UNCHANGED <<tokens, now, serial>>, Stages(r)',
           serial => /\ Ends(r) \/ GoesOn(r) \/ Starts(r)
                     /\ Secured(r)'
    PROVE  TurnInv'
  <1>1. RowsStay /\ Ids' = Ids
    BY TurnParts DEF RowsStay, SameOrigin, Ids
  <1>2. Origins'
    BY <1>1, TurnParts, OriginsStay
  <1>3. serial => Sessions'
    BY <1>1, TurnParts DEF Sessions, Chained, OneLive, Spent, Live
  <1> QED
    BY <1>1, <1>2, <1>3, OneTurn

-----------------------------------------------------------------------------
(* The actions.                                                            *)

\* A login that starts has made sure of nothing yet.
LEMMA LoginReadTurn ==
    ASSUME IInv, IInv', TurnInv, NEW r \in Requests, NEW i \in Inspectors,
           NEW d \in Devices, NEW given, LoginRead(r, i, d, given)
    PROVE  TurnInv'
  <1>1. OnlyChanges(r)
    BY Parts DEF LoginRead, OnlyChanges
  <1>2. req'[r] = [Idle EXCEPT
            !.op = "login", !.inspector = i, !.device = d,
            !.pc = IF given = password[i] THEN "insert" ELSE "answered",
            !.result = IF given = password[i] THEN "none" ELSE "denied"]
    BY Parts DEF LoginRead
  <1>3. /\ req'[r].op = "login" /\ req'[r].inspector = i
        /\ req'[r].token = Null /\ req'[r].answer = Null
        /\ \/ req'[r].pc = "insert" /\ req'[r].result = "none"
           \/ req'[r].pc = "answered" /\ req'[r].result = "denied"
    BY <1>2 DEF Idle
  <1>4. Stages(r)'
    BY <1>3 DEF Stages
  <1>5. Starts(r)
    BY <1>3 DEF LoginRead, Starts
  <1>6. Secured(r)'
    BY <1>3, <1>4, NothingSecuredNext DEF IInv
  <1> QED
    BY <1>1, <1>4, <1>5, <1>6, QuietTurn DEF LoginRead

\* Neither has a password change.
LEMMA PasswordReadTurn ==
    ASSUME IInv, IInv', TurnInv, NEW r \in Requests, NEW i \in Inspectors,
           NEW d \in Devices, NEW given, PasswordRead(r, i, d, given)
    PROVE  TurnInv'
  <1>1. OnlyChanges(r)
    BY Parts DEF PasswordRead, OnlyChanges
  <1>2. req'[r] = [Idle EXCEPT
            !.op = "change", !.inspector = i, !.device = d,
            !.hash = password[i],
            !.pc = IF given = password[i] THEN "update" ELSE "answered",
            !.result = IF given = password[i] THEN "none" ELSE "denied"]
    BY Parts DEF PasswordRead
  <1>3. /\ req'[r].op = "change" /\ req'[r].inspector = i
        /\ req'[r].token = Null /\ req'[r].answer = Null
        /\ \/ req'[r].pc = "update" /\ req'[r].result = "none"
           \/ req'[r].pc = "answered" /\ req'[r].result = "denied"
    BY <1>2 DEF Idle
  <1>4. Stages(r)'
    BY <1>3 DEF Stages
  <1>5. Starts(r)
    BY <1>3 DEF PasswordRead, Starts
  <1>6. Secured(r)'
    BY <1>3 DEF Secured
  <1> QED
    BY <1>1, <1>4, <1>5, <1>6, QuietTurn DEF PasswordRead

\* A refresh that rotates has found the token live; one that recovers, that
\* it has not expired and was revoked.
LEMMA RefreshReadTurn ==
    ASSUME IInv, IInv', TurnInv, NEW r \in Requests, NEW t \in Ids,
           RefreshRead(r, t)
    PROVE  TurnInv'
  <1> DEFINE pc == NextStep(t)
             result == IF NextStep(t) = "answered" THEN "denied" ELSE "none"
             row == tokens[t]
  <1>1. OnlyChanges(r) /\ tokens' = tokens /\ now' = now /\ Ids' = Ids
    BY Parts DEF RefreshRead, OnlyChanges, Ids
  <1>2. req'[r] = [Idle EXCEPT
            !.op = "refresh", !.pc = pc, !.inspector = row.inspector,
            !.device = row.device, !.token = t, !.asOf = now,
            !.visited = {t}, !.link = row.replaced_by,
            !.cipher = row.ciphertext, !.result = result]
    BY Parts DEF RefreshRead
  <1>3. /\ pc \in {"answered", "rotate", "recover", "reuse"}
        /\ pc = "answered" => row.expires_at <= now
        /\ pc = "rotate" => Live(t)
        /\ pc = "recover" => ~Live(t) /\ ~(row.expires_at <= now)
    BY DEF NextStep, Live
  <1>4. /\ row.expires_at \in Nat /\ now \in Nat
        /\ result = "denied" => pc = "answered"
        /\ result = "none" <=> pc # "answered"
        /\ result \in {"denied", "none"}
    BY Parts DEF Token
  <1> HIDE DEF pc, result
  <1>5. /\ req'[r].op = "refresh" /\ req'[r].pc = pc
        /\ req'[r].inspector = row.inspector /\ req'[r].token = t
        /\ req'[r].asOf = now /\ req'[r].link = row.replaced_by
        /\ req'[r].cipher = row.ciphertext /\ req'[r].result = result
        /\ req'[r].answer = Null
    BY <1>2 DEF Idle
  <1>6. Stages(r)'
    BY <1>3, <1>4, <1>5 DEF Stages
  <1>7. Starts(r)
    BY <1>5 DEF RefreshRead, Starts
  <1>8. Foot(r)' = InSession(t)
    BY <1>1, <1>5 DEF Foot, InSession
  <1>9. Secured(r)'
    <2>1. t \in InSession(t)
      BY DEF InSession
    <2>2. pc = "recover" => row.expires_at > now
      BY <1>3, <1>4
    <2> QED
      BY <1>1, <1>3, <1>4, <1>5, <1>8, <2>1, <2>2 DEF Secured, Live
  <1> QED
    BY <1>1, <1>6, <1>7, <1>9, QuietTurn DEF RefreshRead

\* What an answer changes of its request
LEMMA AnswerOnly ==
    ASSUME IInv, NEW r \in Requests, NEW result, NEW x, Answered(r, result, x)
    PROVE  /\ OnlyChanges(r)
           /\ req'[r].pc = "answered" /\ req'[r].result = result
           /\ req'[r].answer = x
           /\ req'[r].op = req[r].op /\ req'[r].inspector = req[r].inspector
           /\ req'[r].token = req[r].token
  BY Parts DEF Answered, OnlyChanges, Request

\* A new session: of a login, or the only one a password change has left.
LEMMA InsertTokenTurn ==
    ASSUME IInv, IInv', TurnInv, NEW r \in Requests, InsertToken(r)
    PROVE  TurnInv'
  <1> DEFINE i == req[r].inspector
             d == req[r].device
  <1>1. /\ i \in Inspectors /\ d \in Devices /\ req[r].pc = "insert"
        /\ req[r].op \in {"login", "change"} /\ Busy(r)
    BY Parts DEF InsertToken, RequestInv, RequestOK, Request, Operations, Busy
  <1>2. /\ tokens' = Append(tokens, NewRow(i, d, New))
        /\ Answered(r, "issued", New)
        /\ UNCHANGED <<password, now, known, serial>>
    BY DEF InsertToken, New
  <1>3. RowsStay
    BY <1>1, <1>2, TurnParts, InsertKeeps DEF New
  <1>4. Inserted(i, d, New) /\ \A t \in Ids : tokens'[t] = tokens[t]
    BY <1>1, <1>2, TurnParts, InsertRows
  <1>5. Origins'
    BY <1>2, <1>3, <1>4, TurnParts, OriginsGrow
  <1>6. /\ OnlyChanges(r) /\ req'[r].pc = "answered"
        /\ req'[r].result = "issued" /\ req'[r].answer = New
        /\ req'[r].op = req[r].op /\ req'[r].inspector = i
        /\ req'[r].token = req[r].token
    BY <1>2, AnswerOnly
  <1>7. Stages(r)'
    BY <1>6 DEF Stages
  <1>8. Writes(r)
    BY <1>1, <1>4 DEF Inserted, Writes
  <1>9. GoesOn(r)
    BY <1>1, <1>6 DEF GoesOn
  <1>10. ASSUME serial
         PROVE  Sessions' /\ Secured(r)'
    <2>1. Sessions'
      BY <1>4, <1>10, TurnParts, SessionsStart
    <2>2. CASE req[r].op = "login"
      <3>1. RequestOK(r)'
        BY DEF IInv
      <3>2. req'[r].op = "login"
        BY <1>6, <2>2
      <3> QED
        BY <1>7, <2>1, <3>1, <3>2, NothingSecuredNext
    <2>3. CASE req[r].op = "change"
      <3>1. \A u \in Ids : tokens[u].inspector = i => ~Live(u)
        BY <1>1, <1>10, <2>3, TurnParts DEF Secured, Foot, Of
      <3>2. Foot(r)' = {u \in Ids' : tokens'[u].inspector = i}
        BY <1>6, <2>3 DEF Foot, Of
      <3>3. /\ New \in Foot(r)' /\ ~tokens'[New].revoked
            /\ \A u \in Foot(r)' : ~tokens'[u].revoked => u = New
        BY <1>4, <3>1, <3>2 DEF Inserted, Live
      <3>4. req'[r].op = "change" /\ New # Null
        BY <1>1, <1>6, <2>3, TurnParts, Linked DEF New, Null
      <3> QED
        BY <1>6, <2>1, <3>3, <3>4 DEF Secured, Live
    <2> QED
      BY <1>1, <2>1, <2>2, <2>3
  <1> QED
    BY <1>1, <1>2, <1>3, <1>5, <1>6, <1>7, <1>8, <1>9, <1>10, OneTurn

\* A rotation hands the session of the token it was given to a new one.
LEMMA RefreshRotateTurn ==
    ASSUME IInv, IInv', TurnInv, NEW r \in Requests, RefreshRotate(r)
    PROVE  TurnInv'
  <1> DEFINE i == req[r].inspector
             d == req[r].device
             old == req[r].token
  <1>1. /\ req[r].op = "refresh" /\ old \in Ids /\ req[r].pc = "rotate"
        /\ i = tokens[old].inspector /\ d = tokens[old].device
        /\ i \in Inspectors /\ d \in Devices /\ Busy(r)
    BY Parts DEF RefreshRotate, RequestInv, RequestOK, Token, Busy
  <1>2. /\ tokens' = Append(RevokeAndReplace(tokens, old, New),
                            NewRow(i, d, tokens[old].session))
        /\ Answered(r, "issued", New)
        /\ UNCHANGED <<password, now, known, serial>>
    BY DEF RefreshRotate, New
  <1>3. RowsStay
    BY <1>1, <1>2, TurnParts, RotateKeeps DEF New
  <1>4. /\ Inserted(i, d, tokens[old].session)
        /\ \A t \in Ids \ {old} : tokens'[t] = tokens[t]
        /\ tokens'[old].revoked /\ tokens'[old].replaced_by = New
        /\ tokens'[old].ciphertext = New
        /\ SameOrigin(tokens[old], tokens'[old])
    BY <1>1, <1>2, TurnParts, RotateRows
  <1>5. Origins'
    BY <1>1, <1>2, <1>3, <1>4, TurnParts, OriginsGrow
  <1>6. /\ OnlyChanges(r) /\ req'[r].pc = "answered"
        /\ req'[r].result = "issued" /\ req'[r].answer = New
        /\ req'[r].op = "refresh" /\ req'[r].inspector = i
        /\ req'[r].token = old
    BY <1>1, <1>2, AnswerOnly
  <1>7. Stages(r)'
    BY <1>6 DEF Stages
  <1>8. Writes(r)
    BY <1>1, <1>4 DEF Inserted, Writes, SameOrigin
  <1>9. GoesOn(r)
    BY <1>1, <1>6 DEF GoesOn
  <1>10. ASSUME serial
         PROVE  Sessions' /\ Secured(r)'
    <2>1. Live(old)
      BY <1>1, <1>10, TurnParts DEF Secured
    <2>2. Sessions'
      BY <1>1, <1>3, <1>4, <1>10, <2>1, TurnParts, SessionsRotate
    <2>3. New \in Foot(r)' /\ ~tokens'[New].revoked
      BY <1>1, <1>4, <1>6 DEF Inserted, Foot, InSession, SameOrigin
    <2> QED
      BY <1>6, <2>2, <2>3 DEF Secured, Live
  <1> QED
    BY <1>1, <1>2, <1>3, <1>5, <1>6, <1>7, <1>8, <1>9, <1>10, OneTurn

\* A hop of recovery finds a live token of the session, or goes on; it gives up
\* only when the session has no live token left.
LEMMA RecoverHopTurn ==
    ASSUME IInv, IInv', TurnInv, NEW r \in Requests, RecoverHop(r)
    PROVE  TurnInv'
  <1> DEFINE t == req[r].cipher
             old == req[r].token
  <1>1. /\ req[r].op = "refresh" /\ req[r].pc = "recover" /\ Busy(r)
        /\ old \in Ids /\ old \in req[r].visited
        /\ req[r].inspector = tokens[old].inspector
        /\ req[r].device = tokens[old].device
        /\ t \in {Null, req[r].link}
        /\ req[r].link # Null =>
              /\ req[r].link \in Ids
              /\ tokens[req[r].link].session = tokens[old].session
              /\ \A v \in req[r].visited : v < req[r].link
    BY TurnParts DEF RecoverHop, RequestOK, Advances, Busy
  <1>2. /\ tokens' = tokens /\ now' = now /\ serial' = serial /\ Ids' = Ids
    BY DEF RecoverHop, Ids
  <1>3. ASSUME NEW result, NEW x, Answered(r, result, x),
               result \in {"denied", "unreadable", "recovered"},
               serial => /\ result = "recovered" => x \in Foot(r) /\ Live(x)
                         /\ result = "denied" => \A u \in Foot(r) : ~Live(u)
        PROVE  TurnInv'
    <2>1. /\ OnlyChanges(r) /\ req'[r].pc = "answered"
          /\ req'[r].result = result /\ req'[r].answer = x
          /\ req'[r].op = "refresh" /\ req'[r].inspector = req[r].inspector
          /\ req'[r].token = old
      BY <1>1, <1>3, AnswerOnly
    <2>2. Stages(r)'
      BY <1>3, <2>1 DEF Stages
    <2>3. GoesOn(r)
      BY <1>1, <2>1 DEF GoesOn
    <2>4. Foot(r)' = Foot(r)
      BY <1>1, <1>2, <2>1 DEF Foot, InSession
    <2>5. serial => Secured(r)'
      BY <1>2, <1>3, <2>1, <2>4 DEF Secured, Live
    <2> QED
      BY <1>2, <2>1, <2>2, <2>3, <2>5, QuietTurn
  <1>4. ASSUME serial
        PROVE  \E w \in Ids :
                  /\ tokens[w].session = tokens[old].session /\ ~Live(w)
                  /\ req[r].link = tokens[w].replaced_by
                  /\ t = tokens[w].ciphertext
                  /\ tokens[old].expires_at > req[r].asOf
    BY <1>1, <1>4, TurnParts DEF Secured, Foot, InSession
  <1>5. CASE (req[r].link = Null \/ t = Null) /\ Answered(r, "denied", Null)
    <2>1. t = Null
      BY <1>1, <1>5
    <2>2. serial => \A u \in Foot(r) : ~Live(u)
      BY <1>1, <1>4, <2>1, TurnParts DEF Sessions, Spent, Foot, InSession
    <2> QED
      BY <1>3, <1>5, <2>2
  <1>6. CASE Answered(r, "unreadable", Null)
    BY <1>3, <1>6
  <1>7. CASE /\ req[r].link # Null /\ t # Null
             /\ ~Usable(r, t) /\ Answered(r, "denied", Null)
    <2>1. ASSUME serial PROVE Usable(r, t)
      <3>1. /\ t = req[r].link /\ t \in Ids /\ t \in Nat /\ old < t
            /\ t \notin req[r].visited
            /\ tokens[t].session = tokens[old].session
        BY <1>1, <1>7, Linked, TurnParts
      <3>2. /\ tokens[t].inspector = tokens[old].inspector
            /\ tokens[t].device = tokens[old].device
            /\ tokens[old].expires_at <= tokens[t].expires_at
        BY <1>1, <3>1, TurnParts DEF Origins
      <3>3. /\ tokens[old].expires_at > req[r].asOf
            /\ req[r].asOf \in Nat /\ tokens[old].expires_at \in Nat
            /\ tokens[t].expires_at \in Nat
        BY <1>1, <1>4, <2>1, <3>1, Parts DEF Request, Token
      <3>4. ~(tokens[t].expires_at <= req[r].asOf)
        BY <3>2, <3>3
      <3> HIDE DEF t
      <3> QED
        BY <1>1, <3>1, <3>2, <3>4 DEF Usable
    <2> QED
      BY <1>3, <1>7, <2>1
  <1>8. CASE /\ req[r].link # Null /\ t # Null
             /\ Usable(r, t) /\ Live(t) /\ Answered(r, "recovered", t)
    <2>1. t \in Foot(r)
      BY <1>1, <1>8 DEF Foot, InSession
    <2> QED
      BY <1>3, <1>8, <2>1
  <1>9. CASE /\ req[r].link # Null /\ t # Null /\ Usable(r, t) /\ ~Live(t)
             /\ req' = [req EXCEPT ![r].visited = @ \cup {t},
                                   ![r].link = tokens[t].replaced_by,
                                   ![r].cipher = tokens[t].ciphertext]
    <2>1. /\ OnlyChanges(r)
          /\ req'[r] = [req[r] EXCEPT !.visited = @ \cup {t},
                                      !.link = tokens[t].replaced_by,
                                      !.cipher = tokens[t].ciphertext]
      BY <1>9, Parts DEF OnlyChanges
    <2>2. /\ req'[r].pc = "recover" /\ req'[r].op = "refresh"
          /\ req'[r].token = old /\ req'[r].inspector = req[r].inspector
          /\ req'[r].answer = req[r].answer /\ req'[r].result = req[r].result
          /\ req'[r].asOf = req[r].asOf
          /\ req'[r].link = tokens[t].replaced_by
          /\ req'[r].cipher = tokens[t].ciphertext
      BY <1>1, <2>1, Parts DEF Request
    <2>3. Stages(r)' /\ req[r].result = "none"
      BY <1>1, <2>2, TurnParts DEF Stages
    <2>4. GoesOn(r)
      BY <1>1, <2>2 DEF GoesOn
    <2>5. t \in Foot(r)' /\ tokens[t].revoked
      BY <1>1, <1>2, <1>9, <2>2 DEF Foot, InSession, Live
    <2> HIDE DEF t
    <2>6. serial => Secured(r)'
      BY <1>2, <1>4, <2>2, <2>3, <2>5 DEF Secured, Live
    <2> QED
      BY <1>2, <2>1, <2>3, <2>4, <2>6, QuietTurn
  <1> QED
    BY <1>5, <1>6, <1>7, <1>8, <1>9 DEF RecoverHop

\* The rows chosen for a reused token are those of its session.
LEMMA ReuseDetectedTurn ==
    ASSUME IInv, IInv', TurnInv, NEW r \in Requests, ReuseDetected(r)
    PROVE  TurnInv'
  <1>1. /\ req[r].op = "refresh" /\ req[r].pc = "reuse" /\ Busy(r)
        /\ req[r].token \in Ids /\ req[r].answer = Null
        /\ req[r].result = "none"
    BY TurnParts DEF ReuseDetected, RequestOK, Stages, Busy
  <1>2. /\ OnlyChanges(r) /\ UNCHANGED <<tokens, now, serial>> /\ Ids' = Ids
        /\ req'[r] = [req[r] EXCEPT !.pc = "revokeChain",
                                    !.chosen = Chain(req[r].token)]
    BY Parts DEF ReuseDetected, OnlyChanges, Ids
  <1>3. /\ req'[r].pc = "revokeChain" /\ req'[r].op = "refresh"
        /\ req'[r].chosen = Chain(req[r].token)
        /\ req'[r].token = req[r].token
        /\ req'[r].inspector = req[r].inspector
        /\ req'[r].answer = Null /\ req'[r].result = "none"
    BY <1>1, <1>2, Parts DEF Request
  <1>4. Stages(r)' /\ GoesOn(r)
    BY <1>1, <1>3 DEF Stages, GoesOn
  <1>5. ASSUME serial
        PROVE  Secured(r)'
    <2>1. Chain(req[r].token) = InSession(req[r].token)
      BY <1>1, <1>5, TurnParts, ChainIsSession DEF Sessions
    <2>2. Foot(r)' = InSession(req[r].token)
      BY <1>2, <1>3 DEF Foot, InSession
    <2> QED
      BY <1>3, <2>1, <2>2 DEF Secured
  <1> QED
    BY <1>2, <1>4, <1>5, QuietTurn

\* Revoking any rows of its own keeps where tokens come from.
LEMMA RevokeOwn ==
    ASSUME IInv, TurnInv, NEW r \in Requests, NEW S,
           tokens' = Revoke(tokens, S), UNCHANGED <<password, now, known, serial>>
    PROVE  /\ RowsStay /\ Ids' = Ids /\ Origins'
           /\ \A t \in Ids \ S : tokens'[t] = tokens[t]
           /\ \A t \in Ids : SameOrigin(tokens[t], tokens'[t])
  <1>1. RowsStay
    BY TurnParts, RevokeKeeps
  <1>2. Ids' = Ids /\ \A t \in Ids \ S : tokens'[t] = tokens[t]
    BY DEF Revoke, Ids
  <1>3. Origins'
    BY <1>1, <1>2, TurnParts, OriginsStay
  <1> QED
    BY <1>1, <1>2, <1>3 DEF RowsStay

\* Writing the rows of a reused token's session ends it.
LEMMA RevokeChainTurn ==
    ASSUME IInv, IInv', TurnInv, NEW r \in Requests, RevokeChain(r)
    PROVE  TurnInv'
  <1> DEFINE S == req[r].chosen
             s == tokens[req[r].token].session
  <1>1. /\ req[r].op = "refresh" /\ req[r].pc = "revokeChain" /\ Busy(r)
        /\ req[r].token \in Ids
        /\ req[r].inspector = tokens[req[r].token].inspector
    BY TurnParts DEF RevokeChain, RequestOK, Busy
  <1>2. /\ tokens' = Revoke(tokens, S) /\ Answered(r, "reused", Null)
        /\ UNCHANGED <<password, now, known, serial>>
    BY DEF RevokeChain
  <1>3. /\ RowsStay /\ Ids' = Ids /\ Origins'
        /\ \A t \in Ids \ S : tokens'[t] = tokens[t]
        /\ \A t \in Ids : SameOrigin(tokens[t], tokens'[t])
    BY <1>2, RevokeOwn
  <1>4. /\ OnlyChanges(r) /\ req'[r].pc = "answered"
        /\ req'[r].result = "reused" /\ req'[r].answer = Null
        /\ req'[r].op = "refresh" /\ req'[r].inspector = req[r].inspector
        /\ req'[r].token = req[r].token
    BY <1>1, <1>2, AnswerOnly
  <1>5. Stages(r)' /\ GoesOn(r)
    BY <1>1, <1>4 DEF Stages, GoesOn
  <1>6. ASSUME serial
        PROVE  Writes(r) /\ Sessions' /\ Secured(r)'
    <2>1. S = {u \in Ids : tokens[u].session = s}
      BY <1>1, <1>6, TurnParts DEF Secured, Foot, InSession
    <2>2. \A t \in S : tokens[t].inspector = req[r].inspector
      BY <1>1, <2>1, TurnParts DEF Origins
    <2>3. Writes(r)
      BY <1>1, <1>3, <2>1, <2>2 DEF Writes, SameOrigin
    <2>4. Sessions' /\ \A t \in S \cap Ids : ~Live(t)'
      <3>1. \A t, u \in Ids : t \in S /\ tokens[u].session = tokens[t].session
                => u \in S
        BY <2>1
      <3> HIDE DEF S
      <3> QED
        BY <1>2, <1>6, <3>1, TurnParts, SessionsRevoke
    <2>5. Foot(r)' = S
      BY <1>1, <1>3, <1>4, <2>1 DEF Foot, InSession, SameOrigin
    <2>6. \A t \in S : ~Live(t)'
      BY <2>1, <2>4
    <2> QED
      BY <1>4, <2>3, <2>4, <2>5, <2>6 DEF Secured
  <1> QED
    BY <1>1, <1>2, <1>3, <1>4, <1>5, <1>6, OneTurn

\* Moving on to the next statement, and nothing else but the rows chosen
MovesTo(r, p) ==
    /\ OnlyChanges(r)
    /\ req'[r].pc = p /\ req'[r].op = req[r].op
    /\ req'[r].inspector = req[r].inspector /\ req'[r].token = req[r].token
    /\ req'[r].answer = req[r].answer /\ req'[r].result = req[r].result

\* Only a password change moves on like this, before it has an answer.
LEMMA MovedOnly ==
    ASSUME IInv, TurnInv, NEW r \in Requests, NEW p,
           req[r].pc \in {"update", "revokeAll", "revokeChosen"},
           p \in {"revokeAll", "revokeChosen", "insert"}, MovesTo(r, p)
    PROVE  /\ OnlyChanges(r) /\ GoesOn(r) /\ Stages(r)'
           /\ req'[r].pc = p /\ req'[r].op = "change" /\ req[r].op = "change"
           /\ req'[r].inspector = req[r].inspector
           /\ req'[r].answer = Null /\ req'[r].result = "none"
  <1>1. /\ req[r].op = "change" /\ req[r].answer = Null
        /\ req[r].result = "none" /\ Busy(r)
    BY TurnParts DEF Stages, Busy
  <1> QED
    BY <1>1 DEF MovesTo, GoesOn, Stages

\* update_password makes sure of nothing about sessions.
LEMMA PasswordUpdateTurn ==
    ASSUME IInv, IInv', TurnInv, NEW r \in Requests, PasswordUpdate(r)
    PROVE  TurnInv'
  <1>1. req[r].pc = "update" /\ UNCHANGED <<tokens, now, serial>>
    BY DEF PasswordUpdate
  <1>2. CASE req' = [req EXCEPT ![r].pc = "revokeAll"]
    <2>1. /\ OnlyChanges(r) /\ GoesOn(r) /\ Stages(r)'
          /\ req'[r].pc = "revokeAll" /\ req'[r].op = "change"
          /\ req'[r].answer = Null
      <3>1. MovesTo(r, "revokeAll")
        BY <1>2, Parts DEF MovesTo, OnlyChanges, Request
      <3> QED
        BY <1>1, <3>1, MovedOnly
    <2>2. Secured(r)'
      BY <2>1 DEF Secured
    <2> QED
      BY <1>1, <2>1, <2>2, QuietTurn
  <1>3. CASE Answered(r, "denied", Null)
    <2>1. req[r].op = "change" /\ Busy(r)
      BY <1>1, TurnParts DEF Stages, Busy
    <2>2. /\ OnlyChanges(r) /\ req'[r].pc = "answered"
          /\ req'[r].result = "denied" /\ req'[r].answer = Null
          /\ req'[r].op = "change" /\ req'[r].inspector = req[r].inspector
          /\ req'[r].token = req[r].token
      BY <1>3, <2>1, AnswerOnly
    <2>3. Stages(r)' /\ GoesOn(r) /\ Secured(r)'
      BY <2>1, <2>2 DEF Stages, GoesOn, Secured
    <2> QED
      BY <1>1, <2>2, <2>3, QuietTurn
  <1> QED
    BY <1>2, <1>3 DEF PasswordUpdate

\* A password change chooses all rows of its inspector.
LEMMA RevokeAllTurn ==
    ASSUME IInv, IInv', TurnInv, NEW r \in Requests, RevokeAll(r)
    PROVE  TurnInv'
  <1> DEFINE c == {t \in Ids : tokens[t].inspector = req[r].inspector}
  <1>1. /\ req[r].pc = "revokeAll" /\ UNCHANGED <<tokens, now, serial>>
        /\ req' = [req EXCEPT ![r].pc = "revokeChosen", ![r].chosen = c]
        /\ Ids' = Ids
    BY DEF RevokeAll, Ids
  <1>2. req'[r].chosen = c
    BY <1>1, Parts DEF Request
  <1>3. /\ OnlyChanges(r) /\ GoesOn(r) /\ Stages(r)'
        /\ req'[r].pc = "revokeChosen" /\ req'[r].op = "change"
        /\ req'[r].inspector = req[r].inspector /\ req'[r].answer = Null
    <2> HIDE DEF c
    <2>1. MovesTo(r, "revokeChosen")
      BY <1>1, Parts DEF MovesTo, OnlyChanges, Request
    <2> QED
      BY <1>1, <2>1, MovedOnly
  <1>4. Foot(r)' = c
    BY <1>1, <1>3 DEF Foot, Of
  <1>5. Secured(r)'
    <2> HIDE DEF c
    <2> QED
      BY <1>2, <1>3, <1>4 DEF Secured
  <1> QED
    BY <1>1, <1>3, <1>5, QuietTurn

\* Writing them leaves the inspector no live token.
LEMMA RevokeChosenTurn ==
    ASSUME IInv, IInv', TurnInv, NEW r \in Requests, RevokeChosen(r)
    PROVE  TurnInv'
  <1> DEFINE S == req[r].chosen
             i == req[r].inspector
  <1>1. /\ req[r].pc = "revokeChosen" /\ tokens' = Revoke(tokens, S)
        /\ UNCHANGED <<password, now, known, serial>>
        /\ req' = [req EXCEPT ![r].pc = "insert", ![r].chosen = {}]
    BY DEF RevokeChosen
  <1>2. /\ OnlyChanges(r) /\ GoesOn(r) /\ Stages(r)'
        /\ req'[r].pc = "insert" /\ req'[r].op = "change"
        /\ req[r].op = "change" /\ req'[r].inspector = i
        /\ req'[r].answer = Null
    <2>1. MovesTo(r, "insert")
      BY <1>1, Parts DEF MovesTo, OnlyChanges, Request
    <2>2. req[r].pc = "revokeChosen"
      BY <1>1
    <2> HIDE DEF i
    <2> QED
      BY <2>1, <2>2, MovedOnly DEF i
  <1>3. /\ RowsStay /\ Ids' = Ids /\ Origins'
        /\ \A t \in Ids \ S : tokens'[t] = tokens[t]
        /\ \A t \in Ids : SameOrigin(tokens[t], tokens'[t])
    BY <1>1, RevokeOwn
  <1>4. ASSUME serial
        PROVE  Writes(r) /\ Sessions' /\ Secured(r)'
    <2>1. S = {u \in Ids : tokens[u].inspector = i}
      BY <1>1, <1>2, <1>4, TurnParts DEF Secured, Foot, Of
    <2>2. Writes(r)
      BY <1>2, <1>3, <2>1 DEF Writes, SameOrigin
    <2>3. \A t, u \in Ids : t \in S /\ tokens[u].session = tokens[t].session
              => u \in S
      BY <2>1, TurnParts DEF Origins
    <2>4. Sessions' /\ \A t \in S \cap Ids : ~Live(t)'
      <3> HIDE DEF S
      <3> QED
        BY <1>1, <1>4, <2>3, TurnParts, SessionsRevoke
    <2>5. Foot(r)' = S
      BY <1>2, <1>3, <2>1 DEF Foot, Of, SameOrigin
    <2>6. \A t \in S : ~Live(t)'
      BY <2>1, <2>4
    <2> QED
      BY <1>2, <2>2, <2>4, <2>5, <2>6 DEF Secured
  <1>5. Busy(r)
    BY <1>1 DEF Busy
  <1> QED
    BY <1>1, <1>2, <1>3, <1>4, <1>5, OneTurn

\* A request that is answered, or dies, makes sure of nothing any more.
LEMMA EndTurn ==
    ASSUME IInv, IInv', TurnInv, NEW r \in Requests, Respond(r) \/ Crash(r)
    PROVE  TurnInv'
  <1>1. /\ OnlyChanges(r) /\ req'[r] = Idle
        /\ UNCHANGED <<tokens, now, serial>>
    BY Parts DEF Respond, Crash, OnlyChanges
  <1>2. /\ req'[r].pc = "idle" /\ req'[r].op = "login"
        /\ req'[r].answer = Null /\ req'[r].result = "none"
    BY <1>1 DEF Idle
  <1>3. Ends(r) /\ Stages(r)'
    BY <1>2 DEF Ends, Stages
  <1>4. Secured(r)'
    BY <1>2, <1>3, NothingSecuredNext DEF IInv
  <1> QED
    BY <1>1, <1>3, <1>4, QuietTurn

\* Time passes, or nothing happens.
LEMMA TickTurn ==
    ASSUME IInv, IInv', TurnInv, UNCHANGED <<tokens, req, serial>>,
           now' \in Nat, now' >= now
    PROVE  TurnInv'
  <1> USE TurnParts
  <1>1. RowsStay /\ Ids' = Ids
    BY DEF RowsStay, SameOrigin, Ids
  <1>2. Origins'
    BY <1>1, OriginsStay
  <1>3. \A q \in Requests : Stages(q)'
    BY DEF Stages
  <1>4. ASSUME serial
        PROVE  InTurn'
    <2>1. Turns' /\ Sessions'
      BY <1>1, <1>4 DEF Turns, Apart, Busy, Sessions, Chained, OneLive, Spent,
         Live
    <2>2. ASSUME NEW q \in Requests
          PROVE  Secured(q)'
      <3>1. Kept(q)
        BY <1>1 DEF Kept, Foot, InSession, Of
      <3> QED
        BY <1>4, <3>1, SecuredLasts
    <2> QED
      BY <2>1, <2>2 DEF InTurn
  <1> QED
    BY <1>2, <1>3, <1>4 DEF TurnInv

-----------------------------------------------------------------------------
\* The invariant with turns holds of the empty table.
LEMMA TurnInit == Init => TurnInv
  <1> SUFFICES ASSUME Init PROVE TurnInv
    OBVIOUS
  <1>1. Ids = {}
    BY EmptySeq DEF Init, Ids
  <1>2. ASSUME NEW r \in Requests
        PROVE  /\ req[r].op = "login" /\ req[r].pc = "idle"
               /\ req[r].answer = Null /\ req[r].result = "none"
    BY DEF Init, Idle
  <1>3. Origins /\ Sessions
    BY <1>1 DEF Origins, Sessions, Chained, OneLive, Spent
  <1>4. \A r \in Requests : Stages(r)
    BY <1>2 DEF Stages
  <1>5. Turns
    BY <1>2 DEF Turns, Apart, Busy
  <1>6. \A r \in Requests : Secured(r)
    BY <1>2 DEF Secured
  <1> QED
    BY <1>3, <1>4, <1>5, <1>6 DEF TurnInv, InTurn

\* Every step keeps it.
LEMMA TurnNext == IInv /\ IInv' /\ TurnInv /\ [Next]_vars => TurnInv'
  <1> SUFFICES ASSUME IInv, IInv', TurnInv, [Next]_vars PROVE TurnInv'
    OBVIOUS
  <1>1. ASSUME NEW r \in Requests, Send(r)
        PROVE  TurnInv'
    <2>1. known \subseteq Ids
      BY TurnParts DEF TableInv
    <2> QED
      BY <1>1, <2>1, LoginReadTurn, PasswordReadTurn, RefreshReadTurn DEF Send
  <1>2. ASSUME NEW r \in Requests, Serve(r)
        PROVE  TurnInv'
    BY <1>2, InsertTokenTurn, RefreshRotateTurn, RecoverHopTurn,
       ReuseDetectedTurn, RevokeChainTurn, PasswordUpdateTurn,
       RevokeAllTurn, RevokeChosenTurn, EndTurn DEF Serve
  <1>3. CASE Tick \/ UNCHANGED vars
    <2>1. /\ UNCHANGED <<tokens, req, serial>>
          /\ now' \in Nat /\ now' >= now
      BY <1>3, TurnParts DEF Tick, vars
    <2> QED
      BY <2>1, TickTurn
  <1> QED
    BY <1>1, <1>2, <1>3, EndTurn DEF Next

\* The invariant with turns holds in every reachable state.
THEOREM TurnInvariant == Spec => []TurnInv
  BY Invariant, TurnInit, TurnNext, PTL DEF Spec

\* While clients take turns a session has one live token: rotation hands it
\* over, for any number of sessions, requests and lost answers.
THEOREM SingleLive == Spec => []SingleLiveToken
  <1>1. TurnInv => SingleLiveToken
    BY DEF TurnInv, InTurn, Sessions, OneLive, SingleLiveToken, InSession
  <1> QED
    BY <1>1, TurnInvariant, PTL

\* A client that retries in its turn keeps its session until it expires or
\* has no live token left.
THEOREM RetriesKept == Spec => []RetryKeepsSession
  <1>1. IInv /\ TurnInv => RetryKeepsSession
    <2> SUFFICES ASSUME IInv, TurnInv, serial, NEW r \in Requests,
                        req[r].op = "refresh"
                 PROVE  LET t == req[r].token IN
                    /\ req[r].result \in {"issued", "recovered"} =>
                           Live(req[r].answer)
                    /\ req[r].result = "denied" =>
                           \/ tokens[t].expires_at <= now
                           \/ \A u \in InSession(t) :
                                  Live(u) => tokens[u].expires_at <= now
      BY DEF RetryKeepsSession
    <2> QED
      BY TurnParts DEF Secured, Foot
  <1> QED
    BY <1>1, Invariant, TurnInvariant, PTL

\* Reuse after the window ends the session: the two walks of
\* revoke_token_chain reach all of it.
THEOREM ReuseEnds == Spec => []ReuseEndsSession
  <1>1. IInv /\ TurnInv => ReuseEndsSession
    <2> SUFFICES ASSUME IInv, TurnInv, serial, NEW r \in Requests,
                        req[r].result = "reused"
                 PROVE  \A u \in InSession(req[r].token) : ~Live(u)
      BY DEF ReuseEndsSession
    <2> QED
      BY TurnParts DEF Secured, Foot, Stages
  <1> QED
    BY <1>1, Invariant, TurnInvariant, PTL

\* When a password change is answered its session is the only one of the
\* inspector that can refresh.
THEOREM PasswordEnds == Spec => []PasswordChangeEndsSessions
  <1>1. IInv /\ TurnInv => PasswordChangeEndsSessions
    <2> SUFFICES ASSUME IInv, TurnInv, serial, NEW r \in Requests,
                        req[r].op = "change", req[r].answer # Null
                 PROVE  {t \in Ids : Live(t)
                             /\ tokens[t].inspector = req[r].inspector}
                            = {req[r].answer}
      BY DEF PasswordChangeEndsSessions
    <2>1. /\ req[r].answer \in Of(req[r].inspector) /\ Live(req[r].answer)
          /\ \A u \in Of(req[r].inspector) : Live(u) => u = req[r].answer
      BY TurnParts DEF Secured, Foot
    <2> QED
      BY <2>1 DEF Of
  <1> QED
    BY <1>1, Invariant, TurnInvariant, PTL

\* A rotation is final while clients take turns: a refresh in its turn has
\* found the token live, and no statement gives a token back.
THEOREM RotationsFinal == Spec => RotationIsFinal
  <1>1. IInv /\ TurnInv /\ [Next]_vars
            => [serial => RotationFinal(tokens, tokens')]_vars
    <2> SUFFICES ASSUME IInv, TurnInv, [Next]_vars, serial
                 PROVE  RotationFinal(tokens, tokens')
      OBVIOUS
    <2>1. CASE tokens' = tokens
      BY <2>1 DEF RotationFinal
    <2>2. ASSUME NEW S, tokens' = Revoke(tokens, S)
          PROVE  RotationFinal(tokens, tokens')
      BY <2>2, TurnParts, RevokeRows DEF RotationFinal, TableInv
    <2>3. ASSUME NEW r \in Requests, InsertToken(r)
          PROVE  RotationFinal(tokens, tokens')
      <3>1. req[r].inspector \in Inspectors /\ req[r].device \in Devices
        BY <2>3, TurnParts DEF InsertToken, RequestOK
      <3>2. \A t \in Ids : tokens'[t] = tokens[t]
        BY <2>3, <3>1, TurnParts, InsertRows DEF InsertToken, New
      <3> QED
        BY <3>2 DEF RotationFinal, Ids
    <2>4. ASSUME NEW r \in Requests, RefreshRotate(r)
          PROVE  RotationFinal(tokens, tokens')
      <3> DEFINE old == req[r].token
      <3>1. /\ old \in Ids /\ Live(old) /\ req[r].inspector \in Inspectors
            /\ req[r].device \in Devices
        BY <2>4, TurnParts, Parts DEF RefreshRotate, RequestOK, Secured, Token
      <3>2. \A t \in Ids \ {old} : tokens'[t] = tokens[t]
        BY <2>4, <3>1, TurnParts, RotateRows DEF RefreshRotate, New
      <3> QED
        BY <3>1, <3>2 DEF RotationFinal, Ids, Live
    <2>5. ASSUME NEW r \in Requests, Send(r)
          PROVE  tokens' = tokens
      BY <2>5, Zenon DEF Send, LoginRead, PasswordRead, RefreshRead
    <2>6. ASSUME NEW r \in Requests, Serve(r)
          PROVE  RotationFinal(tokens, tokens')
      BY <2>1, <2>2, <2>3, <2>4, <2>6 DEF Serve, RecoverHop, ReuseDetected,
         RevokeChain, PasswordUpdate, RevokeAll, RevokeChosen, Respond
    <2> QED
      BY <2>1, <2>5, <2>6 DEF Next, Tick, Crash, vars
  <1> QED
    BY <1>1, Invariant, TurnInvariant, PTL DEF Spec, RotationIsFinal
=============================================================================
