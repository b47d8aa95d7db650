--------------------------- MODULE RequestsProofs ---------------------------
(***************************************************************************)
(* Proofs about Requests, for any finite burst of requests, any tokens and *)
(* a pool of any size.                                                     *)
(*                                                                         *)
(* Two facts carry the induction.  Every connection is free or held by one *)
(* request at one place (Conserved), so none is given back twice.  And     *)
(* what a request has been found to be goes with it (Known): who the       *)
(* middleware found, and that its payload and its user are those of the    *)
(* one token its dependencies read.  From the first follows that requests  *)
(* never all wait for each other.                                          *)
(***************************************************************************)
EXTENDS Requests, FiniteSetTheorems, TLAPS

\* Whether a request holds a connection in the middleware, in its handler
Fore(q) == q.pc = "verify" \/ q.closing
Aft(q) == q.pc \in {"user", "payload", "run", "exit"}
FrontHeld == {r \in Requests : Fore(req[r])}
BackHeld == {r \in Requests : Aft(req[r])}

\* Every connection is free or held once.
Conserved == free = PoolSize - Cardinality(FrontHeld) - Cardinality(BackHeld)

\* A generator is left to be closed only after the look-up of the middleware.
Opened(q) == q.pc \in {"new", "front", "verify"} => ~q.closing

\* What is known of a request on its way
Known(q) ==
    /\ q.pc = "front" => q.front \in Tokens
    /\ q.pc = "verify" => q.front \in Tokens
    /\ requireAuth =>
           /\ q.pc \in {"enter", "back", "user", "payload", "run"}
                  /\ Guarded(q.route) => q.current # Nobody
           /\ q.pc \in {"back", "user", "run"} /\ q.route = "claim" =>
                  q.back \in Tokens /\ q.payload = Sub[q.back]
           /\ q.pc \in {"payload", "run"} /\ TakesUser(q.route) =>
                  q.back \in Tokens /\ q.user = Sub[q.back]
           /\ q.pc = "run" /\ q.route = "save" =>
                  q.back \in Tokens /\ q.payload = Sub[q.back]
           /\ q.pc = "payload" => q.route = "save"

IInv ==
    /\ TypeOK
    /\ Conserved
    /\ \A r \in Requests : Opened(req[r]) /\ Known(req[r])

One(b) == IF b THEN 1 ELSE 0

\* One element more or less in a finite set
LEMMA CountOne ==
    ASSUME NEW S \in SUBSET Requests, NEW T \in SUBSET Requests,
           NEW r \in Requests, T \ {r} = S \ {r}
    PROVE  /\ Cardinality(S) \in Nat /\ Cardinality(T) \in Nat
           /\ Cardinality(T) = Cardinality(S) - One(r \in S) + One(r \in T)
<1>1. IsFiniteSet(S) /\ IsFiniteSet(T)
  BY RequestsAssumption, FS_Subset
<1>2. Cardinality(S) \in Nat /\ Cardinality(T) \in Nat
  BY <1>1, FS_CardinalityType
<1>3. /\ Cardinality(S \ {r}) = Cardinality(S) - One(r \in S)
      /\ Cardinality(T \ {r}) = Cardinality(T) - One(r \in T)
  <2>1. /\ Cardinality(S \ {r}) = IF r \in S THEN Cardinality(S) - 1
                                  ELSE Cardinality(S)
        /\ Cardinality(T \ {r}) = IF r \in T THEN Cardinality(T) - 1
                                  ELSE Cardinality(T)
    BY <1>1, FS_RemoveElement
  <2> QED
    BY <1>2, <2>1 DEF One
<1>4. One(r \in S) \in Nat /\ One(r \in T) \in Nat
  BY DEF One
<1>5. Cardinality(S) - One(r \in S) = Cardinality(T) - One(r \in T)
  BY <1>3
<1> QED
  BY <1>2, <1>4, <1>5

\* A step of one request, with what it takes from the pool and gives back
LEMMA OneRequest ==
    ASSUME IInv, NEW r \in Requests, NEW q \in Request,
           req' = [req EXCEPT ![r] = q],
           UNCHANGED <<settings, inspectors, valid>>,
           free' \in Nat,
           free' = free + One(Fore(req[r])) - One(Fore(q))
                        + One(Aft(req[r])) - One(Aft(q)),
           Opened(q), Known(q)
    PROVE  IInv'
<1>1. /\ req \in [Requests -> Request] /\ req' \in [Requests -> Request]
      /\ req'[r] = q /\ \A s \in Requests \ {r} : req'[s] = req[s]
  BY DEF IInv, TypeOK
<1>2. UNCHANGED <<driver, requireAuth, trustInvalid, inspectors, valid>>
  BY DEF settings
<1>3. /\ Cardinality(FrontHeld) \in Nat /\ Cardinality(FrontHeld') \in Nat
      /\ Cardinality(FrontHeld') =
             Cardinality(FrontHeld) - One(r \in FrontHeld) + One(r \in FrontHeld')
  <2>1. FrontHeld \in SUBSET Requests /\ FrontHeld' \in SUBSET Requests
    BY DEF FrontHeld
  <2>2. FrontHeld' \ {r} = FrontHeld \ {r}
    BY <1>1 DEF FrontHeld
  <2> QED
    BY <2>1, <2>2, CountOne
<1>4. /\ Cardinality(BackHeld) \in Nat /\ Cardinality(BackHeld') \in Nat
      /\ Cardinality(BackHeld') =
             Cardinality(BackHeld) - One(r \in BackHeld) + One(r \in BackHeld')
  <2>1. BackHeld \in SUBSET Requests /\ BackHeld' \in SUBSET Requests
    BY DEF BackHeld
  <2>2. BackHeld' \ {r} = BackHeld \ {r}
    BY <1>1 DEF BackHeld
  <2> QED
    BY <2>1, <2>2, CountOne
<1>5. /\ r \in FrontHeld <=> Fore(req[r])
      /\ r \in FrontHeld' <=> Fore(q)
      /\ r \in BackHeld <=> Aft(req[r])
      /\ r \in BackHeld' <=> Aft(q)
  BY <1>1 DEF FrontHeld, BackHeld
<1>6. Conserved'
  <2>1. free \in Nat /\ PoolSize \in Nat
    BY PoolAssumption DEF IInv, TypeOK
  <2>2. /\ One(r \in FrontHeld) = One(Fore(req[r]))
        /\ One(r \in FrontHeld') = One(Fore(q))
        /\ One(r \in BackHeld) = One(Aft(req[r]))
        /\ One(r \in BackHeld') = One(Aft(q))
    BY <1>5 DEF One
  <2>3. /\ One(Fore(req[r])) \in Nat /\ One(Fore(q)) \in Nat
        /\ One(Aft(req[r])) \in Nat /\ One(Aft(q)) \in Nat
    BY DEF One
  <2>4. free = PoolSize - Cardinality(FrontHeld) - Cardinality(BackHeld)
    BY DEF IInv, Conserved
  <2>5. free' = PoolSize - Cardinality(FrontHeld') - Cardinality(BackHeld')
    BY <1>3, <1>4, <2>1, <2>2, <2>3, <2>4
  <2> QED
    BY <2>5 DEF Conserved
<1>7. free' \in 0 .. PoolSize
  BY <1>3, <1>4, <1>6, PoolAssumption DEF Conserved
<1>8. TypeOK'
  BY <1>1, <1>2, <1>7 DEF IInv, TypeOK
<1>9. ASSUME NEW s \in Requests PROVE (Opened(req[s]) /\ Known(req[s]))'
  <2>1. CASE s = r
    BY <1>1, <1>2, <2>1 DEF Opened, Known
  <2>2. CASE s # r
    BY <1>1, <1>2, <2>2 DEF IInv, Opened, Known
  <2> QED
    BY <2>1, <2>2
<1> QED
  BY <1>6, <1>8, <1>9 DEF IInv

\* A request and its connections, as the invariant has them
LEMMA RequestTypes ==
    ASSUME IInv, NEW r \in Requests
    PROVE  /\ req[r] \in Request /\ Opened(req[r]) /\ Known(req[r])
           /\ req \in [Requests -> Request] /\ free \in Nat
BY DEF IInv, TypeOK

\* Who is recognised is the inspector the token names.
LEMMA Recognised ==
    ASSUME IInv, NEW t
    PROVE  /\ Accepted(t) => t \in Tokens /\ Sub[t] \in Inspectors
           /\ Inspector(t) \in Inspectors \cup {Nobody}
           /\ Inspector(t) # Nobody =>
                  t \in Tokens /\ Inspector(t) = Sub[t] /\ Sub[t] \in Inspectors
<1>1. Accepted(t) => t \in Tokens
  BY TokensAssumption DEF Accepted, IInv, TypeOK
<1>2. Accepted(t) => Sub[t] \in Inspectors
  BY <1>1, TokensAssumption
<1> QED
  BY <1>1, <1>2 DEF Inspector

\* With REQUIRE_AUTH nobody becomes anonymous.
LEMMA NoAnonymous ==
    ASSUME NEW who \in Inspectors \cup {Nobody}
    PROVE  /\ Otherwise(who) \in Inspectors \cup {Nobody, Anonymous}
           /\ requireAuth => Otherwise(who) = who
           /\ who # Nobody => Otherwise(who) = who
BY DEF Otherwise

\* A request that takes a connection or gives up, in two places
LEMMA TakeSteps ==
    ASSUME IInv, NEW r \in Requests, TakeFront(r) \/ TakeBack(r)
    PROVE  IInv'
<1> DEFINE Q(pc) == [req[r] EXCEPT !.pc = pc]
<1>1. /\ req[r] \in Request /\ Opened(req[r]) /\ Known(req[r])
      /\ req \in [Requests -> Request] /\ free \in Nat
  BY RequestTypes
<1>2. UNCHANGED <<settings, inspectors, valid>>
  BY DEF TakeFront, TakeBack, Take
<1>3. ASSUME NEW pc \in {"verify", "user", "done"}
      PROVE  /\ Q(pc) \in Request /\ Q(pc).pc = pc
             /\ Q(pc).closing = req[r].closing
             /\ Q(pc).route = req[r].route /\ Q(pc).front = req[r].front
             /\ Q(pc).back = req[r].back /\ Q(pc).current = req[r].current
             /\ Q(pc).payload = req[r].payload /\ Q(pc).user = req[r].user
  BY <1>1 DEF Request, Steps
<1>4. ASSUME NEW pc \in {"verify", "user", "done"}, GoTo(r, pc)
      PROVE  req' = [req EXCEPT ![r] = Q(pc)]
  BY <1>1, <1>4 DEF GoTo
<1> HIDE DEF Q
<1>5. CASE TakeFront(r) /\ free > 0
  <2>1. At(r, "front") /\ GoTo(r, "verify") /\ free' = free - 1
    BY <1>5 DEF TakeFront, Take
  <2>2. ~req[r].closing /\ Known(Q("verify")) /\ Opened(Q("verify"))
    BY <1>1, <1>3, <2>1 DEF At, Opened, Known
  <2>3. /\ ~Fore(req[r]) /\ Fore(Q("verify"))
        /\ ~Aft(req[r]) /\ ~Aft(Q("verify"))
    BY <1>3, <2>1, <2>2 DEF At, Fore, Aft
  <2>4. /\ free' = free + One(Fore(req[r])) - One(Fore(Q("verify")))
                        + One(Aft(req[r])) - One(Aft(Q("verify")))
        /\ free' \in Nat
    BY <1>1, <1>5, <2>1, <2>3 DEF One
  <2> QED
    BY <1>2, <1>3, <1>4, <2>1, <2>2, <2>4, OneRequest
<1>6. CASE TakeBack(r) /\ free > 0
  <2>1. At(r, "back") /\ GoTo(r, "user") /\ free' = free - 1
    BY <1>6 DEF TakeBack, Take
  <2>2. Known(Q("user")) /\ Opened(Q("user"))
    BY <1>1, <1>3, <2>1 DEF At, Opened, Known
  <2>3. /\ Fore(req[r]) <=> Fore(Q("user"))
        /\ ~Aft(req[r]) /\ Aft(Q("user"))
    BY <1>3, <2>1 DEF At, Fore, Aft
  <2>4. /\ free' = free + One(Fore(req[r])) - One(Fore(Q("user")))
                        + One(Aft(req[r])) - One(Aft(Q("user")))
        /\ free' \in Nat
    BY <1>1, <1>6, <2>1, <2>3 DEF One
  <2> QED
    BY <1>2, <1>3, <1>4, <2>1, <2>2, <2>4, OneRequest
<1>7. CASE ~(free > 0)
  <2>1. GoTo(r, "done") /\ free' = free /\ (At(r, "front") \/ At(r, "back"))
    BY <1>7 DEF TakeFront, TakeBack, Take
  <2>2. Known(Q("done")) /\ Opened(Q("done"))
    BY <1>1, <1>3 DEF Opened, Known
  <2>3. /\ Fore(req[r]) <=> Fore(Q("done"))
        /\ ~Aft(req[r]) /\ ~Aft(Q("done"))
    BY <1>3, <2>1 DEF At, Fore, Aft
  <2>4. /\ free' = free + One(Fore(req[r])) - One(Fore(Q("done")))
                        + One(Aft(req[r])) - One(Aft(Q("done")))
        /\ free' \in Nat
    BY <1>1, <2>1, <2>3 DEF One
  <2> QED
    BY <1>2, <1>3, <1>4, <2>1, <2>2, <2>4, OneRequest
<1> QED
  BY <1>5, <1>6, <1>7

\* A step of one request that takes no connection and gives none back
LEMMA NoConnection ==
    ASSUME IInv, NEW r \in Requests, NEW q \in Request,
           req' = [req EXCEPT ![r] = q],
           UNCHANGED <<settings, inspectors, valid, free>>,
           Fore(q) <=> Fore(req[r]), Aft(q) <=> Aft(req[r]),
           Opened(q), Known(q)
    PROVE  IInv'
<1>1. free \in Nat /\ free' = free
  BY RequestTypes
<1>2. /\ One(Fore(q)) = One(Fore(req[r])) /\ One(Aft(q)) = One(Aft(req[r]))
      /\ One(Fore(req[r])) \in Nat /\ One(Aft(req[r])) \in Nat
  BY DEF One
<1>3. free' = free + One(Fore(req[r])) - One(Fore(q))
                   + One(Aft(req[r])) - One(Aft(q))
  BY <1>1, <1>2
<1> QED
  BY <1>1, <1>3, OneRequest

\* A request comes with nothing.
LEMMA ArriveStep ==
    ASSUME IInv, NEW r \in Requests, Arrive(r)
    PROVE  IInv'
<1>1. PICK route \in Routes, front \in Tokens \cup {"none", "malformed"},
           back \in Tokens \cup {"none"} :
          req' = [req EXCEPT ![r] =
                     [NewRequest EXCEPT
                         !.route = route,
                         !.front = IF requireAuth /\ Guarded(route)
                                   THEN front ELSE "none",
                         !.back = IF TakesUser(route) THEN back ELSE "none",
                         !.pc = IF ~(requireAuth /\ Guarded(route)) THEN "enter"
                                ELSE IF front \in Tokens THEN "front"
                                ELSE "done"]]
  BY DEF Arrive
<1> DEFINE checked == requireAuth /\ Guarded(route)
           pc == IF ~checked THEN "enter"
                 ELSE IF front \in Tokens THEN "front" ELSE "done"
           f == IF checked THEN front ELSE "none"
           b == IF TakesUser(route) THEN back ELSE "none"
           q == [NewRequest EXCEPT !.route = route, !.front = f, !.back = b,
                                   !.pc = pc]
<1>2. req' = [req EXCEPT ![r] = q]
  BY <1>1
<1>3. pc \in {"enter", "front", "done"} /\ (pc = "enter" => ~checked)
      /\ (pc = "front" => f \in Tokens)
  OBVIOUS
<1>4. f \in Tokens \cup {"none", "malformed"} /\ b \in Tokens \cup {"none"}
  OBVIOUS
<1> HIDE DEF pc, f, b
<1>5. q \in Request /\ q.pc = pc /\ q.route = route /\ q.front = f /\ ~q.closing
  BY <1>3, <1>4 DEF NewRequest, Request, Steps
<1> HIDE DEF q
<1>6. Opened(q) /\ Known(q)
  BY <1>3, <1>5 DEF Opened, Known
<1>7. At(r, "new") /\ ~req[r].closing
  BY RequestTypes DEF Arrive, At, Opened
<1>8. ~Fore(q) /\ ~Fore(req[r]) /\ ~Aft(q) /\ ~Aft(req[r])
  BY <1>3, <1>5, <1>7 DEF At, Fore, Aft
<1> QED
  BY <1>2, <1>5, <1>6, <1>8, NoConnection DEF Arrive

\* The look-up of the middleware leaves its connection to the close.
LEMMA VerifySteps ==
    ASSUME IInv, NEW r \in Requests, Verify(r) \/ VerifyFails(r)
    PROVE  IInv'
<1>1. /\ req[r] \in Request /\ Opened(req[r]) /\ Known(req[r])
      /\ req \in [Requests -> Request] /\ At(r, "verify")
  BY RequestTypes DEF Verify, VerifyFails
<1>2. CASE Verify(r)
  <2> DEFINE who == Inspector(req[r].front)
             pc == IF who = Nobody THEN "done" ELSE "enter"
             q == [req[r] EXCEPT !.current = who, !.closing = TRUE,
                               !.front = "none", !.pc = pc]
  <2>1. req' = [req EXCEPT ![r] = q]
    BY <1>1, <1>2 DEF Verify
  <2>2. who \in Inspectors \cup {Nobody}
    BY Recognised
  <2>3. pc \in {"done", "enter"} /\ (pc = "enter" => who # Nobody)
    OBVIOUS
  <2> HIDE DEF pc, who
  <2>4. q \in Request /\ q.pc = pc /\ q.closing /\ q.current = who
    BY <1>1, <2>2, <2>3 DEF Request, Steps
  <2> HIDE DEF q
  <2>5. Opened(q) /\ Known(q)
    BY <2>3, <2>4 DEF Opened, Known
  <2>6. Fore(q) /\ Fore(req[r]) /\ ~Aft(q) /\ ~Aft(req[r])
    BY <1>1, <2>3, <2>4 DEF At, Fore, Aft
  <2> QED
    BY <1>2, <2>1, <2>4, <2>5, <2>6, NoConnection DEF Verify
<1>3. CASE VerifyFails(r)
  <2> DEFINE q == [req[r] EXCEPT !.closing = TRUE, !.front = "none", !.pc = "done"]
  <2>1. req' = [req EXCEPT ![r] = q]
    BY <1>1, <1>3 DEF VerifyFails
  <2>2. q \in Request /\ q.pc = "done" /\ q.closing
    BY <1>1 DEF Request, Steps
  <2> HIDE DEF q
  <2>3. Opened(q) /\ Known(q)
    BY <2>2 DEF Opened, Known
  <2>4. Fore(q) /\ Fore(req[r]) /\ ~Aft(q) /\ ~Aft(req[r])
    BY <1>1, <2>2 DEF At, Fore, Aft
  <2> QED
    BY <1>3, <2>1, <2>2, <2>3, <2>4, NoConnection DEF VerifyFails
<1> QED
  BY <1>2, <1>3

\* The close of the generator gives one connection back.
LEMMA CloseStep ==
    ASSUME IInv, NEW r \in Requests, CloseFront(r)
    PROVE  IInv'
<1> DEFINE q == [req[r] EXCEPT !.closing = FALSE]
<1>1. /\ req[r] \in Request /\ Opened(req[r]) /\ Known(req[r])
      /\ req \in [Requests -> Request] /\ free \in Nat
  BY RequestTypes
<1>2. req' = [req EXCEPT ![r] = q] /\ free' = free + 1 /\ req[r].closing
  BY <1>1 DEF CloseFront
<1>3. /\ q \in Request /\ q.pc = req[r].pc /\ ~q.closing
      /\ q.route = req[r].route /\ q.front = req[r].front
      /\ q.back = req[r].back /\ q.current = req[r].current
      /\ q.payload = req[r].payload /\ q.user = req[r].user
  BY <1>1 DEF Request
<1> HIDE DEF q
<1>4. Opened(q) /\ Known(q)
  BY <1>1, <1>3 DEF Opened, Known
<1>5. Fore(req[r]) /\ ~Fore(q) /\ (Aft(req[r]) <=> Aft(q))
  BY <1>1, <1>2, <1>3 DEF Opened, Fore, Aft
<1>6. /\ free' = free + One(Fore(req[r])) - One(Fore(q))
                      + One(Aft(req[r])) - One(Aft(q))
      /\ free' \in Nat
  BY <1>1, <1>2, <1>5 DEF One
<1> QED
  BY <1>2, <1>3, <1>4, <1>6, OneRequest DEF CloseFront

\* A claim goes on with the payload of its token.
LEMMA EnterStep ==
    ASSUME IInv, NEW r \in Requests, Enter(r)
    PROVE  IInv'
<1> DEFINE t == req[r].back
           found == IF Accepted(t) THEN Sub[t] ELSE Nobody
           who == Otherwise(found)
<1>1. /\ req[r] \in Request /\ Opened(req[r]) /\ Known(req[r])
      /\ req \in [Requests -> Request] /\ At(r, "enter")
  BY RequestTypes DEF Enter
<1>2. found \in Inspectors \cup {Nobody}
  BY Recognised
<1>3. found # Nobody => t \in Tokens /\ found = Sub[t]
  BY Recognised
<1>4. /\ who \in Inspectors \cup {Nobody, Anonymous}
      /\ requireAuth /\ who # Nobody => t \in Tokens /\ who = Sub[t]
  BY <1>2, <1>3, NoAnonymous
<1>5. CASE \E pc \in {"done", "back"} :
               /\ GoTo(r, pc)
               /\ pc = "back" => req[r].route # "claim"
  <2>1. PICK pc \in {"done", "back"} :
            GoTo(r, pc) /\ (pc = "back" => req[r].route # "claim")
    BY <1>5
  <2> DEFINE q == [req[r] EXCEPT !.pc = pc]
  <2>2. req' = [req EXCEPT ![r] = q]
    BY <1>1, <2>1 DEF GoTo
  <2>3. /\ q \in Request /\ q.pc = pc /\ q.closing = req[r].closing
        /\ q.route = req[r].route /\ q.current = req[r].current
    BY <1>1 DEF Request, Steps
  <2> HIDE DEF q
  <2>4. Opened(q) /\ Known(q)
    BY <1>1, <2>1, <2>3 DEF At, Opened, Known
  <2>5. (Fore(req[r]) <=> Fore(q)) /\ ~Aft(req[r]) /\ ~Aft(q)
    BY <1>1, <2>3 DEF At, Fore, Aft
  <2> QED
    BY <2>2, <2>3, <2>4, <2>5, NoConnection DEF Enter
<1>6. CASE /\ req[r].route = "claim"
           /\ req' = [req EXCEPT ![r].payload = who,
                                 ![r].pc = IF who = Nobody THEN "done" ELSE "back"]
  <2> HIDE DEF who, found
  <2> DEFINE pc == IF who = Nobody THEN "done" ELSE "back"
             q == [req[r] EXCEPT !.payload = who, !.pc = pc]
  <2>1. req' = [req EXCEPT ![r] = q]
    BY <1>1, <1>6
  <2>2. pc \in {"done", "back"} /\ (pc = "back" => who # Nobody)
    OBVIOUS
  <2> HIDE DEF pc
  <2>3. /\ q \in Request /\ q.pc = pc /\ q.closing = req[r].closing
        /\ q.route = req[r].route /\ q.current = req[r].current
        /\ q.back = t /\ q.payload = who
    BY <1>1, <1>4, <2>2 DEF Request, Steps
  <2> HIDE DEF q
  <2>4. Opened(q)
    BY <2>2, <2>3 DEF Opened
  <2>5. Known(q)
    BY <1>1, <1>4, <2>2, <2>3 DEF At, Known
  <2>6. (Fore(req[r]) <=> Fore(q)) /\ ~Aft(req[r]) /\ ~Aft(q)
    BY <1>1, <2>2, <2>3 DEF At, Fore, Aft
  <2> QED
    BY <2>1, <2>3, <2>4, <2>5, <2>6, NoConnection DEF Enter
<1>7. \/ \E pc \in {"done", "back"} :
             GoTo(r, pc) /\ (pc = "back" => req[r].route # "claim")
      \/ /\ req[r].route = "claim"
         /\ req' = [req EXCEPT ![r].payload = who,
                               ![r].pc = IF who = Nobody THEN "done" ELSE "back"]
  BY DEF Enter, ReadPayload
<1> QED
  BY <1>5, <1>6, <1>7

\* The handler runs for the user its token names.
LEMMA AuthenticateStep ==
    ASSUME IInv, NEW r \in Requests, Authenticate(r)
    PROVE  IInv'
<1> DEFINE t == req[r].back
           who == Otherwise(Inspector(t))
<1>1. /\ req[r] \in Request /\ Opened(req[r]) /\ Known(req[r])
      /\ req \in [Requests -> Request] /\ At(r, "user")
  BY RequestTypes DEF Authenticate
<1>2. /\ who \in Inspectors \cup {Nobody, Anonymous}
      /\ requireAuth /\ who # Nobody => t \in Tokens /\ who = Sub[t]
  BY Recognised, NoAnonymous
<1> HIDE DEF who
<1>3. CASE ~TakesUser(req[r].route) /\ GoTo(r, "run")
  <2> DEFINE q == [req[r] EXCEPT !.pc = "run"]
  <2>1. req' = [req EXCEPT ![r] = q]
    BY <1>1, <1>3 DEF GoTo
  <2>2. /\ q \in Request /\ q.pc = "run" /\ q.closing = req[r].closing
        /\ q.route = req[r].route /\ q.current = req[r].current
        /\ q.back = t /\ q.payload = req[r].payload
    BY <1>1 DEF Request, Steps
  <2> HIDE DEF q
  <2>3. Opened(q) /\ Known(q)
    BY <1>1, <1>3, <2>2 DEF At, Opened, Known, TakesUser
  <2>4. (Fore(req[r]) <=> Fore(q)) /\ Aft(req[r]) /\ Aft(q)
    BY <1>1, <2>2 DEF At, Fore, Aft
  <2> QED
    BY <2>1, <2>2, <2>3, <2>4, NoConnection DEF Authenticate
<1>4. CASE /\ TakesUser(req[r].route)
           /\ req' = [req EXCEPT ![r].user = who,
                                 ![r].pc = IF who = Nobody THEN "exit"
                                           ELSE IF req[r].route = "save"
                                           THEN "payload" ELSE "run"]
  <2> DEFINE pc == IF who = Nobody THEN "exit"
                   ELSE IF req[r].route = "save" THEN "payload" ELSE "run"
             q == [req[r] EXCEPT !.user = who, !.pc = pc]
  <2>1. req' = [req EXCEPT ![r] = q]
    BY <1>1, <1>4
  <2>2. /\ pc \in {"exit", "payload", "run"} /\ (pc # "exit" => who # Nobody)
        /\ pc = "run" => req[r].route # "save"
        /\ pc = "payload" => req[r].route = "save"
    OBVIOUS
  <2> HIDE DEF pc
  <2>3. /\ q \in Request /\ q.pc = pc /\ q.closing = req[r].closing
        /\ q.route = req[r].route /\ q.current = req[r].current
        /\ q.back = t /\ q.payload = req[r].payload /\ q.user = who
    BY <1>1, <1>2, <2>2 DEF Request, Steps
  <2> HIDE DEF q
  <2>4. Opened(q)
    BY <2>2, <2>3 DEF Opened
  <2>5. Known(q)
    BY <1>1, <1>2, <2>2, <2>3 DEF At, Known
  <2>6. (Fore(req[r]) <=> Fore(q)) /\ Aft(req[r]) /\ Aft(q)
    BY <1>1, <2>2, <2>3 DEF At, Fore, Aft
  <2> QED
    BY <2>1, <2>3, <2>4, <2>5, <2>6, NoConnection DEF Authenticate
<1> QED
  BY <1>3, <1>4 DEF Authenticate, who

\* A save goes on with the payload of the token its user was found by.
LEMMA ValidatorStep ==
    ASSUME IInv, NEW r \in Requests, Validator(r)
    PROVE  IInv'
<1> DEFINE t == req[r].back
           found == IF Accepted(t) THEN Sub[t] ELSE Nobody
           who == Otherwise(found)
           pc == IF who = Nobody THEN "exit" ELSE "run"
           q == [req[r] EXCEPT !.payload = who, !.pc = pc]
<1>1. /\ req[r] \in Request /\ Opened(req[r]) /\ Known(req[r])
      /\ req \in [Requests -> Request] /\ At(r, "payload")
  BY RequestTypes DEF Validator
<1>2. req' = [req EXCEPT ![r] = q]
  BY <1>1 DEF Validator, ReadPayload
<1>3. found \in Inspectors \cup {Nobody}
  BY Recognised
<1>4. found # Nobody => t \in Tokens /\ found = Sub[t]
  BY Recognised
<1>5. /\ who \in Inspectors \cup {Nobody, Anonymous}
      /\ requireAuth /\ who # Nobody => t \in Tokens /\ who = Sub[t]
  BY <1>3, <1>4, NoAnonymous
<1>6. pc \in {"exit", "run"} /\ (pc = "run" => who # Nobody)
  OBVIOUS
<1> HIDE DEF pc, who, found
<1>7. /\ q \in Request /\ q.pc = pc /\ q.closing = req[r].closing
      /\ q.route = req[r].route /\ q.current = req[r].current
      /\ q.back = t /\ q.payload = who /\ q.user = req[r].user
  BY <1>1, <1>5, <1>6 DEF Request, Steps
<1> HIDE DEF q
<1>8. Opened(q)
  BY <1>6, <1>7 DEF Opened
<1>9. Known(q)
  BY <1>1, <1>5, <1>6, <1>7 DEF At, Known
<1>10. (Fore(req[r]) <=> Fore(q)) /\ Aft(req[r]) /\ Aft(q)
  BY <1>1, <1>6, <1>7 DEF At, Fore, Aft
<1> QED
  BY <1>2, <1>7, <1>8, <1>9, <1>10, NoConnection DEF Validator

\* What comes after the handler, or a failed look-up, keeps the connection until
\* the exit code.
LEMMA LastSteps ==
    ASSUME IInv, NEW r \in Requests, AuthenticateFails(r) \/ Run(r) \/ Exit(r)
    PROVE  IInv'
<1> DEFINE Q(pc) == [req[r] EXCEPT !.pc = pc]
<1>1. /\ req[r] \in Request /\ Opened(req[r]) /\ Known(req[r])
      /\ req \in [Requests -> Request] /\ free \in Nat
  BY RequestTypes
<1>2. ASSUME NEW pc \in {"exit", "done"}
      PROVE  /\ Q(pc) \in Request /\ Q(pc).pc = pc
             /\ Q(pc).closing = req[r].closing
  BY <1>1 DEF Request, Steps
<1>3. ASSUME NEW pc \in {"exit", "done"}, GoTo(r, pc)
      PROVE  req' = [req EXCEPT ![r] = Q(pc)]
  BY <1>1, <1>3 DEF GoTo
<1> HIDE DEF Q
<1>4. ASSUME NEW pc \in {"exit", "done"}
      PROVE  Opened(Q(pc)) /\ Known(Q(pc))
  BY <1>2 DEF Opened, Known
<1>5. CASE AuthenticateFails(r) \/ Run(r)
  <2>1. /\ At(r, "user") \/ At(r, "run")
        /\ GoTo(r, "exit") /\ UNCHANGED <<settings, inspectors, valid, free>>
    BY <1>5 DEF AuthenticateFails, Run
  <2>2. (Fore(req[r]) <=> Fore(Q("exit"))) /\ Aft(req[r]) /\ Aft(Q("exit"))
    BY <1>2, <2>1 DEF At, Fore, Aft
  <2> QED
    BY <1>2, <1>3, <1>4, <2>1, <2>2, NoConnection
<1>6. CASE Exit(r)
  <2>1. /\ At(r, "exit") /\ GoTo(r, "done") /\ free' = free + 1
        /\ UNCHANGED <<settings, inspectors, valid>>
    BY <1>6 DEF Exit
  <2>2. (Fore(req[r]) <=> Fore(Q("done"))) /\ Aft(req[r]) /\ ~Aft(Q("done"))
    BY <1>2, <2>1 DEF At, Fore, Aft
  <2>3. /\ free' = free + One(Fore(req[r])) - One(Fore(Q("done")))
                        + One(Aft(req[r])) - One(Aft(Q("done")))
        /\ free' \in Nat
    BY <1>1, <2>1, <2>2 DEF One
  <2> QED
    BY <1>2, <1>3, <1>4, <2>1, <2>3, OneRequest
<1> QED
  BY <1>5, <1>6

\* Tokens expire and inspectors go without touching a request.
LEMMA AroundStep ==
    ASSUME IInv, UNCHANGED <<settings, req, free>>,
           valid' \subseteq valid, inspectors' \subseteq inspectors
    PROVE  IInv'
<1>1. UNCHANGED <<driver, requireAuth, trustInvalid, req, free>>
  BY DEF settings
<1>2. TypeOK'
  BY <1>1 DEF IInv, TypeOK
<1>3. Conserved'
  BY <1>1 DEF IInv, Conserved, FrontHeld, BackHeld
<1>4. \A r \in Requests : (Opened(req[r]) /\ Known(req[r]))'
  BY <1>1 DEF IInv, Opened, Known
<1> QED
  BY <1>2, <1>3, <1>4 DEF IInv

\* Nothing is held to begin with.
LEMMA InitInvariant == Init => IInv
<1> SUFFICES ASSUME Init PROVE IInv
  OBVIOUS
<1>1. NewRequest \in Request
  BY DEF NewRequest, Request, Steps, Routes
<1>2. TypeOK
  BY <1>1, PoolAssumption DEF Init, TypeOK
<1>3. FrontHeld = {} /\ BackHeld = {}
  BY DEF Init, FrontHeld, BackHeld, Fore, Aft, NewRequest
<1>4. Conserved
  BY <1>3, FS_EmptySet, PoolAssumption DEF Init, Conserved
<1>5. \A r \in Requests : Opened(req[r]) /\ Known(req[r])
  BY DEF Init, Opened, Known, NewRequest
<1> QED
  BY <1>2, <1>4, <1>5 DEF IInv

\* Every step keeps the invariant.
LEMMA NextInvariant == IInv /\ [Next]_vars => IInv'
<1> SUFFICES ASSUME IInv, [Next]_vars PROVE IInv'
  OBVIOUS
<1>1. ASSUME NEW r \in Requests, Arrive(r) \/ Advance(r) \/ CloseFront(r)
      PROVE  IInv'
  BY <1>1, ArriveStep, TakeSteps, VerifySteps, CloseStep, EnterStep,
     AuthenticateStep, ValidatorStep, LastSteps DEF Advance
<1>2. ASSUME NEW t \in Tokens, Expire(t)
      PROVE  IInv'
  BY <1>2, AroundStep DEF Expire
<1>3. ASSUME NEW i \in Inspectors, Remove(i)
      PROVE  IInv'
  BY <1>3, AroundStep DEF Remove
<1>4. CASE UNCHANGED vars
  BY <1>4, AroundStep DEF vars
<1> QED
  BY <1>1, <1>2, <1>3, <1>4 DEF Next

\* The inductive invariant holds in every reachable state.
THEOREM Invariant == Spec => []IInv
BY InitInvariant, NextInvariant, PTL DEF Spec

\* Every variable has its type, and get_db_connection gives no connection back
\* twice: the pool never has more than it made.
THEOREM TypeCorrect == Spec => []TypeOK
<1>1. IInv => TypeOK
  BY DEF IInv
<1> QED
  BY <1>1, Invariant, PTL

\* With REQUIRE_AUTH a handler behind the middleware runs for an inspector, and a
\* plant is claimed or saved for the user whose rights were checked
\* (get_current_user, get_token_payload).
THEOREM OnlyKnownServed == Spec => []KnownServed
<1>1. IInv => KnownServed
  <2> SUFFICES ASSUME IInv, NEW r \in Requests, requireAuth, At(r, "run")
               PROVE  /\ Guarded(req[r].route) => req[r].current # Nobody
                      /\ TakesUser(req[r].route) => req[r].user \in Inspectors
                      /\ req[r].route \in {"claim", "save"} =>
                             req[r].payload = req[r].user
    BY DEF KnownServed
  <2>1. Known(req[r]) /\ req[r].pc = "run"
    BY RequestTypes DEF At
  <2>2. TakesUser(req[r].route) =>
            req[r].back \in Tokens /\ req[r].user = Sub[req[r].back]
    BY <2>1 DEF Known
  <2>3. req[r].route \in {"claim", "save"} => TakesUser(req[r].route)
    BY DEF TakesUser
  <2> QED
    BY <2>1, <2>2, <2>3, TokensAssumption DEF Known
<1> QED
  BY <1>1, Invariant, PTL
-----------------------------------------------------------------------------
(* The safe half of SettlesDown: that requests settle down is a matter of  *)
(* fairness alone, because somebody can go on and every step counts.       *)

\* What is still to come: steps, and the close of the middleware's generator
Ahead(pc) ==
    CASE pc = "new" -> 9 [] pc = "front" -> 8 [] pc = "verify" -> 7
      [] pc = "enter" -> 6 [] pc = "back" -> 5 [] pc = "user" -> 4
      [] pc = "payload" -> 3 [] pc = "run" -> 2 [] pc = "exit" -> 1
      [] OTHER -> 0
Remaining(q) == 2 * Ahead(q.pc) + One(q.closing)

\* A request goes on without waiting for another: it holds a connection, is
\* about to decide whether it needs one, or gets one, or an error, at once.
CanGoOn(r) ==
    \/ Fore(req[r]) \/ Aft(req[r]) \/ At(r, "enter")
    \/ (At(r, "front") \/ At(r, "back")) /\ (free > 0 \/ driver = "psycopg2")

AllAnswered == \A r \in Requests : At(r, "new") \/ At(r, "done")

\* Requests that have arrived and are not all answered do not all wait.
SomeoneGoesOn ==
    \/ free = PoolSize /\ AllAnswered
    \/ \E r \in Requests : CanGoOn(r)

\* Whatever a request does brings it nearer to its end.
EveryStepCounts ==
    [][\A r \in Requests : req'[r] # req[r] =>
           Remaining(req'[r]) < Remaining(req[r])]_vars

\* The pool is never drained by requests that wait: who holds the connection of
\* the middleware can give it back, and who holds that of its handler needs no
\* other, so a burst of any size gets through a pool of any size.
THEOREM NoneStuck == Spec => []SomeoneGoesOn
<1>1. ASSUME IInv, \A r \in Requests : ~CanGoOn(r)
      PROVE  free = PoolSize /\ AllAnswered
  <2>1. \A r \in Requests : ~Fore(req[r]) /\ ~Aft(req[r])
    BY <1>1 DEF CanGoOn
  <2>2. FrontHeld = {} /\ BackHeld = {}
    BY <2>1 DEF FrontHeld, BackHeld
  <2>3. free = PoolSize /\ free > 0
    BY <1>1, <2>2, FS_EmptySet, PoolAssumption DEF IInv, Conserved
  <2>4. ASSUME NEW r \in Requests PROVE At(r, "new") \/ At(r, "done")
    <3>1. req[r].pc \in Steps
      BY <1>1, RequestTypes DEF Request
    <3> QED
      BY <1>1, <2>1, <2>3, <3>1 DEF Steps, CanGoOn, Fore, Aft, At
  <2> QED
    BY <2>3, <2>4 DEF AllAnswered
<1>2. IInv => SomeoneGoesOn
  BY <1>1 DEF SomeoneGoesOn
<1> QED
  BY <1>2, Invariant, PTL

\* What remains is a natural number: it cannot become less for ever.
LEMMA RemainingNatural ==
    ASSUME NEW q \in Request
    PROVE  Remaining(q) \in Nat
<1>1. Ahead(q.pc) \in 0 .. 9 /\ One(q.closing) \in {0, 1}
  BY DEF Ahead, One
<1> QED
  BY <1>1 DEF Remaining

\* A request that has taken a step has less to come.
LEMMA StepCounts ==
    ASSUME IInv, NEW r \in Requests, Arrive(r) \/ Advance(r) \/ CloseFront(r)
    PROVE  /\ \A s \in Requests \ {r} : req'[s] = req[s]
           /\ Remaining(req'[r]) < Remaining(req[r])
<1> DEFINE Later(a, b) == Ahead(b) + 1 <= Ahead(a)
<1>1. req[r] \in Request /\ req \in [Requests -> Request]
  BY RequestTypes
<1>2. ASSUME NEW q, req' = [req EXCEPT ![r] = q],
             Later(req[r].pc, q.pc)
      PROVE  /\ \A s \in Requests \ {r} : req'[s] = req[s]
             /\ Remaining(req'[r]) < Remaining(req[r])
  <2>1. req'[r] = q /\ \A s \in Requests \ {r} : req'[s] = req[s]
    BY <1>1, <1>2
  <2>2. One(q.closing) \in {0, 1} /\ One(req[r].closing) \in {0, 1}
    BY DEF One
  <2>3. Ahead(q.pc) \in 0 .. 9 /\ Ahead(req[r].pc) \in 0 .. 9
    BY DEF Ahead
  <2>4. 2 * Ahead(q.pc) + One(q.closing) <
            2 * Ahead(req[r].pc) + One(req[r].closing)
    BY <1>2, <2>2, <2>3
  <2> QED
    BY <2>1, <2>4 DEF Remaining
<1>3. CASE CloseFront(r)
  <2> DEFINE q == [req[r] EXCEPT !.closing = FALSE]
  <2>1. req' = [req EXCEPT ![r] = q] /\ req[r].closing
    BY <1>1, <1>3 DEF CloseFront
  <2>2. q.pc = req[r].pc /\ ~q.closing
    BY <1>1 DEF Request
  <2> HIDE DEF q
  <2>3. Ahead(req[r].pc) \in 0 .. 9
    BY DEF Ahead
  <2>4. req'[r] = q /\ \A s \in Requests \ {r} : req'[s] = req[s]
    BY <1>1, <2>1
  <2>5. One(q.closing) = 0 /\ One(req[r].closing) = 1
    BY <2>1, <2>2 DEF One
  <2> QED
    BY <2>2, <2>3, <2>4, <2>5 DEF Remaining
<1>4. CASE Arrive(r)
  <2>1. PICK route \in Routes, front \in Tokens \cup {"none", "malformed"},
             back \in Tokens \cup {"none"} :
            req' = [req EXCEPT ![r] =
                       [NewRequest EXCEPT
                           !.route = route,
                           !.front = IF requireAuth /\ Guarded(route)
                                     THEN front ELSE "none",
                           !.back = IF TakesUser(route) THEN back ELSE "none",
                           !.pc = IF ~(requireAuth /\ Guarded(route)) THEN "enter"
                                  ELSE IF front \in Tokens THEN "front"
                                  ELSE "done"]]
    BY <1>4 DEF Arrive
  <2> DEFINE pc == IF ~(requireAuth /\ Guarded(route)) THEN "enter"
                   ELSE IF front \in Tokens THEN "front" ELSE "done"
             q == [NewRequest EXCEPT
                      !.route = route,
                      !.front = IF requireAuth /\ Guarded(route)
                                THEN front ELSE "none",
                      !.back = IF TakesUser(route) THEN back ELSE "none",
                      !.pc = pc]
  <2>2. req' = [req EXCEPT ![r] = q]
    BY <2>1
  <2>3. pc \in {"enter", "front", "done"}
    OBVIOUS
  <2>4. q.pc = pc
    BY DEF NewRequest
  <2> HIDE DEF q, pc
  <2>5. req[r].pc = "new"
    BY <1>4 DEF Arrive, At
  <2>6. Later(req[r].pc, q.pc)
    BY <2>3, <2>4, <2>5 DEF Ahead
  <2> QED
    BY <1>2, <2>2, <2>6
<1>5. ASSUME NEW pc, GoTo(r, pc), Later(req[r].pc, pc)
      PROVE  /\ \A s \in Requests \ {r} : req'[s] = req[s]
             /\ Remaining(req'[r]) < Remaining(req[r])
  <2> DEFINE q == [req[r] EXCEPT !.pc = pc]
  <2>1. req' = [req EXCEPT ![r] = q]
    BY <1>1, <1>5 DEF GoTo
  <2>2. q.pc = pc
    BY <1>1 DEF Request
  <2> HIDE DEF q
  <2> QED
    BY <1>2, <1>5, <2>1, <2>2
<1>6. CASE TakeFront(r) \/ TakeBack(r) \/ AuthenticateFails(r) \/ Run(r) \/ Exit(r)
  <2>1. PICK pc \in Steps : GoTo(r, pc) /\ Later(req[r].pc, pc)
    BY <1>6 DEF TakeFront, TakeBack, Take, AuthenticateFails, Run, Exit, At,
       Steps, Ahead
  <2> QED
    BY <1>5, <2>1
<1>7. CASE Verify(r)
  <2> DEFINE who == Inspector(req[r].front)
             pc == IF who = Nobody THEN "done" ELSE "enter"
             q == [req[r] EXCEPT !.current = who, !.closing = TRUE,
                                 !.front = "none", !.pc = pc]
  <2>1. req' = [req EXCEPT ![r] = q]
    BY <1>1, <1>7 DEF Verify
  <2>2. pc \in {"done", "enter"} /\ q.pc = pc
    BY <1>1 DEF Request
  <2> HIDE DEF who, pc, q
  <2>3. Later(req[r].pc, q.pc)
    BY <1>7, <2>2 DEF Verify, At, Ahead
  <2> QED
    BY <1>2, <2>1, <2>3
<1>8. CASE VerifyFails(r)
  <2> DEFINE q == [req[r] EXCEPT !.closing = TRUE, !.front = "none", !.pc = "done"]
  <2>1. req' = [req EXCEPT ![r] = q]
    BY <1>1, <1>8 DEF VerifyFails
  <2>2. q.pc = "done"
    BY <1>1 DEF Request
  <2> HIDE DEF q
  <2>3. Later(req[r].pc, q.pc)
    BY <1>8, <2>2 DEF VerifyFails, At, Ahead
  <2> QED
    BY <1>2, <2>1, <2>3
<1>9. CASE Enter(r) \/ Validator(r)
  <2>1. ASSUME NEW refused \in Steps, NEW to \in Steps,
               ReadPayload(r, refused, to),
               Later(req[r].pc, refused), Later(req[r].pc, to)
        PROVE  /\ \A s \in Requests \ {r} : req'[s] = req[s]
               /\ Remaining(req'[r]) < Remaining(req[r])
    <3> DEFINE t == req[r].back
               who == Otherwise(IF Accepted(t) THEN Sub[t] ELSE Nobody)
               pc == IF who = Nobody THEN refused ELSE to
               q == [req[r] EXCEPT !.payload = who, !.pc = pc]
    <3>1. req' = [req EXCEPT ![r] = q]
      BY <1>1, <2>1 DEF ReadPayload
    <3>2. pc \in {refused, to} /\ q.pc = pc
      BY <1>1 DEF Request
    <3> HIDE DEF who, pc, q
    <3> QED
      BY <1>2, <2>1, <3>1, <3>2
  <2>2. CASE Validator(r)
    <3>1. Later(req[r].pc, "exit") /\ Later(req[r].pc, "run")
      BY <2>2 DEF Validator, At, Ahead
    <3> QED
      BY <2>1, <2>2, <3>1 DEF Validator, Steps
  <2>3. CASE Enter(r)
    <3>1. Later(req[r].pc, "done") /\ Later(req[r].pc, "back")
      BY <2>3 DEF Enter, At, Ahead
    <3> QED
      BY <1>5, <2>1, <2>3, <3>1 DEF Enter, Steps
  <2> QED
    BY <1>9, <2>2, <2>3
<1>10. CASE Authenticate(r)
  <2>1. /\ Later(req[r].pc, "run") /\ Later(req[r].pc, "exit")
        /\ Later(req[r].pc, "payload")
    BY <1>10 DEF Authenticate, At, Ahead
  <2>2. CASE GoTo(r, "run")
    BY <1>5, <2>1, <2>2
  <2>3. CASE ~GoTo(r, "run")
    <3> DEFINE who == Otherwise(Inspector(req[r].back))
               pc == IF who = Nobody THEN "exit"
                     ELSE IF req[r].route = "save" THEN "payload" ELSE "run"
               q == [req[r] EXCEPT !.user = who, !.pc = pc]
    <3>1. req' = [req EXCEPT ![r] = q]
      BY <1>1, <1>10, <2>3 DEF Authenticate
    <3>2. pc \in {"exit", "payload", "run"} /\ q.pc = pc
      BY <1>1 DEF Request
    <3> HIDE DEF who, pc, q
    <3> QED
      BY <1>2, <2>1, <3>1, <3>2
  <2> QED
    BY <2>2, <2>3
<1> QED
  BY <1>3, <1>4, <1>6, <1>7, <1>8, <1>9, <1>10 DEF Advance

\* Requests go forward only, and by RemainingNatural not for ever: after at most
\* eighteen steps of its own a request is answered and has given back what it
\* took.
THEOREM ForwardOnly == Spec => EveryStepCounts
<1> DEFINE A == \A r \in Requests : req'[r] # req[r] =>
                    Remaining(req'[r]) < Remaining(req[r])
<1>1. ASSUME IInv, [Next]_vars PROVE A
  <2>1. ASSUME NEW r \in Requests, Arrive(r) \/ Advance(r) \/ CloseFront(r)
        PROVE  A
    BY <1>1, <2>1, StepCounts
  <2>2. CASE \/ \E t \in Tokens : Expire(t)
             \/ \E i \in Inspectors : Remove(i)
             \/ UNCHANGED vars
    BY <2>2 DEF Expire, Remove, vars
  <2> QED
    BY <1>1, <2>1, <2>2 DEF Next
<1>2. EveryStepCounts <=> [][A]_vars
  BY DEF EveryStepCounts
<1> HIDE DEF A
<1>3. IInv /\ [Next]_vars => [A]_vars
  BY <1>1
<1> QED
  BY <1>2, <1>3, Invariant, PTL DEF Spec
=============================================================================
