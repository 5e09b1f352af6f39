---------------------------- MODULE SessionProofs ----------------------------
(* Theorems about Session, for any number of phones, tabs, requests,        *)
(* handlers and tokens.                                                     *)
EXTENDS Session, TLAPS

-----------------------------------------------------------------------------
(* Types *)

LEMMA IdleIsServed == Idle \in Served
BY DEF Idle, Served, Cookies

LEMMA IsRequest ==
    ASSUME NEW pc \in {"ended", "denied", "sent", "joined"},
           NEW carried \in Access, NEW again \in BOOLEAN
    PROVE  [pc |-> pc, carried |-> carried, again |-> again] \in Request
BY DEF Request

LEMMA CallsType ==
    ASSUME TypeOK, NEW t \in Tabs, NEW h \in Handlers, NEW login \in BOOLEAN,
           Calls(t, h, login)
    PROVE  serve' \in [Handlers -> Served] /\ troubled' \in BOOLEAN
BY SessionAssumption DEF TypeOK, Calls, Served, Cookies, Phone

LEMMA CallersType ==
    ASSUME TypeOK, NEW t \in Tabs
    PROVE  /\ GivenUp(t) \in [Requests -> Request]
           /\ Resent(t) \in [Requests -> Request]
<1>1. /\ [pc |-> "denied", carried |-> "none", again |-> FALSE] \in Request
      /\ [pc |-> "sent", carried |-> "good", again |-> TRUE] \in Request
  BY IsRequest DEF Access
<1>2. \A r \in Requests : req[r] \in Request
  BY DEF TypeOK
<1> QED BY <1>1, <1>2 DEF GivenUp, Resent

LEMMA FailedType ==
    ASSUME TypeOK, NEW t \in Tabs, NEW login \in BOOLEAN, Failed(t, login)
    PROVE  token' \in [Phones -> Access] /\ req' \in [Requests -> Request]
<1>1. CASE login
  BY <1>1 DEF TypeOK, Failed
<1>2. CASE ~login
  BY <1>2, SessionAssumption, CallersType DEF TypeOK, Failed, Access, Phone
<1> QED BY <1>1, <1>2

Pcs == {"idle", "find", "alarm", "revoke", "create", "grant", "clear", "deny"}

LEMMA GoesType ==
    ASSUME TypeOK, NEW h \in Handlers, NEW pc \in Pcs, Goes(h, pc)
    PROVE  serve' \in [Handlers -> Served]
BY DEF TypeOK, Goes, Served, Pcs

LEMMA TypeInit == Init => TypeOK
BY IdleIsServed, IsRequest DEF Init, TypeOK, Cookies, Access

LEMMA TypeStep == TypeOK /\ [Next]_vars => TypeOK'
<1> SUFFICES ASSUME TypeOK, [Next]_vars PROVE TypeOK'
  OBVIOUS
<1> USE SessionAssumption
<1>1. ASSUME NEW r \in Requests, Send(r) PROVE TypeOK'
  BY <1>1, IsRequest DEF TypeOK, Send, Phone
<1>2. ASSUME NEW r \in Requests, Answered(r) \/ Lost(r) PROVE TypeOK'
  BY <1>2, IsRequest DEF TypeOK, Answered, Lost, Ends, Access
<1>3. ASSUME NEW r \in Requests, Refresh(r) PROVE TypeOK'
  <2>1. req' \in [Requests -> Request]
    BY <1>3 DEF TypeOK, Refresh, Waits, Request
  <2>2. serve' \in [Handlers -> Served] /\ troubled' \in BOOLEAN
    BY <1>3, CallsType DEF TypeOK, Refresh
  <2> QED BY <1>3, <2>1, <2>2 DEF TypeOK, Refresh
<1>4. ASSUME NEW t \in Tabs, Login(t) PROVE TypeOK'
  BY <1>4, CallsType DEF TypeOK, Login
<1>5. ASSUME NEW t \in Tabs, Reload(t) PROVE TypeOK'
  <2>1. [pc |-> "ended", carried |-> "none", again |-> FALSE] \in Request
    BY IsRequest DEF Access
  <2>2. req' \in [Requests -> Request]
    BY <1>5, <2>1 DEF TypeOK, Reload
  <2>3. \A h \in Handlers : [serve[h] EXCEPT !.tab = NoTab] \in Served
    BY DEF TypeOK, Served
  <2>4. serve' \in [Handlers -> Served]
    BY <1>5, <2>3 DEF TypeOK, Reload
  <2> QED BY <1>5, <2>2, <2>4 DEF TypeOK, Reload
<1>6. ASSUME NEW h \in Handlers, Find(h) PROVE TypeOK'
  <2>1. \E pc \in Pcs : Goes(h, pc)
    BY <1>6 DEF Find, Pcs
  <2> QED BY <1>6, <2>1, GoesType DEF TypeOK, Find
<1>7. ASSUME NEW h \in Handlers, Alarm(h) \/ Revoke(h) PROVE TypeOK'
  <2>1. \E pc \in Pcs : Goes(h, pc)
    BY <1>7 DEF Alarm, Revoke, Pcs
  <2> QED BY <1>7, <2>1, GoesType DEF TypeOK, Alarm, Revoke
<1>8. ASSUME NEW h \in Handlers, Create(h) PROVE TypeOK'
  <2>1. CASE Goes(h, "deny")
    BY <1>8, <2>1, GoesType DEF TypeOK, Create, Pcs
  <2>2. CASE ~Goes(h, "deny")
    BY <1>8, <2>2 DEF TypeOK, Create, Served, Cookies
  <2> QED BY <2>1, <2>2
<1>9. ASSUME NEW h \in Handlers, Unheard(h) PROVE TypeOK'
  BY <1>9, IdleIsServed DEF TypeOK, Unheard
<1>10. ASSUME NEW h \in Handlers, Answer(h) PROVE TypeOK'
  <2> DEFINE t == serve[h].tab
  <2>1. t \in Tabs /\ serve[h] \in Served
    BY <1>10 DEF TypeOK, Answer, Served
  <2>2. cookie' \in [Phones -> Cookies]
    BY <1>10, <2>1 DEF TypeOK, Answer, CookieAfter, Served, Cookies, Phone
  <2>3. token' \in [Phones -> Access] /\ req' \in [Requests -> Request]
    <3>1. CASE serve[h].pc = "grant"
      BY <1>10, <2>1, <3>1, CallersType DEF TypeOK, Answer, Access, Phone
    <3>2. CASE serve[h].pc # "grant"
      <4>1. Failed(t, serve[h].login) /\ serve[h].login \in BOOLEAN
        BY <1>10, <2>1, <3>2 DEF Answer, Served
      <4> QED BY <2>1, <4>1, FailedType
    <3> QED BY <3>1, <3>2
  <2>4. serve' \in [Handlers -> Served]
    BY <1>10, IdleIsServed DEF TypeOK, Answer
  <2> QED BY <1>10, <2>2, <2>3, <2>4 DEF TypeOK, Answer
<1>11. ASSUME NEW h \in Handlers, Lose(h) PROVE TypeOK'
  <2> DEFINE t == serve[h].tab
  <2>1. t \in Tabs /\ serve[h] \in Served
    BY <1>11 DEF TypeOK, Lose, Served
  <2>2. Failed(t, serve[h].login) /\ serve[h].login \in BOOLEAN
    BY <1>11, <2>1 DEF Lose, Served
  <2>3. token' \in [Phones -> Access] /\ req' \in [Requests -> Request]
    BY <2>1, <2>2, FailedType
  <2>4. \A s \in Gone(h) : s \in Served
    BY <2>1, IdleIsServed DEF Gone, Served
  <2> QED BY <1>11, <2>1, <2>3, <2>4 DEF TypeOK, Lose, Served
<1>12. ASSUME NEW p \in Phones, ExpireAccess(p) PROVE TypeOK'
  BY <1>12 DEF TypeOK, ExpireAccess, Request, Access
<1>13. ASSUME NEW p \in Phones, DropCookie(p) PROVE TypeOK'
  BY <1>13 DEF TypeOK, DropCookie, Cookies
<1>14. ASSUME NEW i \in TokenIds, ExpireRow(i) PROVE TypeOK'
  BY <1>14 DEF TypeOK, ExpireRow
<1>15. CASE UNCHANGED vars
  BY <1>15 DEF TypeOK, vars
<1> QED BY <1>1, <1>2, <1>3, <1>4, <1>5, <1>6, <1>7, <1>8, <1>9, <1>10,
           <1>11, <1>12, <1>13, <1>14, <1>15 DEF Next, Handle

(* Every step leaves every variable in its type, so a handler is always     *)
(* before one of its statements and a phone holds nothing but a token of    *)
(* the server (users/handler.go, apiClient.ts).                             *)
THEOREM TypeCorrect == Spec => []TypeOK
BY TypeInit, TypeStep, PTL DEF Spec

-----------------------------------------------------------------------------
(* The inductive invariant: while nothing has gone wrong, a phone has at    *)
(* most one handler, and a token is in one place only, the cookie of a      *)
(* phone, what its handler was presented, or what a handler has made.       *)

HandlerInv(h) ==
    LET s == serve[h] IN
    /\ s.pc = "idle" => s = Idle
    /\ s.login => s.pc \in {"create", "grant"} /\ s.presented = NoToken
    /\ s.pc # "idle" /\ ~s.login =>
           s.tab \in Tabs /\ cookie[Phone(s.tab)] \in {s.presented, NoToken}
    /\ s.pc # "alarm"
    /\ s.pc = "deny" => s.presented = NoToken
    /\ s.pc = "clear" => s.presented # NoToken /\ row[s.presented] = "expired"
    /\ s.pc = "find" /\ s.presented # NoToken => row[s.presented] # "revoked"
    /\ s.pc = "revoke" => s.presented # NoToken
    /\ s.pc # "grant" => s.fresh = NoToken
    /\ s.pc = "grant" => s.fresh # NoToken /\ row[s.fresh] # "revoked"

Elsewhere(h) ==
    \A p \in Phones :
        /\ serve[h].fresh # NoToken => cookie[p] # serve[h].fresh
        /\ serve[h].presented # NoToken /\ cookie[p] = serve[h].presented =>
               p = Phone(serve[h].tab)

Apart(h, k) ==
    /\ serve[h].presented = serve[k].presented => serve[h].presented = NoToken
    /\ serve[h].fresh = serve[k].fresh => serve[h].fresh = NoToken
    /\ serve[h].fresh # NoToken => serve[k].presented # serve[h].fresh
    /\ ~( /\ h \in Busy /\ serve[h].tab \in Tabs
          /\ k \in Busy /\ serve[k].tab \in Tabs
          /\ Phone(serve[h].tab) = Phone(serve[k].tab) )

CookiesApart ==
    \A p, q \in Phones :
        p # q /\ cookie[p] = cookie[q] => cookie[p] = NoToken

Placed ==
    /\ \A h \in Handlers : HandlerInv(h) /\ Elsewhere(h)
    /\ \A h, k \in Handlers : h # k => Apart(h, k)
    /\ CookiesApart
    /\ CookieLives

(* A request is repeated with the new token only. *)
RepeatsAreFresh ==
    \A r \in Requests : req[r].pc = "sent" /\ req[r].again => req[r].carried = "good"

SessionInv == TypeOK /\ RepeatsAreFresh /\ (~troubled => Placed)

-----------------------------------------------------------------------------
(* Each step keeps it *)

LEMMA StartPlaced ==
    ASSUME TypeOK, Placed, ~troubled, ~troubled', NEW t \in Tabs, NEW h \in Handlers,
           NEW login \in BOOLEAN, Calls(t, h, login),
           IF login THEN LoggingIn(t) = {} ELSE Refreshing(t) = {},
           UNCHANGED <<row, cookie>>
    PROVE  Placed'
<1> DEFINE p == Phone(t)
<1>1. CallsOf(p) = {}
  <2>1. \A k \in CallsOf(p) : serve[k].tab = t /\ serve[k].login = login
    BY DEF Calls, Crossing
  <2> QED BY <2>1 DEF LoggingIn, Refreshing, CallsOf
<1>2. /\ serve'[h].pc = IF login THEN "create" ELSE "find"
      /\ serve'[h].login = login /\ serve'[h].tab = t
      /\ serve'[h].fresh = NoToken
      /\ serve'[h].presented = IF login THEN NoToken ELSE cookie[p]
  BY DEF Calls, TypeOK
<1>3. \A k \in Handlers \ {h} : serve'[k] = serve[k]
  BY DEF Calls, TypeOK
<1>4. p \in Phones
  BY SessionAssumption DEF Phone
<1>5. serve[h] = Idle /\ serve[h].pc = "idle"
  BY DEF Calls, Busy, Placed, HandlerInv, Idle
<1>6. cookie[p] # NoToken => row[cookie[p]] # "revoked"
  BY <1>1, <1>4 DEF Placed, CookieLives
<1>7. \A k \in Handlers : HandlerInv(k)'
  <2>1. HandlerInv(h)'
    BY <1>2, <1>6 DEF HandlerInv
  <2>2. \A k \in Handlers \ {h} : HandlerInv(k)'
    BY <1>3 DEF Placed, HandlerInv
  <2> QED BY <2>1, <2>2
<1>8. \A k \in Handlers : Elsewhere(k)'
  BY <1>2, <1>3, <1>4 DEF Placed, Elsewhere, CookiesApart
<1>9. ASSUME NEW k \in Handlers, k # h PROVE Apart(h, k)' /\ Apart(k, h)'
  <2>1. Elsewhere(k) /\ HandlerInv(k)
    BY DEF Placed
  <2>2. ~(k \in Busy /\ serve[k].tab \in Tabs /\ Phone(serve[k].tab) = p)
    BY <1>1 DEF CallsOf
  <2>3. serve[k].pc = "idle" => serve[k].presented = NoToken
    BY <2>1 DEF HandlerInv, Idle
  <2>4. ~login => serve[k].presented # cookie[p] \/ cookie[p] = NoToken
    BY <1>4, <2>1, <2>2, <2>3 DEF Elsewhere, HandlerInv, Busy
  <2>5. serve[k].fresh # NoToken => cookie[p] # serve[k].fresh
    BY <1>4, <2>1 DEF Elsewhere
  <2>6. /\ serve'[h].presented = serve[k].presented => serve[k].presented = NoToken
        /\ serve[k].fresh # NoToken => serve'[h].presented # serve[k].fresh
    <3>1. CASE login
      BY <1>2, <3>1
    <3>2. CASE ~login
      BY <1>2, <2>4, <2>5, <3>2
    <3> QED BY <3>1, <3>2
  <2>7. k \in Busy' <=> k \in Busy
    BY <1>3, <1>9 DEF Busy
  <2> QED BY <1>2, <1>9, <1>3, <2>2, <2>6, <2>7 DEF Apart, Phone
<1>10. \A k, m \in Handlers : k # m => Apart(k, m)'
  <2>1. \A k, m \in Handlers \ {h} : k # m => Apart(k, m)'
    BY <1>3 DEF Placed, Apart, Busy
  <2> QED BY <1>9, <2>1
<1>11. CookieLives'
  <2>1. \A q \in Phones : CallsOf(q) \subseteq CallsOf(q)'
    BY <1>3, <1>5 DEF CallsOf, Busy
  <2>2. \A q \in Phones : \A k \in CallsOf(q) : k \in Handlers /\ k # h
    BY <1>5 DEF CallsOf, Busy
  <2> QED BY <1>3, <2>1, <2>2 DEF Placed, CookieLives
<1> QED BY <1>7, <1>8, <1>10, <1>11 DEF Placed, CookiesApart

(* Handler h alone takes a step within the server. *)
Steps(h) ==
    /\ \A k \in Handlers \ {h} : serve'[k] = serve[k]
    /\ serve[h].pc # "idle" /\ serve'[h].pc # "idle"
    /\ serve'[h].tab = serve[h].tab /\ serve'[h].login = serve[h].login
    /\ serve'[h].presented = serve[h].presented
    /\ cookie' = cookie

LEMMA GoesSteps ==
    ASSUME TypeOK, NEW h \in Handlers, h \in Busy, NEW pc \in Pcs \ {"idle"},
           Goes(h, pc), cookie' = cookie
    PROVE  /\ Steps(h) /\ serve'[h].pc = pc
           /\ serve'[h].fresh = serve[h].fresh
BY DEF TypeOK, Goes, Steps, Busy, Served

LEMMA StepPlaces ==
    ASSUME Placed, NEW h \in Handlers, Steps(h),
           serve'[h].fresh = serve[h].fresh
    PROVE  /\ \A k \in Handlers : Elsewhere(k)'
           /\ \A k, m \in Handlers : k # m => Apart(k, m)'
           /\ CookiesApart'
           /\ \A q \in Phones : CallsOf(q)' = CallsOf(q)
<1>1. \A k \in Handlers : /\ serve'[k].presented = serve[k].presented
                           /\ serve'[k].fresh = serve[k].fresh
                           /\ serve'[k].tab = serve[k].tab
  BY DEF Steps
<1>2. Busy' = Busy
  BY DEF Steps, Busy
<1>3. cookie' = cookie
  BY DEF Steps
<1>4. \A k \in Handlers : Elsewhere(k)'
  BY <1>1, <1>3 DEF Placed, Elsewhere
<1>5. \A k, m \in Handlers : k # m => Apart(k, m)'
  BY <1>1, <1>2 DEF Placed, Apart
<1>6. \A q \in Phones : CallsOf(q)' = CallsOf(q)
  BY <1>1, <1>2 DEF CallsOf, Busy
<1> QED BY <1>3, <1>4, <1>5, <1>6 DEF Placed, CookiesApart

LEMMA FindPlaced ==
    ASSUME TypeOK, Placed, ~troubled, ~troubled', NEW h \in Handlers, Find(h)
    PROVE  Placed'
<1> DEFINE i == serve[h].presented
<1>1. h \in Busy /\ HandlerInv(h)
  BY DEF Find, Busy, Placed
<1>2. PICK pc \in Pcs \ {"idle"} :
          /\ Goes(h, pc)
          /\ i = NoToken => pc = "deny"
          /\ i # NoToken => pc = IF row[i] = "expired" THEN "clear" ELSE "revoke"
  BY <1>1 DEF Find, HandlerInv, Pcs
<1>3. /\ Steps(h) /\ serve'[h].pc = pc /\ serve'[h].fresh = serve[h].fresh
  BY <1>1, <1>2, GoesSteps DEF Find
<1>4. row' = row /\ cookie' = cookie
  BY DEF Find
<1>5. \A k \in Handlers : HandlerInv(k)'
  <2>1. HandlerInv(h)'
    BY <1>1, <1>2, <1>3, <1>4 DEF HandlerInv, Steps, Find
  <2>2. \A k \in Handlers \ {h} : HandlerInv(k)'
    BY <1>3, <1>4 DEF Placed, HandlerInv, Steps
  <2> QED BY <2>1, <2>2
<1>6. CookieLives'
  BY <1>3, <1>4, StepPlaces DEF Placed, CookieLives, Steps, Find, CallsOf, Busy
<1> QED BY <1>3, <1>5, <1>6, StepPlaces DEF Placed

LEMMA RevokePlaced ==
    ASSUME TypeOK, Placed, ~troubled, ~troubled', NEW h \in Handlers, Revoke(h)
    PROVE  Placed'
<1> DEFINE i == serve[h].presented
<1>1. h \in Busy /\ HandlerInv(h) /\ i # NoToken /\ Elsewhere(h)
  BY DEF Revoke, Busy, Placed, HandlerInv
<1>2. Goes(h, "create") /\ row' = [row EXCEPT ![i] = "revoked"]
      /\ cookie' = cookie
  BY DEF Revoke
<1>3. /\ Steps(h) /\ serve'[h].pc = "create"
      /\ serve'[h].fresh = serve[h].fresh
  BY <1>1, <1>2, GoesSteps DEF Pcs
<1>4. \A k \in Handlers : HandlerInv(k)'
  <2>1. HandlerInv(h)'
    BY <1>1, <1>2, <1>3 DEF HandlerInv, Steps, Revoke
  <2>2. ASSUME NEW k \in Handlers \ {h} PROVE HandlerInv(k)'
    <3>1. Apart(k, h) /\ Apart(h, k) /\ HandlerInv(k) /\ serve'[k] = serve[k]
      BY <1>3 DEF Placed, Steps
    <3>2. serve[k].presented # i /\ serve[k].fresh # i
      BY <1>1, <3>1 DEF Apart
    <3>3. serve[k].presented \in Cookies /\ serve[k].fresh \in Cookies
      BY DEF TypeOK, Served
    <3>4. \A j \in Cookies \ {NoToken, i} : row'[j] = row[j]
      BY <1>2 DEF TypeOK, Cookies
    <3> QED BY <1>2, <3>1, <3>2, <3>3, <3>4 DEF HandlerInv
  <2> QED BY <2>1, <2>2
<1>5. CookieLives'
  <2> SUFFICES ASSUME NEW p \in Phones, cookie[p] # NoToken,
                      row'[cookie[p]] = "revoked"
               PROVE  \E k \in CallsOf(p)' :
                          /\ serve'[k].presented = cookie[p]
                          /\ serve'[k].pc \in {"create", "grant"}
    BY <1>2 DEF CookieLives
  <2>1. CASE cookie[p] = i
    <3>1. p = Phone(serve[h].tab) /\ serve[h].tab \in Tabs
      BY <1>1, <2>1 DEF Elsewhere, HandlerInv, Busy
    <3>2. h \in CallsOf(p)'
      BY <1>1, <1>3, <3>1 DEF CallsOf, Busy, Steps
    <3> QED BY <1>3, <2>1, <3>2 DEF Steps
  <2>2. CASE cookie[p] # i
    <3>1. row[cookie[p]] = "revoked"
      BY <1>2, <2>2 DEF TypeOK, Cookies
    <3>2. PICK k \in CallsOf(p) : /\ serve[k].presented = cookie[p]
                                  /\ serve[k].pc \in {"create", "grant"}
      BY <3>1 DEF Placed, CookieLives
    <3>3. k \in Handlers /\ k # h
      BY <2>2, <3>2 DEF CallsOf, Busy
    <3>4. k \in CallsOf(p)'
      BY <1>3, <3>2, StepPlaces
    <3> QED BY <1>3, <3>2, <3>3, <3>4 DEF Steps
  <2> QED BY <2>1, <2>2
<1> QED BY <1>3, <1>4, <1>5, StepPlaces DEF Placed

LEMMA CreatePlaced ==
    ASSUME TypeOK, Placed, ~troubled, ~troubled', NEW h \in Handlers, Create(h)
    PROVE  Placed'
<1>1. h \in Busy /\ HandlerInv(h)
  BY DEF Create, Busy, Placed
<1>2. PICK i \in TokenIds \ Held :
          /\ row' = [row EXCEPT ![i] = "live"]
          /\ serve' = [serve EXCEPT ![h].pc = "grant", ![h].fresh = i]
  BY DEF Create
<1>3. /\ Steps(h) /\ serve'[h].pc = "grant" /\ serve'[h].fresh = i
      /\ cookie' = cookie
  <2>1. serve[h] \in Served
    BY DEF TypeOK
  <2>2. serve'[h] = [serve[h] EXCEPT !.pc = "grant", !.fresh = i]
    BY <1>2 DEF TypeOK
  <2>3. \A k \in Handlers \ {h} : serve'[k] = serve[k]
    BY <1>2 DEF TypeOK
  <2> QED BY <1>1, <2>1, <2>2, <2>3 DEF Create, Steps, Served, Busy
<1>4. /\ i # NoToken
      /\ \A p \in Phones : cookie[p] # i
      /\ \A k \in Handlers : serve[k].presented # i /\ serve[k].fresh # i
  BY SessionAssumption DEF Held
<1>5. \A j \in TokenIds : row'[j] = IF j = i THEN "live" ELSE row[j]
  BY <1>2 DEF TypeOK
<1>6. \A k \in Handlers : HandlerInv(k)'
  <2>1. HandlerInv(h)'
    BY <1>1, <1>3, <1>4, <1>5 DEF HandlerInv, Steps, Create
  <2>2. ASSUME NEW k \in Handlers \ {h} PROVE HandlerInv(k)'
    <3>1. HandlerInv(k) /\ serve'[k] = serve[k]
      BY <1>3 DEF Placed, Steps
    <3>2. serve[k].presented \in Cookies /\ serve[k].fresh \in Cookies
      BY DEF TypeOK, Served
    <3> QED BY <1>3, <1>4, <1>5, <3>1, <3>2 DEF HandlerInv, Cookies
  <2> QED BY <2>1, <2>2
<1>7. /\ \A k \in Handlers : /\ serve'[k].presented = serve[k].presented
                            /\ serve'[k].tab = serve[k].tab
      /\ \A k \in Handlers \ {h} : serve'[k].fresh = serve[k].fresh
      /\ Busy' = Busy
  BY <1>3 DEF Steps, Busy
<1>8. \A k \in Handlers : Elsewhere(k)'
  BY <1>3, <1>4, <1>7 DEF Placed, Elsewhere
<1>9. \A k, m \in Handlers : k # m => Apart(k, m)'
  BY <1>3, <1>4, <1>7 DEF Placed, Apart
<1>10. CookieLives'
  <2> SUFFICES ASSUME NEW p \in Phones, cookie[p] # NoToken,
                      row'[cookie[p]] = "revoked"
               PROVE  \E k \in CallsOf(p)' :
                          /\ serve'[k].presented = cookie[p]
                          /\ serve'[k].pc \in {"create", "grant"}
    BY <1>3 DEF CookieLives
  <2>1. row[cookie[p]] = "revoked"
    BY <1>5 DEF TypeOK, Cookies
  <2>2. PICK k \in CallsOf(p) : /\ serve[k].presented = cookie[p]
                                /\ serve[k].pc \in {"create", "grant"}
    BY <2>1 DEF Placed, CookieLives
  <2>3. k \in CallsOf(p)'
    BY <1>7, <2>2 DEF CallsOf, Busy
  <2> QED BY <1>3, <1>7, <2>2, <2>3 DEF Steps, CallsOf, Busy
<1> QED BY <1>3, <1>6, <1>8, <1>9, <1>10 DEF Placed, CookiesApart

(* Logins end, or lose their tab. *)
Fades ==
    /\ \A k \in Handlers :
          \/ serve'[k] = serve[k]
          \/ /\ serve[k].login
             /\ serve'[k] \in {Idle, [serve[k] EXCEPT !.tab = NoTab]}
    /\ row' = row /\ cookie' = cookie

LEMMA FadesPlaced ==
    ASSUME TypeOK, Placed, ~troubled, Fades
    PROVE  Placed'
<1>1. \A k \in Handlers : serve[k] \in Served
  BY DEF TypeOK
<1>2. \A k \in Handlers : HandlerInv(k)' /\ Elsewhere(k)'
  <2> SUFFICES ASSUME NEW k \in Handlers PROVE HandlerInv(k)' /\ Elsewhere(k)'
    OBVIOUS
  <2>1. HandlerInv(k) /\ Elsewhere(k) /\ row' = row /\ cookie' = cookie
    BY DEF Placed, Fades
  <2>2. CASE serve'[k] = serve[k]
    BY <2>1, <2>2 DEF HandlerInv, Elsewhere
  <2>3. CASE serve'[k] = Idle
    BY <2>3 DEF HandlerInv, Elsewhere, Idle
  <2>4. CASE serve'[k] = [serve[k] EXCEPT !.tab = NoTab] /\ serve[k].login
    <3>1. /\ serve'[k].pc = serve[k].pc /\ serve'[k].login
          /\ serve'[k].presented = NoToken /\ serve'[k].fresh = serve[k].fresh
          /\ serve[k].pc \in {"create", "grant"}
      BY <1>1, <2>1, <2>4 DEF Served, HandlerInv
    <3> QED BY <2>1, <3>1 DEF HandlerInv, Elsewhere
  <2> QED BY <2>2, <2>3, <2>4 DEF Fades
<1>3. \A k \in Handlers :
          /\ serve'[k].presented \in {serve[k].presented, NoToken}
          /\ serve'[k].fresh \in {serve[k].fresh, NoToken}
          /\ serve'[k].tab \in {serve[k].tab, NoTab}
          /\ k \in Busy' => k \in Busy
  BY <1>1 DEF Fades, Served, Idle, Busy
<1>4. \A k, m \in Handlers : k # m => Apart(k, m)'
  BY <1>3, SessionAssumption DEF Placed, Apart
<1>5. CookieLives'
  <2> SUFFICES ASSUME NEW p \in Phones, cookie[p] # NoToken,
                      row[cookie[p]] = "revoked"
               PROVE  \E k \in CallsOf(p)' :
                          /\ serve'[k].presented = cookie[p]
                          /\ serve'[k].pc \in {"create", "grant"}
    BY DEF CookieLives, Fades
  <2>1. PICK k \in CallsOf(p) : /\ serve[k].presented = cookie[p]
                                /\ serve[k].pc \in {"create", "grant"}
    BY DEF Placed, CookieLives
  <2>2. k \in Handlers /\ HandlerInv(k)
    BY DEF CallsOf, Busy, Placed
  <2>3. serve'[k] = serve[k]
    BY <2>1, <2>2 DEF HandlerInv, Fades
  <2> QED BY <2>1, <2>2, <2>3 DEF CallsOf, Busy
<1> QED BY <1>2, <1>4, <1>5 DEF Placed, CookiesApart, Fades

LEMMA AnswerPlaced ==
    ASSUME TypeOK, Placed, ~troubled, ~troubled', NEW h \in Handlers, Answer(h)
    PROVE  Placed'
<1> DEFINE t == serve[h].tab
           p == Phone(t)
           c == IF serve[h].pc = "grant" THEN serve[h].fresh ELSE NoToken
<1>1. h \in Busy /\ HandlerInv(h) /\ Elsewhere(h) /\ serve[h] \in Served
  BY DEF Answer, Busy, Placed, TypeOK
<1>2. t \in Tabs /\ p \in Phones
  BY <1>1, SessionAssumption DEF Answer, Served, Phone
<1>3. cookie' = [cookie EXCEPT ![p] = c]
  <2>1. CASE serve[h].pc = "deny"
    <3>1. cookie[p] = NoToken
      BY <1>1, <2>1 DEF HandlerInv
    <3> QED BY <2>1, <3>1 DEF Answer, CookieAfter, TypeOK
  <2>2. CASE serve[h].pc # "deny"
    BY <2>2 DEF Answer, CookieAfter
  <2> QED BY <2>1, <2>2
<1>4. \A q \in Phones : cookie'[q] = IF q = p THEN c ELSE cookie[q]
  BY <1>2, <1>3 DEF TypeOK
<1>5. serve'[h] = Idle /\ \A k \in Handlers \ {h} : serve'[k] = serve[k]
  BY DEF Answer, TypeOK
<1>6. c # NoToken => /\ row[c] # "revoked" /\ c = serve[h].fresh
                     /\ \A q \in Phones : cookie[q] # c
  BY <1>1 DEF HandlerInv, Elsewhere
<1>7. \A k \in Handlers \ {h} :
          k \in Busy /\ serve[k].tab \in Tabs => Phone(serve[k].tab) # p
  BY <1>1, <1>2 DEF Placed, Apart
<1>8. row' = row
  BY DEF Answer
<1>9. \A k \in Handlers : HandlerInv(k)' /\ Elsewhere(k)'
  <2>1. HandlerInv(h)' /\ Elsewhere(h)'
    BY <1>5 DEF HandlerInv, Elsewhere, Idle
  <2>2. ASSUME NEW k \in Handlers \ {h} PROVE HandlerInv(k)' /\ Elsewhere(k)'
    <3>1. HandlerInv(k) /\ Elsewhere(k) /\ Apart(h, k) /\ Apart(k, h)
      BY DEF Placed
    <3>2. serve'[k] = serve[k] /\ row' = row
      BY <1>5, <1>8
    <3>3. ASSUME serve[k].pc # "idle", ~serve[k].login
          PROVE  cookie'[Phone(serve[k].tab)] = cookie[Phone(serve[k].tab)]
      BY <1>4, <1>7, <3>1, <3>3, SessionAssumption DEF HandlerInv, Busy, Phone
    <3>4. HandlerInv(k)'
      BY <3>1, <3>2, <3>3 DEF HandlerInv, Phone
    <3>5. c # NoToken => c # serve[k].fresh /\ c # serve[k].presented
      BY <1>6, <3>1 DEF Apart
    <3>6. Elsewhere(k)'
      BY <1>4, <3>1, <3>2, <3>5 DEF Elsewhere, Phone
    <3> QED BY <3>4, <3>6
  <2> QED BY <2>1, <2>2
<1>10. \A k, m \in Handlers : k # m => Apart(k, m)'
  <2>1. \A k \in Handlers :
            /\ serve'[k].presented \in {serve[k].presented, NoToken}
            /\ serve'[k].fresh \in {serve[k].fresh, NoToken}
            /\ k \in Busy' => k \in Busy /\ serve'[k].tab = serve[k].tab
    BY <1>5 DEF Idle, Busy
  <2> QED BY <2>1 DEF Placed, Apart
<1>11. CookiesApart'
  BY <1>4, <1>6 DEF Placed, CookiesApart
<1>12. CookieLives'
  <2> SUFFICES ASSUME NEW q \in Phones, cookie'[q] # NoToken,
                      row[cookie'[q]] = "revoked"
               PROVE  \E k \in CallsOf(q)' :
                          /\ serve'[k].presented = cookie'[q]
                          /\ serve'[k].pc \in {"create", "grant"}
    BY <1>8 DEF CookieLives
  <2>1. q # p /\ cookie'[q] = cookie[q]
    BY <1>4, <1>6
  <2>2. PICK k \in CallsOf(q) : /\ serve[k].presented = cookie[q]
                                /\ serve[k].pc \in {"create", "grant"}
    BY <2>1 DEF Placed, CookieLives
  <2>3. k \in Handlers \ {h}
    BY <2>1, <2>2 DEF CallsOf, Busy
  <2> QED BY <1>5, <2>1, <2>2, <2>3 DEF CallsOf, Busy
<1> QED BY <1>9, <1>10, <1>11, <1>12 DEF Placed

LEMMA TimePlaced ==
    ASSUME TypeOK, Placed, ~troubled, ~troubled',
           \/ \E p \in Phones : DropCookie(p)
           \/ \E i \in TokenIds : ExpireRow(i)
    PROVE  Placed'
<1>1. /\ \A p \in Phones : cookie'[p] = cookie[p] \/ cookie'[p] = NoToken
      /\ \A i \in TokenIds :
            row'[i] # row[i] => row[i] # "revoked" /\ row'[i] = "expired"
      /\ serve' = serve
  <2>1. CASE \E p \in Phones : DropCookie(p)
    <3>1. PICK p \in Phones : DropCookie(p)
      BY <2>1
    <3> QED BY <3>1 DEF DropCookie, TypeOK
  <2>2. CASE \E i \in TokenIds : ExpireRow(i)
    <3>1. PICK i \in TokenIds : ExpireRow(i)
      BY <2>2
    <3>2. row[i] = "live" /\ row' = [row EXCEPT ![i] = "expired"]
      BY <3>1 DEF ExpireRow
    <3>3. \A j \in TokenIds :
              row'[j] # row[j] => row[j] # "revoked" /\ row'[j] = "expired"
      BY <3>2 DEF TypeOK
    <3>4. cookie' = cookie /\ serve' = serve
      BY <3>1 DEF ExpireRow
    <3> QED BY <3>3, <3>4
  <2> QED BY <2>1, <2>2
<1>2. \A k \in Handlers : HandlerInv(k)'
  <2> SUFFICES ASSUME NEW k \in Handlers PROVE HandlerInv(k)'
    OBVIOUS
  <2>1. HandlerInv(k) /\ serve[k] \in Served
    BY DEF Placed, TypeOK
  <2>2. \A t \in Tabs : cookie'[Phone(t)] \in {cookie[Phone(t)], NoToken}
    BY <1>1, SessionAssumption DEF Phone
  <2> QED BY <1>1, <2>1, <2>2 DEF HandlerInv, Served, Cookies, Phone
<1>3. \A k \in Handlers : Elsewhere(k)'
  BY <1>1 DEF Placed, Elsewhere, Phone
<1>4. \A k, m \in Handlers : k # m => Apart(k, m)'
  BY <1>1 DEF Placed, Apart, Busy
<1>5. CookiesApart'
  BY <1>1 DEF Placed, CookiesApart
<1>6. CookieLives'
  <2>1. \A p \in Phones : cookie'[p] # NoToken /\ row'[cookie'[p]] = "revoked"
            => cookie'[p] = cookie[p] /\ row[cookie[p]] = "revoked"
    BY <1>1 DEF TypeOK, Cookies
  <2> QED BY <1>1, <2>1 DEF Placed, CookieLives, CallsOf, Busy
<1> QED BY <1>2, <1>3, <1>4, <1>5, <1>6 DEF Placed

LEMMA StillPlaced ==
    ASSUME Placed, ~troubled, UNCHANGED <<row, cookie, serve>>
    PROVE  Placed'
BY DEF Placed, HandlerInv, Elsewhere, Apart, CookiesApart, CookieLives, CallsOf,
       Busy, Phone

-----------------------------------------------------------------------------
(* The theorems *)

LEMMA SessionInvInit == Init => SessionInv
<1> SUFFICES ASSUME Init PROVE SessionInv
  OBVIOUS
<1>1. TypeOK
  BY TypeInit
<1>2. RepeatsAreFresh
  BY DEF Init, RepeatsAreFresh
<1>3. Placed
  BY DEF Init, Placed, HandlerInv, Elsewhere, Apart, CookiesApart, CookieLives,
         Idle, Busy
<1> QED BY <1>1, <1>2, <1>3 DEF SessionInv

LEMMA TroubleStays == TypeOK /\ [Next]_vars /\ troubled => troubled'
BY DEF Next, vars, Handle, Send, Answered, Refresh, Calls, Lost, Login, Find,
       Alarm, Revoke, Create, Answer, Lose, Reload, Unheard, ExpireAccess,
       DropCookie, ExpireRow

LEMMA PlacedStep ==
    ASSUME SessionInv, [Next]_vars, ~troubled'
    PROVE  Placed'
<1>1. TypeOK /\ ~troubled /\ Placed
  BY TroubleStays DEF SessionInv
<1>2. ASSUME NEW r \in Requests, Send(r) \/ Answered(r) \/ Lost(r)
      PROVE  Placed'
  BY <1>1, <1>2, StillPlaced DEF Send, Answered, Lost
<1>3. ASSUME NEW r \in Requests, Refresh(r) PROVE Placed'
  <2>1. CASE serve' = serve
    BY <1>1, <1>3, <2>1, StillPlaced DEF Refresh
  <2>2. CASE serve' # serve
    <3>1. PICK h \in Handlers : Calls(TabOf[r], h, FALSE)
      BY <1>3, <2>2 DEF Refresh
    <3>2. /\ Refreshing(TabOf[r]) = {} /\ UNCHANGED <<row, cookie>>
          /\ TabOf[r] \in Tabs
      BY <1>3, <2>2, SessionAssumption DEF Refresh
    <3> QED BY <1>1, <3>1, <3>2, StartPlaced
  <2> QED BY <2>1, <2>2
<1>4. ASSUME NEW t \in Tabs, Login(t) PROVE Placed'
  <2>1. PICK h \in Handlers : Calls(t, h, TRUE)
    BY <1>4 DEF Login
  <2>2. LoggingIn(t) = {} /\ UNCHANGED <<row, cookie>>
    BY <1>4 DEF Login
  <2> QED BY <1>1, <2>1, <2>2, StartPlaced
<1>5. ASSUME NEW t \in Tabs, Reload(t) PROVE Placed'
  <2>1. Refreshing(t) = {}
    BY <1>1, <1>5 DEF Reload
  <2>2. \A k \in Handlers : serve[k].tab = t => serve[k].login
    BY <1>1, <2>1, SessionAssumption
    DEF Refreshing, Busy, Placed, HandlerInv, Idle
  <2>3. Fades
    BY <1>5, <2>2 DEF Reload, Fades
  <2> QED BY <1>1, <2>3, FadesPlaced
<1>6. ASSUME NEW h \in Handlers, Handle(h) PROVE Placed'
  <2>1. CASE Find(h)
    BY <1>1, <2>1, FindPlaced
  <2>2. CASE Alarm(h)
    BY <1>1, <2>2 DEF Alarm, Placed, HandlerInv
  <2>3. CASE Revoke(h)
    BY <1>1, <2>3, RevokePlaced
  <2>4. CASE Create(h)
    BY <1>1, <2>4, CreatePlaced
  <2>5. CASE Unheard(h)
    <3>1. serve[h].login
      BY <1>1, <2>5, SessionAssumption DEF Unheard, Placed, HandlerInv
    <3>2. Fades
      BY <1>1, <2>5, <3>1 DEF Unheard, Fades, TypeOK
    <3> QED BY <1>1, <3>2, FadesPlaced
  <2> QED BY <1>6, <2>1, <2>2, <2>3, <2>4, <2>5 DEF Handle
<1>7. ASSUME NEW h \in Handlers, Answer(h) PROVE Placed'
  BY <1>1, <1>7, AnswerPlaced
<1>8. ASSUME NEW h \in Handlers, Lose(h) PROVE Placed'
  <2>1. serve[h].login
    BY <1>1, <1>8 DEF Lose, TypeOK, Served
  <2>2. Fades
    BY <1>1, <1>8, <2>1 DEF Lose, Gone, Fades, TypeOK
  <2> QED BY <1>1, <2>2, FadesPlaced
<1>9. ASSUME NEW p \in Phones, ExpireAccess(p) PROVE Placed'
  BY <1>1, <1>9, StillPlaced DEF ExpireAccess
<1>10. ASSUME NEW p \in Phones, DropCookie(p) PROVE Placed'
  BY <1>1, <1>10, TimePlaced
<1>11. ASSUME NEW i \in TokenIds, ExpireRow(i) PROVE Placed'
  BY <1>1, <1>11, TimePlaced
<1>12. CASE UNCHANGED vars
  BY <1>1, <1>12, StillPlaced DEF vars
<1> QED BY <1>2, <1>3, <1>4, <1>5, <1>6, <1>7, <1>8, <1>9, <1>10, <1>11,
           <1>12 DEF Next

LEMMA RepeatsStep == SessionInv /\ [Next]_vars => RepeatsAreFresh'
<1> SUFFICES ASSUME SessionInv, [Next]_vars PROVE RepeatsAreFresh'
  OBVIOUS
<1>1. TypeOK /\ RepeatsAreFresh
  BY DEF SessionInv
<1>2. ASSUME NEW r \in Requests,
             Send(r) \/ Answered(r) \/ Lost(r) \/ Refresh(r)
      PROVE  RepeatsAreFresh'
  <2> DEFINE e == req'[r]
  <2>1. \A q \in Requests \ {r} : req'[q] = req[q]
    BY <1>1, <1>2 DEF TypeOK, Send, Answered, Lost, Refresh, Ends, Waits
  <2>2. e.pc # "sent" \/ ~e.again
    <3>1. CASE Send(r)
      BY <1>1, <3>1 DEF TypeOK, Send
    <3>2. CASE Answered(r) \/ Lost(r)
      BY <1>1, <3>2 DEF TypeOK, Answered, Lost, Ends
    <3>3. CASE Refresh(r)
      BY <1>1, <3>3 DEF TypeOK, Request, Refresh, Waits
    <3> QED BY <1>2, <3>1, <3>2, <3>3
  <2> QED BY <1>1, <2>1, <2>2 DEF RepeatsAreFresh
<1>3. ASSUME NEW h \in Handlers, Answer(h) \/ Lose(h) PROVE RepeatsAreFresh'
  <2>1. \A t : \A r \in Requests :
            Resent(t)[r].pc = "sent" /\ Resent(t)[r].again
            => Resent(t)[r].carried = "good"
    BY <1>1 DEF Resent, RepeatsAreFresh
  <2>2. \A t : \A r \in Requests :
            GivenUp(t)[r].pc = "sent" /\ GivenUp(t)[r].again
            => GivenUp(t)[r].carried = "good"
    BY <1>1 DEF GivenUp, RepeatsAreFresh
  <2>3. \/ req' = req \/ req' = Resent(serve[h].tab)
        \/ req' = GivenUp(serve[h].tab)
    BY <1>3 DEF Answer, Lose, Failed
  <2> QED BY <1>1, <2>1, <2>2, <2>3 DEF RepeatsAreFresh
<1>4. ASSUME NEW t \in Tabs, Reload(t) PROVE RepeatsAreFresh'
  BY <1>1, <1>4 DEF RepeatsAreFresh, Reload
<1>5. ASSUME NEW p \in Phones, ExpireAccess(p) PROVE RepeatsAreFresh'
  <2>1. \A r \in Requests : req'[r] # req[r] => req'[r].again = req[r].again
                                               /\ ~req[r].again
    BY <1>1, <1>5 DEF TypeOK, Request, ExpireAccess
  <2> QED BY <1>1, <2>1 DEF RepeatsAreFresh
<1>6. CASE req' = req
  BY <1>1, <1>6 DEF RepeatsAreFresh
<1> QED BY <1>2, <1>3, <1>4, <1>5, <1>6
        DEF Next, vars, Handle, Login, Find, Alarm, Revoke, Create, Unheard,
            DropCookie, ExpireRow

LEMMA SessionInvariant == Spec => []SessionInv
<1>1. SessionInv /\ [Next]_vars => SessionInv'
  BY TypeStep, RepeatsStep, PlacedStep DEF SessionInv
<1> QED BY <1>1, SessionInvInit, PTL DEF Spec

(* As long as no answer is lost, no statement fails and the tabs of a phone *)
(* take turns, Refresh never takes a cookie for stolen (users/handler.go:   *)
(* Refresh; apiClient.ts: refreshToken).                                    *)
THEOREM NoAlarm == Spec => []NoFalseAlarm
<1>1. SessionInv => NoFalseAlarm
  BY DEF SessionInv, Placed, HandlerInv, NoFalseAlarm
<1> QED BY <1>1, SessionInvariant, PTL

(* ... and the cookie of no phone is left revoked (users/handler.go:        *)
(* Refresh, setRefreshCookie).                                              *)
THEOREM CookiesLive == Spec => []CookieLives
<1>1. SessionInv => CookieLives
  BY DEF SessionInv, Placed, CookieLives
<1> QED BY <1>1, SessionInvariant, PTL

(* ... and a request that had a token is refused only when its session is   *)
(* over (apiClient.ts: fetchWithRefresh).                                   *)
LEMMA DeniedStep ==
    ASSUME SessionInv, [Next]_vars, NEW r \in Requests,
           req[r].pc \in {"sent", "joined"}, req[r].carried # "none",
           req'[r].pc = "denied", ~troubled'
    PROVE  SessionOver(Phone(TabOf[r]))
<1> DEFINE p == Phone(TabOf[r])
<1>1. TypeOK /\ ~troubled /\ Placed /\ RepeatsAreFresh
  BY TroubleStays DEF SessionInv
<1>2. TabOf[r] \in Tabs /\ p \in Phones
  BY SessionAssumption DEF Phone
<1>3. PICK h \in Handlers : /\ Answer(h) \/ Lose(h)
                            /\ req' = GivenUp(serve[h].tab)
                            /\ ~serve[h].login
  <2>1. ASSUME NEW q \in Requests,
               Send(q) \/ Answered(q) \/ Refresh(q) \/ Lost(q)
        PROVE  FALSE
    <3>1. CASE q # r
      BY <1>1, <2>1, <3>1
      DEF TypeOK, Send, Answered, Refresh, Lost, Ends, Waits
    <3>2. CASE q = r
      <4>1. ~Send(r) /\ ~Lost(r) /\ ~Refresh(r)
        <5>1. ~Send(r)
          BY DEF Send
        <5>2. ~Lost(r)
          BY <1>1 DEF TypeOK, Lost, Ends
        <5>3. ~Refresh(r)
          BY <1>1 DEF TypeOK, Request, Refresh, Waits
        <5> QED BY <5>1, <5>2, <5>3
      <4>2. ~Answered(r)
        BY <1>1 DEF TypeOK, Answered, Ends, RepeatsAreFresh
      <4> QED BY <2>1, <3>2, <4>1, <4>2
    <3> QED BY <3>1, <3>2
  <2>2. ASSUME NEW t \in Tabs, Reload(t) PROVE FALSE
    BY <2>2 DEF Reload
  <2>3. ASSUME NEW q \in Phones, ExpireAccess(q) PROVE FALSE
    BY <1>1, <2>3 DEF ExpireAccess, TypeOK, Request
  <2>4. req' # req
    OBVIOUS
  <2>5. PICK h \in Handlers : Answer(h) \/ Lose(h)
    BY <2>1, <2>2, <2>3, <2>4
    DEF Next, vars, Handle, Login, Find, Alarm, Revoke, Create, Unheard,
        DropCookie, ExpireRow
  <2>6. req' # Resent(serve[h].tab)
    BY DEF Resent
  <2> QED BY <2>4, <2>5, <2>6 DEF Answer, Lose, Failed
<1>4. TabOf[r] = serve[h].tab
  BY <1>3 DEF GivenUp, Of
<1>5. Answer(h) /\ HandlerInv(h) /\ serve[h].pc \in {"clear", "deny"}
  <2>1. Answer(h)
    BY <1>1, <1>3 DEF Lose
  <2>2. serve[h].pc # "grant"
    BY <1>3, <1>4, <2>1 DEF Answer, Resent, GivenUp, Of
  <2> QED BY <1>1, <2>1, <2>2 DEF Answer, Placed
<1>6. cookie[p] \in {serve[h].presented, NoToken}
  BY <1>3, <1>4, <1>5 DEF HandlerInv
<1> QED BY <1>5, <1>6 DEF HandlerInv, SessionOver

(* ... and a request that had a token is refused only when its session is   *)
(* over (apiClient.ts: fetchWithRefresh).                                   *)
THEOREM DeniedLate == Spec => DeniedMeansOver
<1>1. SessionInv /\ [Next]_vars =>
          [ \A r \in Requests :
                /\ req[r].pc \in {"sent", "joined"} /\ req[r].carried # "none"
                /\ req'[r].pc = "denied" /\ ~troubled'
                => SessionOver(Phone(TabOf[r])) ]_vars
  BY DeniedStep
<1> QED BY <1>1, SessionInvariant, PTL DEF Spec, DeniedMeansOver
=============================================================================
