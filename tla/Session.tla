------------------------------- MODULE Session -------------------------------
(* How a phone stays logged in: the access token in localStorage, the       *)
(* refresh token in a cookie, the client that renews the one with the other *)
(* (apiClient.ts), and the server that rotates the cookie on every use and  *)
(* takes a second use for theft (users/handler.go).  Everybody logs in as   *)
(* one shared user, so the family of tokens an alarm revokes is everyone's. *)
(*                                                                          *)
(* A Refresh or a Login handler is at a "pc" between two statements of the  *)
(* database or, at its end, between its answer and the phone; the tabs of   *)
(* one phone share token and cookie and have an ApiClient each.             *)
CONSTANTS
    Phones, Tabs, Requests,
    PhoneOf, TabOf,      \* the phone of a tab, the tab of a request
    Handlers,            \* Refresh and Login handlers that may run at once
    TokenIds,            \* refresh tokens; one that nobody holds is used again
    NoToken, NoTab

ASSUME SessionAssumption ==
    /\ PhoneOf \in [Tabs -> Phones] /\ TabOf \in [Requests -> Tabs]
    /\ NoToken \notin TokenIds /\ NoTab \notin Tabs

VARIABLES
    row,       \* refresh_tokens: what its columns make of each token
    cookie,    \* each phone's refresh cookie
    token,     \* each phone's access token
    req,       \* the requests under way
    serve,     \* the handlers under way
    troubled   \* something went wrong that no code here can mend (history)

vars == <<row, cookie, token, req, serve, troubled>>

Access == {"none", "good", "expired"}
Cookies == TokenIds \cup {NoToken}

(* A request is on its way, waits for the shared refresh, or has ended.     *)
Request == [pc : {"ended", "denied", "sent", "joined"},
            carried : Access, again : BOOLEAN]

Served == [pc : {"idle", "find", "alarm", "revoke", "create", "grant",
                 "clear", "deny"},
           login : BOOLEAN, tab : Tabs \cup {NoTab},
           presented : Cookies, fresh : Cookies]

Idle == [pc |-> "idle", login |-> FALSE, tab |-> NoTab,
         presented |-> NoToken, fresh |-> NoToken]

Busy == {h \in Handlers : serve[h].pc # "idle"}
Phone(t) == PhoneOf[t]
Of(t) == {r \in Requests : TabOf[r] = t}

(* refreshPromise of a tab's client *)
Refreshing(t) == {h \in Busy : serve[h].tab = t /\ ~serve[h].login}
LoggingIn(t) == {h \in Busy : serve[h].tab = t /\ serve[h].login}
CallsOf(p) == {h \in Busy : \E t \in Tabs : serve[h].tab = t /\ Phone(t) = p}

Held == {cookie[p] : p \in Phones}
        \cup UNION {{serve[h].presented, serve[h].fresh} : h \in Handlers}

Init ==
    /\ row = [i \in TokenIds |-> "revoked"]
    /\ cookie = [p \in Phones |-> NoToken]
    /\ token = [p \in Phones |-> "none"]
    /\ req = [r \in Requests |-> [pc |-> "ended", carried |-> "none",
                                  again |-> FALSE]]
    /\ serve = [h \in Handlers |-> Idle]
    /\ troubled = FALSE

-----------------------------------------------------------------------------
(* The client: apiClient.ts *)

Ends(r, how) == req' = [req EXCEPT ![r] = [pc |-> how, carried |-> "none",
                                           again |-> FALSE]]

Send(r) ==
    /\ req[r].pc \notin {"sent", "joined"}
    /\ req' = [req EXCEPT ![r] = [pc |-> "sent", again |-> FALSE,
                                  carried |-> token[Phone(TabOf[r])]]]
    /\ UNCHANGED <<row, cookie, token, serve, troubled>>

(* The two kinds of answer of RequireAuth that end a request: it is let     *)
(* through, or refused for good.                                            *)
Answered(r) ==
    /\ req[r].pc = "sent"
    /\ \/ req[r].carried = "good" /\ Ends(r, "ended") /\ UNCHANGED troubled
       \/ req[r].carried = "good" /\ Ends(r, "denied") /\ troubled' = TRUE
       \/ /\ \/ req[r].carried = "none"
             \/ req[r].carried = "expired" /\ req[r].again
          /\ Ends(r, "denied") /\ UNCHANGED troubled
    /\ UNCHANGED <<row, cookie, token, serve>>

Waits(r) == req' = [req EXCEPT ![r].pc = "joined"]

(* Two tabs of a phone call at once, or a login meets a refresh: nothing    *)
(* keeps them apart.                                                        *)
Crossing(t, login) ==
    \E h \in CallsOf(Phone(t)) : serve[h].tab # t \/ serve[h].login # login

Calls(t, h, login) ==
    /\ h \notin Busy
    /\ serve' = [serve EXCEPT ![h] =
          [pc |-> IF login THEN "create" ELSE "find", login |-> login,
           tab |-> t, fresh |-> NoToken,
           presented |-> IF login THEN NoToken ELSE cookie[Phone(t)]]]
    /\ troubled' = (troubled \/ Crossing(t, login))

SlipRefresh(r) ==
    /\ req[r].pc = "sent" /\ req[r].carried = "expired" /\ ~req[r].again
    /\ Waits(r)
    /\ \E h \in Handlers : Calls(TabOf[r], h, FALSE)
    /\ UNCHANGED <<row, cookie, token>>

(* 401 with token_expired: the client joins the refresh that is under way   *)
(* in its tab, or starts one.                                               *)
Refresh(r) ==
    /\ req[r].pc = "sent" /\ req[r].carried = "expired" /\ ~req[r].again
    /\ Waits(r)
    /\ \/ /\ Refreshing(TabOf[r]) # {}
          /\ UNCHANGED <<serve, troubled>>
       \/ /\ Refreshing(TabOf[r]) = {}
          /\ \E h \in Handlers : Calls(TabOf[r], h, FALSE)
    /\ UNCHANGED <<row, cookie, token>>

(* The network fails: no word for the caller. *)
Lost(r) ==
    /\ req[r].pc = "sent"
    /\ Ends(r, "ended")
    /\ UNCHANGED <<row, cookie, token, serve, troubled>>

(* The login screen, where a 401 or the lack of a token leads. *)
Login(t) ==
    /\ LoggingIn(t) = {}
    /\ token[Phone(t)] = "none" \/ \E r \in Of(t) : req[r].pc = "denied"
    /\ \E h \in Handlers : Calls(t, h, TRUE)
    /\ UNCHANGED <<row, cookie, token, req>>

SlipResent(t) ==
    [r \in Requests |-> IF r \in Of(t) /\ req[r].pc = "joined"
        THEN [pc |-> "sent", carried |-> req[r].carried, again |-> TRUE]
        ELSE req[r]]

(* What the callers that share a refresh do once it has ended: send the     *)
(* request once more with the new token, or give up with the old 401.       *)
Resent(t) ==
    [r \in Requests |-> IF r \in Of(t) /\ req[r].pc = "joined"
        THEN [pc |-> "sent", carried |-> "good", again |-> TRUE] ELSE req[r]]
GivenUp(t) ==
    [r \in Requests |-> IF r \in Of(t) /\ req[r].pc = "joined"
        THEN [pc |-> "denied", carried |-> "none", again |-> FALSE] ELSE req[r]]

(* A refresh that failed clears the token if anybody waited for it; a login *)
(* that failed changes nothing.                                             *)
Failed(t, login) ==
    IF login THEN UNCHANGED <<token, req>>
    ELSE /\ token' = [token EXCEPT ![Phone(t)] = "none"]
         /\ req' = GivenUp(t)

-----------------------------------------------------------------------------
(* The server: Refresh and Login *)

Goes(h, pc) == serve' = [serve EXCEPT ![h].pc = pc]

(* FindRefreshTokenByHash and the checks after it: a revoked token is       *)
(* judged before an expired one.                                            *)
Find(h) ==
    LET i == serve[h].presented IN
    /\ serve[h].pc = "find"
    /\ \/ /\ i = NoToken /\ Goes(h, "deny") /\ UNCHANGED troubled
       \/ /\ i # NoToken
          /\ Goes(h, CASE row[i] = "revoked" -> "alarm"
                       [] row[i] = "expired" -> "clear"
                       [] OTHER -> "revoke")
          /\ UNCHANGED troubled
       \/ i # NoToken /\ Goes(h, "deny") /\ troubled' = TRUE
    /\ UNCHANGED <<row, cookie, token, req>>

(* RevokeRefreshTokensForUser, whose failure nobody looks at. *)
Alarm(h) ==
    /\ serve[h].pc = "alarm"
    /\ \/ row' = [i \in TokenIds |-> "revoked"]
       \/ UNCHANGED row
    /\ Goes(h, "clear")
    /\ UNCHANGED <<cookie, token, req, troubled>>

(* RevokeRefreshToken: by its id, whatever has become of it since Find. *)
Revoke(h) ==
    /\ serve[h].pc = "revoke"
    /\ \/ /\ row' = [row EXCEPT ![serve[h].presented] = "revoked"]
          /\ Goes(h, "create") /\ UNCHANGED troubled
       \/ Goes(h, "deny") /\ troubled' = TRUE /\ UNCHANGED row
    /\ UNCHANGED <<cookie, token, req>>

(* The user is read, an access token issued and a refresh token stored. *)
Create(h) ==
    /\ serve[h].pc = "create"
    /\ \/ \E i \in TokenIds \ Held :
             /\ row' = [row EXCEPT ![i] = "live"]
             /\ serve' = [serve EXCEPT ![h].pc = "grant", ![h].fresh = i]
             /\ UNCHANGED troubled
       \/ Goes(h, "deny") /\ troubled' = TRUE /\ UNCHANGED row
    /\ UNCHANGED <<cookie, token, req>>

SlipCookieLost(h) ==
    LET t == serve[h].tab IN
    CASE serve[h].login -> [cookie EXCEPT ![Phone(t)] = serve[h].fresh]
      [] serve[h].pc = "clear" -> [cookie EXCEPT ![Phone(t)] = NoToken]
      [] OTHER -> cookie

SlipCookieEmpty(h) ==
    LET t == serve[h].tab IN
    CASE serve[h].pc = "grant" -> [cookie EXCEPT ![Phone(t)] = serve[h].fresh]
      [] serve[h].pc = "clear" -> [cookie EXCEPT ![Phone(t)] = "empty"]
      [] OTHER -> cookie

(* setRefreshCookie, clearRefreshCookie, or neither *)
CookieAfter(h) ==
    LET t == serve[h].tab IN
    CASE serve[h].pc = "grant" -> [cookie EXCEPT ![Phone(t)] = serve[h].fresh]
      [] serve[h].pc = "clear" -> [cookie EXCEPT ![Phone(t)] = NoToken]
      [] OTHER -> cookie

(* The answer reaches the phone, its cookie first. *)
Answer(h) ==
    LET t == serve[h].tab IN
    /\ t # NoTab
    /\ serve[h].pc \in {"grant", "clear", "deny"}
    /\ serve' = [serve EXCEPT ![h] = Idle]
    /\ cookie' = CookieAfter(h)
    /\ IF serve[h].pc = "grant"
       THEN /\ token' = [token EXCEPT ![Phone(t)] = "good"]
            /\ IF serve[h].login THEN UNCHANGED req ELSE req' = Resent(t)
       ELSE Failed(t, serve[h].login)
    /\ UNCHANGED <<row, troubled>>

(* The connection breaks.  The handler may run on, or have died with it.    *)
Gone(h) == {[serve[h] EXCEPT !.tab = NoTab], Idle}

Lose(h) ==
    LET t == serve[h].tab IN
    /\ h \in Busy /\ t # NoTab
    /\ Failed(t, serve[h].login)
    /\ \E s \in Gone(h) : serve' = [serve EXCEPT ![h] = s]
    /\ troubled' = (troubled \/ ~serve[h].login)
    /\ UNCHANGED <<row, cookie>>

(* The page is reloaded: its callers are gone, its calls may run on. *)
Reload(t) ==
    /\ req' = [r \in Requests |-> IF r \in Of(t)
                  THEN [pc |-> "ended", carried |-> "none", again |-> FALSE]
                  ELSE req[r]]
    /\ serve' = [h \in Handlers |-> IF serve[h].tab = t
                    THEN [serve[h] EXCEPT !.tab = NoTab] ELSE serve[h]]
    /\ troubled' = (troubled \/ Refreshing(t) # {})
    /\ UNCHANGED <<row, cookie, token>>

(* The last step of a handler whose answer nobody waits for. *)
Unheard(h) ==
    /\ serve[h].tab = NoTab /\ serve[h].pc \in {"grant", "clear", "deny"}
    /\ serve' = [serve EXCEPT ![h] = Idle]
    /\ UNCHANGED <<row, cookie, token, req, troubled>>

-----------------------------------------------------------------------------
(* Time, and the specification *)

(* A day passes, with every access token the phone has sent out.  No        *)
(* request takes a day from the renewal that repeats it.                    *)
ExpireAccess(p) ==
    LET Mine == {r \in Requests : Phone(TabOf[r]) = p /\ req[r].pc = "sent"} IN
    /\ token[p] = "good" /\ \A r \in Mine : ~req[r].again
    /\ token' = [token EXCEPT ![p] = "expired"]
    /\ req' = [r \in Requests |-> IF r \in Mine /\ req[r].carried = "good"
                  THEN [req[r] EXCEPT !.carried = "expired"] ELSE req[r]]
    /\ UNCHANGED <<row, cookie, serve, troubled>>

(* A month passes, and some time the browser drops the cookie. *)
ExpireRow(i) ==
    /\ i \in Held /\ row[i] = "live"
    /\ row' = [row EXCEPT ![i] = "expired"]
    /\ UNCHANGED <<cookie, token, req, serve, troubled>>

DropCookie(p) ==
    /\ cookie[p] # NoToken /\ row[cookie[p]] = "expired"
    /\ cookie' = [cookie EXCEPT ![p] = NoToken]
    /\ UNCHANGED <<row, token, req, serve, troubled>>

Handle(h) == Find(h) \/ Alarm(h) \/ Revoke(h) \/ Create(h) \/ Unheard(h)

Next ==
    \/ \E r \in Requests : Send(r) \/ Answered(r) \/ Refresh(r) \/ Lost(r)
    \/ \E t \in Tabs : Login(t) \/ Reload(t)
    \/ \E h \in Handlers : Handle(h) \/ Answer(h) \/ Lose(h)
    \/ \E p \in Phones : ExpireAccess(p) \/ DropCookie(p)
    \/ \E i \in TokenIds : ExpireRow(i)

Spec == Init /\ [][Next]_vars

-----------------------------------------------------------------------------
(* What logging in promises *)

(* Every variable has its type. *)
TypeOK ==
    /\ row \in [TokenIds -> {"live", "expired", "revoked"}]
    /\ cookie \in [Phones -> Cookies] /\ token \in [Phones -> Access]
    /\ req \in [Requests -> Request] /\ serve \in [Handlers -> Served]
    /\ troubled \in BOOLEAN

(* As long as no answer is lost, no statement fails and the tabs of a phone *)
(* take turns, no refresh is ever taken for theft, whatever the requests of *)
(* a tab do to each other (apiClient.ts: "Coalesces concurrent 401s onto    *)
(* one refresh call instead of each one racing the backend's token          *)
(* rotation").                                                              *)
NoFalseAlarm == ~troubled => \A h \in Handlers : serve[h].pc # "alarm"

(* ... and no phone is left with a cookie the server has revoked, but for   *)
(* the time in which the phone's own refresh is replacing it.               *)
CookieLives ==
    ~troubled =>
        \A p \in Phones :
            /\ cookie[p] # NoToken /\ row[cookie[p]] = "revoked"
            => \E h \in CallsOf(p) : /\ serve[h].presented = cookie[p]
                                     /\ serve[h].pc \in {"create", "grant"}

SessionOver(p) == cookie[p] = NoToken \/ row[cookie[p]] = "expired"

(* ... and a request that had a token is refused only when the month of its *)
(* session is over: whatever it waited for, its caller is not sent to the   *)
(* login screen before (apiClient.ts: transparently survives an expired     *)
(* access token).                                                           *)
DeniedMeansOver ==
    [][ \A r \in Requests :
            /\ req[r].pc \in {"sent", "joined"} /\ req[r].carried # "none"
            /\ req'[r].pc = "denied" /\ ~troubled'
            => SessionOver(Phone(TabOf[r])) ]_vars
=============================================================================
