------------------------------- MODULE AuthSessions -------------------------------
(***************************************************************************)
(* The sessions of one user: auth_service.py and auth_repository.py at the *)
(* level of the row locks their statements take, the bearer dependency of  *)
(* api/deps.py, and the browser that shares one refresh cookie among its   *)
(* tabs (frontend/lib/auth-refresh-coordinator.ts, lib/api.ts and          *)
(* components/providers/auth-provider.tsx).                                *)
(*                                                                         *)
(* PostgreSQL runs the requests under READ COMMITTED.  A request takes its *)
(* rows one after the other, its writes become visible when it commits,    *)
(* and of a cycle of waiting requests one is aborted.                      *)
(***************************************************************************)
EXTENDS Integers, Sequences, FiniteSets

CONSTANTS
    Tabs,       \* tabs of the browser; they share the refresh cookie
    Clients,    \* callers of logout and logout-all with a bearer token
    MaxRefreshTokens, \* bound on the refresh tokens that are issued
    MaxFaults   \* bound on lost answers and expired sessions together

ASSUME AuthAssumption ==
    /\ Tabs # {} /\ Tabs \cap Clients = {}
    /\ MaxRefreshTokens \in Nat /\ MaxFaults \in Nat

VARIABLES
    version,    \* users.token_version
    session,    \* auth_sessions, in the order they were created
    token,      \* refresh_tokens, in the order they were issued
    access,     \* access tokens that were issued: session and version
    req,        \* the request each tab or client has at the server
    held,       \* the rows each request has locked
    answer,     \* the answer on its way to a tab
    cookie,     \* the refresh cookie of the browser, 0 when there is none
    view,       \* AuthProvider's status; "bootstrapping" is anonymous with a flight
    flight,     \* where a tab's login or refresh stands
    peerDone,   \* tabs whose channel has heard "refresh-succeeded"
    lost,       \* number of lost answers
    webLocks    \* the browser has navigator.locks

serverVars == <<version, session, token, access, req, held>>
tabVars    == <<answer, cookie, view, flight, peerDone, lost, webLocks>>
authVars   == <<serverVars, tabVars>>

Proc  == Tabs \cup Clients
NoReq == [kind |-> "none", pc |-> "idle", sid |-> 0, tok |-> 0, ver |-> 0,
          ids |-> {}, deaf |-> FALSE]
NoAnswer == [res |-> "none", tok |-> 0]

AuthInit ==
    /\ version = 1
    /\ session = <<>> /\ token = <<>> /\ access = {}
    /\ req = [p \in Proc |-> NoReq]
    /\ held = [p \in Proc |-> {}]
    /\ answer = [t \in Tabs |-> NoAnswer]
    /\ cookie = 0
    /\ view = [t \in Tabs |-> "anonymous"]
    /\ flight = [t \in Tabs |-> "none"]
    /\ peerDone = {}
    /\ lost = 0
    /\ webLocks \in BOOLEAN

-----------------------------------------------------------------------------------
(* Rows and locks. *)

UserRow       == <<"user", 0>>
SessionRow(s) == <<"session", s>>
TokenRow(i)   == <<"token", i>>

\* The token rows revoke_session and revoke_all_user_sessions update.
Unrevoked(ids) == {i \in DOMAIN token : token[i].sid \in ids /\ ~token[i].revoked}

\* The rows the current statement of a request still has to lock.
Wanted(p) ==
    LET r == req[p] IN
    CASE r.pc = "token"    -> {TokenRow(r.tok)}
      [] r.pc = "session"  -> {SessionRow(r.sid)}
      [] r.pc = "user"     -> {UserRow}
      [] r.pc = "sessions" -> {SessionRow(s) : s \in r.ids} \ held[p]
      [] r.pc = "tokens"   -> {TokenRow(i) : i \in Unrevoked(r.ids)} \ held[p]
      [] OTHER             -> {}

\* An UPDATE of several rows locks them one by one, in the order of the table.
NextRow(p)  == CHOOSE row \in Wanted(p) : \A other \in Wanted(p) : row[2] <= other[2]
Holders(p)  == {q \in Proc \ {p} : NextRow(p) \in held[q]}
Waits(p)    == Wanted(p) # {} /\ Holders(p) # {}
CanLock(p)  == Wanted(p) # {} /\ Holders(p) = {}
Lock(p)     == held' = [held EXCEPT ![p] = @ \cup {NextRow(p)}]

\* Every row has one holder, so a set of waiting requests that block exactly each
\* other is a set of cycles; PostgreSQL aborts one request of each.
Deadlocked(p) ==
    \E C \in SUBSET {q \in Proc : Waits(q)} :
        p \in C /\ UNION {Holders(q) : q \in C} = C

Reach(p, pc)  == req' = [req EXCEPT ![p].pc = pc]

\* A request ends, by commit or rollback, and its locks go; a tab is answered unless
\* it no longer listens.
End(p, res, tok) ==
    /\ req' = [req EXCEPT ![p] = NoReq]
    /\ held' = [held EXCEPT ![p] = {}]
    /\ IF p \in Tabs /\ ~req[p].deaf
       THEN answer' = [answer EXCEPT ![p] = [res |-> res, tok |-> tok]]
       ELSE UNCHANGED answer
    /\ UNCHANGED <<cookie, view, flight, peerDone, lost, webLocks>>

Refuse(p, res) == End(p, res, req[p].tok) /\ UNCHANGED <<version, session, token, access>>

NewSession  == [status |-> "active", reason |-> "none", expired |-> FALSE]
NewToken(s) == [sid |-> s, used |-> FALSE, aged |-> FALSE, revoked |-> FALSE]
Valid(s)    == session[s].status = "active" /\ ~session[s].expired

-----------------------------------------------------------------------------------
(* The endpoints. *)

\* login: last_login_at is written to the user row first, which waits for its lock;
\* the access token carries the version read before that.
LoginCommits(p) ==
    LET s == Len(session) + 1  i == Len(token) + 1 IN
    /\ req[p].kind = "login" /\ req[p].pc = "user" /\ CanLock(p)
    /\ session' = Append(session, NewSession)
    /\ token' = Append(token, NewToken(s))
    /\ access' = access \cup {[sid |-> s, ver |-> req[p].ver]}
    /\ End(p, "ok", i)
    /\ UNCHANGED version

\* refresh: SELECT ... FOR UPDATE of the presented token, then of its session.
RefreshLocksToken(p) ==
    /\ req[p].pc = "token" /\ CanLock(p) /\ Lock(p)
    /\ req' = [req EXCEPT ![p] = [@ EXCEPT !.pc = "session", !.sid = token[req[p].tok].sid]]
    /\ UNCHANGED <<version, session, token, access, tabVars>>

\* Deviation: within the grace period a used token is exchanged once more.
LenientVerdict(t, s) ==
    IF ~Valid(s) \/ t.revoked THEN "invalid"
    ELSE IF ~t.used           THEN "rotate"
    ELSE IF t.aged            THEN "reuse"
    ELSE "rotate"

\* What refresh decides once it holds both rows.
Verdict(t, s) ==
    IF ~Valid(s) \/ t.revoked THEN "invalid"
    ELSE IF ~t.used           THEN "rotate"
    ELSE IF t.aged            THEN "reuse"
    ELSE "race"

RefreshLocksSession(p) ==
    LET verdict == Verdict(token[req[p].tok], req[p].sid) IN
    /\ req[p].kind = "refresh" /\ req[p].pc = "session" /\ CanLock(p)
    /\ \/ verdict \in {"invalid", "race"} /\ Refuse(p, verdict)
       \/ /\ verdict = "reuse" /\ Lock(p)
          /\ req' = [req EXCEPT ![p] = [@ EXCEPT !.pc = "tokens", !.ids = {req[p].sid}]]
          /\ UNCHANGED <<version, session, token, access, tabVars>>
       \/ /\ verdict = "rotate" /\ Lock(p) /\ Reach(p, "rotate")
          /\ UNCHANGED <<version, session, token, access, tabVars>>

RefreshCommits(p) ==
    LET s == req[p].sid IN
    /\ req[p].pc = "rotate"
    /\ token' = Append([token EXCEPT ![req[p].tok].used = TRUE], NewToken(s))
    /\ access' = access \cup {[sid |-> s, ver |-> version]}
    /\ End(p, "ok", Len(token) + 1)
    /\ UNCHANGED <<version, session>>

\* get_current_principal reads the user, then locks the session FOR UPDATE; the lock
\* is kept for the rest of the request.
LogoutBegins(p, kind, a) ==
    /\ req[p].kind = "none"
    /\ a.ver = version
    /\ req' = [req EXCEPT ![p] = [NoReq EXCEPT !.kind = kind, !.pc = "session",
                                               !.sid = a.sid, !.ver = version]]
    /\ UNCHANGED <<version, session, token, access, held, tabVars>>

LogoutLocksSession(p) ==
    /\ req[p].kind \in {"logout", "logoutAll"} /\ req[p].pc = "session" /\ CanLock(p)
    /\ \/ ~Valid(req[p].sid) /\ Refuse(p, "unauthorized")
       \/ /\ Valid(req[p].sid) /\ Lock(p)
          /\ req' = [req EXCEPT ![p] =
                        [@ EXCEPT !.pc = IF req[p].kind = "logout" THEN "tokens" ELSE "user",
                                  !.ids = {req[p].sid}]]
          /\ UNCHANGED <<version, session, token, access, tabVars>>

\* Deviation: sessions that have expired are passed over.
UnexpiredSessions == {s \in DOMAIN session : Valid(s)}
\* The sessions revoke_all_user_sessions selects.
ActiveSessions == {s \in DOMAIN session : session[s].status = "active"}

\* The new token_version is flushed, and the user row locked, before the active
\* sessions are selected.
LogoutAllLocksUser(p) ==
    /\ req[p].kind = "logoutAll" /\ req[p].pc = "user" /\ CanLock(p) /\ Lock(p)
    /\ req' = [req EXCEPT ![p] = [@ EXCEPT !.pc = "sessions", !.ids = ActiveSessions]]
    /\ UNCHANGED <<version, session, token, access, tabVars>>

RevokeLocksRow(p) ==
    /\ req[p].pc \in {"sessions", "tokens"} /\ CanLock(p) /\ Lock(p)
    /\ UNCHANGED <<version, session, token, access, req, tabVars>>

RevokeTurnsToTokens(p) ==
    /\ req[p].pc = "sessions" /\ Wanted(p) = {} /\ Reach(p, "tokens")
    /\ UNCHANGED <<version, session, token, access, held, tabVars>>

\* The commit of logout, logout_all and of a refresh that detected reuse.
RevokeCommits(p) ==
    LET r == req[p] IN
    /\ r.pc = "tokens" /\ Wanted(p) = {}
    /\ session' = [s \in DOMAIN session |->
                      IF s \in r.ids
                      THEN [session[s] EXCEPT !.status = "revoked", !.reason = r.kind]
                      ELSE session[s]]
    /\ token' = [i \in DOMAIN token |->
                    [token[i] EXCEPT !.revoked = @ \/ token[i].sid \in r.ids]]
    /\ version' = IF r.kind = "logoutAll" THEN r.ver + 1 ELSE version
    /\ End(p, "invalid", 0)
    /\ UNCHANGED access

AuthDeadlockAborts(p) == Deadlocked(p) /\ Refuse(p, "error")

\* Time passes: refresh_rotation_grace_seconds after a rotation, and an expiry.
GraceEnds(i) ==
    /\ token[i].used /\ ~token[i].aged
    /\ token' = [token EXCEPT ![i].aged = TRUE]
    /\ UNCHANGED <<version, session, access, req, held, tabVars>>

FaultsLeft == lost + Cardinality({s \in DOMAIN session : session[s].expired}) < MaxFaults

SessionExpires(s) ==
    /\ Valid(s) /\ FaultsLeft
    /\ session' = [session EXCEPT ![s].expired = TRUE]
    /\ UNCHANGED <<version, token, access, req, held, tabVars>>

-----------------------------------------------------------------------------------
(* The browser. *)

\* Bound: every login or flight under way may still take a token.
Room ==
    Len(token) + Cardinality({t \in Tabs : flight[t] # "none" \/ req[t].deaf}) < MaxRefreshTokens

Ask(t, r) == req' = [req EXCEPT ![t] = r]

Login(t) ==
    /\ view[t] = "anonymous" /\ flight[t] = "none" /\ req[t].kind = "none" /\ Room
    /\ Ask(t, [NoReq EXCEPT !.kind = "login", !.pc = "user", !.ver = version])
    /\ flight' = [flight EXCEPT ![t] = "login"]
    /\ UNCHANGED <<version, session, token, access, held, answer, cookie, view,
                   peerDone, lost, webLocks>>

\* refresh: on the mount of the provider, and when a request comes back with 401.
RefreshBegins(t, shown) ==
    /\ flight[t] = "none" /\ Room
    /\ shown \in {"anonymous", view[t]}
    /\ flight' = [flight EXCEPT ![t] = "queued"]
    /\ view' = [view EXCEPT ![t] = shown]
    /\ UNCHANGED <<serverVars, answer, cookie, peerDone, lost, webLocks>>

\* navigator.locks.request(LOCK_NAME, exclusive), where the browser has it.
InLock(t) == flight[t] \in {"first", "raced", "second"}
\* Deviation: the lock is not used.
MayEnterFreely(t) == TRUE
MayEnter(t) == webLocks => \A u \in Tabs \ {t} : ~InLock(u)

\* One POST /api/auth/refresh with the cookie the browser has now.
SendRefresh(t, stage) ==
    /\ req[t].kind = "none"
    /\ flight' = [flight EXCEPT ![t] = stage]
    /\ IF cookie = 0
       THEN answer' = [answer EXCEPT ![t] = [res |-> "invalid", tok |-> 0]] /\ UNCHANGED req
       ELSE /\ Ask(t, [NoReq EXCEPT !.kind = "refresh", !.pc = "token", !.tok = cookie])
            /\ answer' = [answer EXCEPT ![t] = NoAnswer]
    /\ UNCHANGED <<version, session, token, access, held, cookie, view, peerDone,
                   lost, webLocks>>

RefreshFirst(t) ==
    /\ flight[t] = "queued" /\ MayEnter(t)
    /\ SendRefresh(t, "first")

\* Promise.race([peerSuccess, delay(WAIT_TIMEOUT_MS)]): the timeout is longer than the
\* grace period of a token that was used when the race was reported.
WaitOver(t) == t \in peerDone \/ token[answer[t].tok].aged

RefreshAgain(t) ==
    /\ flight[t] = "raced" /\ WaitOver(t)
    /\ SendRefresh(t, "second")

\* The flight ends: what the tab shows, the cookie Set-Cookie left behind, and the
\* tabs that hear of a success on the channels they have open.
Land(t, shown, jar, told) ==
    /\ flight' = [flight EXCEPT ![t] = "none"]
    /\ view' = [view EXCEPT ![t] = shown]
    /\ cookie' = jar
    /\ answer' = [answer EXCEPT ![t] = NoAnswer]
    /\ peerDone' = (peerDone \cup told) \ {t}
    /\ UNCHANGED <<serverVars, lost, webLocks>>

AnswerOk(t) ==
    /\ answer[t].res = "ok"
    /\ Land(t, "authenticated", answer[t].tok, {u \in Tabs : InLock(t) /\ InLock(u)})

\* A refresh_race is retried once, after a wait; any other failure, and the second race,
\* leave the tab anonymous.  401 deletes the cookie, whatever it is by now.
AnswerRace(t) ==
    /\ answer[t].res = "race" /\ flight[t] = "first"
    /\ flight' = [flight EXCEPT ![t] = "raced"]
    /\ answer' = [answer EXCEPT ![t].res = "none"]
    /\ UNCHANGED <<serverVars, cookie, view, peerDone, lost, webLocks>>

AnswerFailed(t) ==
    /\ \/ answer[t].res \in {"invalid", "error"}
       \/ answer[t].res = "race" /\ flight[t] = "second"
    /\ Land(t, "anonymous", IF answer[t].res = "invalid" THEN 0 ELSE cookie, {})

\* The tab is closed or reloaded, or the network fails, before the answer is there.
AnswerLost(t) ==
    /\ flight[t] \in {"login", "first", "second"} /\ FaultsLeft
    /\ flight' = [flight EXCEPT ![t] = "none"]
    /\ view' = [view EXCEPT ![t] = "anonymous"]
    /\ answer' = [answer EXCEPT ![t] = NoAnswer]
    /\ req' = [req EXCEPT ![t].deaf = req[t].kind # "none"]
    /\ peerDone' = peerDone \ {t}
    /\ lost' = lost + 1
    /\ UNCHANGED <<version, session, token, access, held, cookie, webLocks>>

\* logout of the provider: lib/api.ts sends no Authorization header to /api/auth/, so
\* the server answers 401; the tab and those that hear its broadcast forget their
\* access tokens, the session and the cookie stay.
LogoutClick(t) ==
    /\ view[t] = "authenticated"
    /\ view' = [u \in Tabs |-> "anonymous"]
    /\ UNCHANGED <<serverVars, answer, cookie, flight, peerDone, lost, webLocks>>

-----------------------------------------------------------------------------------
Serve(p) ==
    \/ LoginCommits(p)
    \/ RefreshLocksToken(p) \/ RefreshLocksSession(p) \/ RefreshCommits(p)
    \/ LogoutLocksSession(p) \/ LogoutAllLocksUser(p)
    \/ RevokeLocksRow(p) \/ RevokeTurnsToTokens(p) \/ RevokeCommits(p)
    \/ AuthDeadlockAborts(p)

AuthNext ==
    \/ \E p \in Proc : Serve(p)
    \/ \E p \in Clients, a \in access, kind \in {"logout", "logoutAll"} : LogoutBegins(p, kind, a)
    \/ \E t \in Tabs :
          \/ Login(t) \/ RefreshFirst(t) \/ RefreshAgain(t)
          \/ AnswerOk(t) \/ AnswerRace(t) \/ AnswerFailed(t) \/ AnswerLost(t)
          \/ LogoutClick(t)
          \/ \E shown \in {"anonymous", "authenticated"} : RefreshBegins(t, shown)
    \/ \E i \in DOMAIN token : GraceEnds(i)
    \/ \E s \in DOMAIN session : SessionExpires(s)

AuthSpec == AuthInit /\ [][AuthNext]_authVars

-----------------------------------------------------------------------------------
(* Properties. *)

LiveTokens(s) == {i \in DOMAIN token : token[i].sid = s /\ ~token[i].used /\ ~token[i].revoked}

\* Rotation never forks: however refreshes, logouts and aborted requests interleave, a
\* session has at most one token that can still be exchanged, and none once it has
\* been revoked (refresh, logout and logout_all of auth_service.py).
SingleLiveToken ==
    \A s \in DOMAIN session :
        /\ Cardinality(LiveTokens(s)) <= 1
        /\ session[s].status = "revoked" => LiveTokens(s) = {}

\* When logout_all moves token_version, no session of the user survives it: neither
\* one that is being refreshed nor one that is being created.
LogoutAllEndsSessions ==
    [][version' # version => \A s \in DOMAIN session' : session'[s].status = "revoked"]_authVars

\* With navigator.locks, the tabs of one browser never trip the reuse detection
\* against each other: a session ends that way only if an answer was lost before.
ReuseMeansLostAnswer ==
    webLocks /\ lost = 0 => \A s \in DOMAIN session : session[s].reason # "refresh"
===================================================================================
