--------------------------- MODULE ServicesProofs ---------------------------
(***************************************************************************)
(* Proofs about AuthSessions, MemoryStore, SecretReferences and TutorView, *)
(* for any tabs, clients, runs, requests, owners, conversations and bounds. *)
(* Sessions: one good refresh token each, and a logout of all sessions ends *)
(* every one.  Memories: one active memory in a slot, consent when one is  *)
(* written, nothing forgotten by accident.  Secrets: the value a row names is *)
(* in the secret store, and nothing else stays there.  The page: what it   *)
(* shows is of the conversation that is open, and stays.                   *)
(***************************************************************************)
EXTENDS AuthSessions, MemoryStore, SecretReferences, TutorView, FiniteSetTheorems, TLAPS

-----------------------------------------------------------------------------
(* Sessions and refresh tokens. *)

SessionRecord == [status : {"active", "revoked"}, reason : {"none", "refresh", "logout", "logoutAll"},
                  expired : BOOLEAN]
TokenRecord == [sid : Nat, used : BOOLEAN, aged : BOOLEAN, revoked : BOOLEAN]
RequestRecord ==
  [kind : {"none", "login", "refresh", "logout", "logoutAll"},
   pc : {"idle", "token", "session", "rotate", "user", "sessions", "tokens"},
   sid : Nat, tok : Nat, ver : Nat, ids : SUBSET Nat, deaf : BOOLEAN]
AnswerRecord == [res : {"none", "ok", "race", "invalid", "error", "unauthorized"}, tok : Nat]

AuthTypeOK ==
  /\ version \in Nat /\ session \in Seq(SessionRecord) /\ token \in Seq(TokenRecord)
  /\ access \subseteq [sid : Nat, ver : Nat]
  /\ req \in [Proc -> RequestRecord] /\ held = [p \in Proc |-> held[p]]
  /\ answer \in [Tabs -> AnswerRecord] /\ cookie \in Nat /\ lost \in Nat
  /\ flight \in [Tabs -> {"none", "login", "queued", "first", "raced", "second"}]
  /\ webLocks \in BOOLEAN

\* Where a request is, and the rows it has locked.
AuthRequestOK(p) ==
  LET r == req[p] IN
  /\ \/ r.kind = "none" /\ r.pc = "idle"
     \/ r.kind = "login" /\ r.pc = "user" /\ p \in Tabs
     \/ r.kind = "refresh" /\ r.pc \in {"token", "session", "rotate", "tokens"} /\ p \in Tabs
     \/ r.kind = "logout" /\ r.pc \in {"session", "tokens"} /\ p \in Clients
     \/ r.kind = "logoutAll" /\ r.pc \in {"session", "user", "sessions", "tokens"} /\ p \in Clients
  /\ r.kind = "refresh" => r.tok \in DOMAIN token
  /\ r.kind = "refresh" /\ r.pc \in {"session", "rotate"} =>
       token[r.tok].sid = r.sid /\ TokenRow(r.tok) \in held[p]
  /\ r.pc = "rotate" =>
       session[r.sid].status = "active" /\ ~token[r.tok].used /\ ~token[r.tok].revoked
  /\ r.kind = "logoutAll" /\ r.pc \in {"sessions", "tokens"} =>
       /\ UserRow \in held[p]
       /\ \A s \in DOMAIN session \ r.ids : session[s].status = "revoked"

\* No row has two holders.
LocksApart == \A p, q \in Proc : p # q => held[p] \cap held[q] = {}

LiveToken(i) == ~token[i].used /\ ~token[i].revoked

\* A token belongs to a session, which has at most one that is live and none once it is ended.
TokensOK ==
  /\ \A i \in DOMAIN token :
       /\ token[i].sid \in DOMAIN session
       /\ LiveToken(i) => session[token[i].sid].status = "active"
  /\ \A i, j \in DOMAIN token :
       LiveToken(i) /\ LiveToken(j) /\ token[i].sid = token[j].sid => i = j

\* What the browser holds was issued.
Issued ==
  /\ cookie <= Len(token)
  /\ \A t \in Tabs : answer[t].res = "ok" => answer[t].tok \in DOMAIN token

\* A tab whose browser has locks, and that has lost no answer.
TabOK(t) ==
  /\ ~req[t].deaf /\ answer[t].res # "race" /\ flight[t] \notin {"raced", "second"}
  /\ req[t].kind # "none" => answer[t].res = "none"
  /\ req[t].kind = "login" => flight[t] = "login"
  /\ req[t].kind = "refresh" =>
       flight[t] = "first" /\ req[t].pc # "tokens" /\ ~token[req[t].tok].used
  /\ flight[t] \in {"none", "queued"} => req[t].kind = "none" /\ answer[t].res = "none"
  /\ answer[t].res = "ok" => ~token[answer[t].tok].used /\ answer[t].tok # cookie

\* The tabs of such a browser: one refreshes at a time, and no token reaches two of them.
TabsApart ==
  /\ \A t, u \in Tabs : InLock(t) /\ InLock(u) => t = u
  /\ \A t, u \in Tabs : t # u /\ answer[t].res = "ok" =>
       /\ answer[u].res = "ok" => answer[u].tok # answer[t].tok
       /\ req[u].kind = "refresh" => req[u].tok # answer[t].tok
  /\ cookie # 0 /\ token[cookie].used => \E t \in Tabs : InLock(t) /\ answer[t].res = "ok"
  /\ \A s \in DOMAIN session : session[s].reason # "refresh"

AuthInv ==
  /\ AuthTypeOK
  /\ \A p \in Proc : AuthRequestOK(p)
  /\ LocksApart /\ TokensOK /\ Issued
  /\ webLocks /\ lost = 0 => TabsApart /\ \A t \in Tabs : TabOK(t)

\* Nobody is logged in at first.
LEMMA AuthInitially == AuthInit => AuthInv
<1> SUFFICES ASSUME AuthInit PROVE AuthInv
  OBVIOUS
<1>1. AuthTypeOK
  BY DEF AuthInit, AuthTypeOK, NoReq, NoAnswer, RequestRecord, AnswerRecord
<1>2. \A p \in Proc : req[p] = NoReq /\ held[p] = {}
  BY DEF AuthInit
<1>3. \A p \in Proc : AuthRequestOK(p)
  BY <1>2 DEF AuthRequestOK, NoReq
<1>4. LocksApart /\ TokensOK /\ Issued
  BY <1>2 DEF AuthInit, LocksApart, TokensOK, Issued, NoAnswer
<1>5. TabsApart /\ \A t \in Tabs : TabOK(t)
  BY <1>2 DEF AuthInit, TabsApart, TabOK, NoAnswer, NoReq, InLock, Proc
<1> QED
  BY <1>1, <1>3, <1>4, <1>5 DEF AuthInv

\* Of a statement that wants one row, that is the next one.
LEMMA OnlyRow ==
  ASSUME NEW p \in Proc, NEW name, NEW n \in Nat, Wanted(p) = {<<name, n>>}
  PROVE  NextRow(p) = <<name, n>>
BY DEF NextRow

\* A lock is given to one request; the others keep theirs.
LEMMA Locked ==
  ASSUME AuthTypeOK, LocksApart, NEW p \in Proc, held' = held \/ (CanLock(p) /\ Lock(p))
  PROVE  /\ LocksApart' /\ held' = [q \in Proc |-> held'[q]] /\ held[p] \subseteq held'[p]
         /\ \A q \in Proc \ {p} : held'[q] = held[q]
         /\ held' = held \/ NextRow(p) \in held'[p]
<1>1. CASE held' = held
  BY <1>1 DEF AuthTypeOK, LocksApart
<1>2. CASE CanLock(p) /\ Lock(p)
  <2>1. PICK row : row = NextRow(p)
    OBVIOUS
  <2>2. held' = [held EXCEPT ![p] = @ \cup {row}] /\ \A q \in Proc \ {p} : row \notin held[q]
    BY <1>2, <2>1 DEF CanLock, Lock, Holders
  <2>3. /\ held'[p] = held[p] \cup {row} /\ held' = [q \in Proc |-> held'[q]]
        /\ \A q \in Proc \ {p} : held'[q] = held[q]
    BY <2>2 DEF AuthTypeOK
  <2>4. LocksApart'
    BY <2>2, <2>3 DEF LocksApart
  <2> QED
    BY <2>1, <2>3, <2>4
<1> QED
  BY <1>1, <1>2

\* A step within a request that writes no row.
LEMMA RequestMoves ==
  ASSUME AuthInv, NEW p \in Proc, NEW r \in RequestRecord, req' = [req EXCEPT ![p] = r],
         UNCHANGED <<version, session, token, access, answer, cookie, flight, lost, webLocks>>,
         held' = held \/ (CanLock(p) /\ Lock(p)), AuthRequestOK(p)',
         p \in Tabs =>
           /\ r.kind = req[p].kind /\ r.tok = req[p].tok /\ r.deaf = req[p].deaf
           /\ webLocks /\ lost = 0 /\ r.kind = "refresh" => r.pc # "tokens"
  PROVE  AuthInv'
<1>1. /\ LocksApart' /\ held' = [q \in Proc |-> held'[q]]
      /\ \A q \in Proc \ {p} : held'[q] = held[q] /\ req'[q] = req[q]
      /\ req'[p] = r /\ req' \in [Proc -> RequestRecord]
  BY Locked DEF AuthInv, AuthTypeOK
<1>2. AuthTypeOK'
  BY <1>1 DEF AuthInv, AuthTypeOK
<1>3. \A q \in Proc : AuthRequestOK(q)'
  BY <1>1 DEF AuthInv, AuthRequestOK
<1>4. TokensOK' /\ Issued'
  BY DEF AuthInv, TokensOK, LiveToken, Issued
<1>5. ASSUME webLocks' /\ lost' = 0 PROVE TabsApart' /\ \A t \in Tabs : TabOK(t)'
  <2>1. webLocks /\ lost = 0 /\ TabsApart /\ \A t \in Tabs : TabOK(t)
    BY <1>5 DEF AuthInv
  <2>2. \A t \in Tabs : /\ req'[t].kind = req[t].kind /\ req'[t].tok = req[t].tok
                        /\ req'[t].deaf = req[t].deaf
                        /\ req'[t].kind = "refresh" /\ req[t].pc # "tokens" => req'[t].pc # "tokens"
    BY <1>1, <2>1 DEF Proc
  <2>3. TabsApart'
    BY <2>1, <2>2 DEF TabsApart, InLock
  <2>4. \A t \in Tabs : TabOK(t)'
    BY <2>1, <2>2 DEF TabOK
  <2> QED
    BY <2>3, <2>4
<1> QED
  BY <1>1, <1>2, <1>3, <1>4, <1>5 DEF AuthInv

\* The requests that go on, and those of a bearer that begin.
LEMMA RequestSteps ==
  ASSUME AuthInv, NEW p \in Proc,
         \/ RefreshLocksToken(p) \/ LogoutAllLocksUser(p) \/ RevokeLocksRow(p) \/ RevokeTurnsToTokens(p)
         \/ \E a \in access, kind \in {"logout", "logoutAll"} : p \in Clients /\ LogoutBegins(p, kind, a)
  PROVE  AuthInv'
<1>1. /\ req[p] \in RequestRecord /\ AuthRequestOK(p) /\ session \in Seq(SessionRecord)
      /\ token \in Seq(TokenRecord) /\ version \in Nat
      /\ p \in Clients => p \notin Tabs
  BY AuthAssumption DEF AuthInv, AuthTypeOK
<1>2. CASE RefreshLocksToken(p)
  <2> DEFINE r == [req[p] EXCEPT !.pc = "session", !.sid = token[req[p].tok].sid]
  <2>1. req[p].kind = "refresh" /\ req[p].pc = "token" /\ req[p].tok \in DOMAIN token
    BY <1>1, <1>2 DEF RefreshLocksToken, AuthRequestOK
  <2>2. token[req[p].tok] \in TokenRecord /\ req[p].tok \in Nat
    BY <1>1, <2>1
  <2>3. /\ r \in RequestRecord /\ r.kind = "refresh" /\ r.pc = "session" /\ r.tok = req[p].tok
        /\ r.deaf = req[p].deaf /\ r.sid = token[req[p].tok].sid
    BY <1>1, <2>1, <2>2 DEF RequestRecord, TokenRecord
  <2>4. req' = [req EXCEPT ![p] = r] /\ CanLock(p) /\ Lock(p)
    BY <1>2 DEF RefreshLocksToken
  <2> HIDE DEF r
  <2>5. NextRow(p) = TokenRow(req[p].tok)
    <3>1. Wanted(p) = {TokenRow(req[p].tok)}
      BY <2>1 DEF Wanted
    <3> QED
      BY <2>2, <3>1, OnlyRow DEF TokenRow
  <2>6. req'[p] = r /\ TokenRow(req[p].tok) \in held'[p]
    BY <2>4, <2>5 DEF AuthInv, AuthTypeOK, Lock
  <2>7. UNCHANGED <<session, token>>
    BY <1>2 DEF RefreshLocksToken
  <2>8. AuthRequestOK(p)'
    BY <1>1, <2>1, <2>3, <2>6, <2>7 DEF AuthRequestOK, TokenRow
  <2> QED
    BY <1>2, <2>1, <2>3, <2>4, <2>8, RequestMoves DEF RefreshLocksToken, tabVars
<1>3. CASE LogoutAllLocksUser(p)
  <2> DEFINE r == [req[p] EXCEPT !.pc = "sessions", !.ids = ActiveSessions]
  <2>1. req[p].kind = "logoutAll" /\ req[p].pc = "user" /\ p \in Clients
    BY <1>1, <1>3 DEF LogoutAllLocksUser, AuthRequestOK
  <2>2. ActiveSessions \in SUBSET Nat
    BY <1>1 DEF ActiveSessions
  <2>3. r \in RequestRecord /\ r.kind = "logoutAll" /\ r.pc = "sessions" /\ r.ids = ActiveSessions
    BY <1>1, <2>1, <2>2 DEF RequestRecord
  <2>4. req' = [req EXCEPT ![p] = r] /\ CanLock(p) /\ Lock(p)
    BY <1>3 DEF LogoutAllLocksUser
  <2> HIDE DEF r
  <2>5. NextRow(p) = UserRow
    <3>1. Wanted(p) = {UserRow}
      BY <2>1 DEF Wanted
    <3> QED
      BY <3>1, OnlyRow DEF UserRow
  <2>6. req'[p] = r /\ UserRow \in held'[p]
    BY <2>4, <2>5 DEF AuthInv, AuthTypeOK, Lock
  <2>7. UNCHANGED <<session, token>>
    BY <1>3 DEF LogoutAllLocksUser
  <2>8. \A s \in DOMAIN session \ ActiveSessions : session[s].status = "revoked"
    <3>1. \A s \in DOMAIN session : session[s] \in SessionRecord
      BY <1>1
    <3> QED
      BY <3>1 DEF ActiveSessions, SessionRecord
  <2>9. AuthRequestOK(p)'
    BY <2>1, <2>3, <2>6, <2>7, <2>8 DEF AuthRequestOK, UserRow
  <2> QED
    BY <1>1, <1>3, <2>1, <2>3, <2>4, <2>9, RequestMoves DEF LogoutAllLocksUser, tabVars
<1>4. CASE RevokeLocksRow(p)
  <2>1. req' = [req EXCEPT ![p] = req[p]] /\ CanLock(p) /\ Lock(p) /\ UNCHANGED <<session, token, req>>
    BY <1>4 DEF RevokeLocksRow, AuthInv, AuthTypeOK
  <2>2. held[p] \subseteq held'[p]
    BY <2>1, Locked DEF AuthInv
  <2>3. AuthRequestOK(p)'
    BY <1>1, <2>1, <2>2 DEF AuthRequestOK, TokenRow, UserRow
  <2>4. p \in Tabs /\ webLocks /\ lost = 0 /\ req[p].kind = "refresh" => req[p].pc # "tokens"
    BY DEF AuthInv, TabOK
  <2> QED
    BY <1>1, <1>4, <2>1, <2>3, <2>4, RequestMoves DEF RevokeLocksRow, tabVars
<1>5. CASE RevokeTurnsToTokens(p)
  <2> DEFINE r == [req[p] EXCEPT !.pc = "tokens"]
  <2>1. req[p].kind = "logoutAll" /\ req[p].pc = "sessions" /\ p \in Clients
    BY <1>1, <1>5 DEF RevokeTurnsToTokens, AuthRequestOK
  <2>2. /\ r \in RequestRecord /\ r.kind = "logoutAll" /\ r.pc = "tokens" /\ r.ids = req[p].ids
    BY <1>1, <2>1 DEF RequestRecord
  <2>3. req' = [req EXCEPT ![p] = r]
    BY <1>5 DEF RevokeTurnsToTokens, Reach
  <2> HIDE DEF r
  <2>4. req'[p] = r /\ UNCHANGED <<session, token, held>>
    BY <1>5, <2>3 DEF RevokeTurnsToTokens, AuthInv, AuthTypeOK
  <2>5. AuthRequestOK(p)'
    BY <1>1, <2>1, <2>2, <2>4 DEF AuthRequestOK, UserRow
  <2> QED
    <3>1. /\ UNCHANGED <<version, session, token, access, answer, cookie, flight, lost, webLocks>>
          /\ held' = held \/ (CanLock(p) /\ Lock(p))
      BY <1>5 DEF RevokeTurnsToTokens, tabVars
    <3> QED
      BY <1>1, <2>1, <2>2, <2>3, <2>5, <3>1, RequestMoves
<1>6. ASSUME p \in Clients, NEW a \in access, NEW kind \in {"logout", "logoutAll"},
             LogoutBegins(p, kind, a)
      PROVE  AuthInv'
  <2> DEFINE r == [NoReq EXCEPT !.kind = kind, !.pc = "session", !.sid = a.sid, !.ver = version]
  <2>1. a.sid \in Nat
    BY DEF AuthInv, AuthTypeOK
  <2>2. r \in RequestRecord /\ r.kind = kind /\ r.pc = "session"
    <3>1. NoReq \in RequestRecord
      BY DEF NoReq, RequestRecord
    <3> QED
      BY <1>1, <2>1, <3>1 DEF RequestRecord
  <2>3. req' = [req EXCEPT ![p] = r] /\ UNCHANGED <<session, token, held>>
    BY <1>6 DEF LogoutBegins
  <2> HIDE DEF r
  <2>4. req'[p] = r
    BY <2>3 DEF AuthInv, AuthTypeOK
  <2>5. AuthRequestOK(p)'
    BY <1>6, <2>2, <2>4 DEF AuthRequestOK
  <2> QED
    <3>1. /\ UNCHANGED <<version, session, token, access, answer, cookie, flight, lost, webLocks>>
          /\ held' = held \/ (CanLock(p) /\ Lock(p))
      BY <1>6 DEF LogoutBegins, tabVars
    <3> QED
      BY <1>1, <1>6, <2>2, <2>3, <2>5, <3>1, RequestMoves
<1> QED
  BY <1>2, <1>3, <1>4, <1>5, <1>6

\* What the end of a request leaves: its locks go, and a tab that listens is answered.
LEMMA RequestEnded ==
  ASSUME AuthInv, NEW p \in Proc, NEW tok \in Nat,
         NEW res \in {"ok", "race", "invalid", "error", "unauthorized"}, End(p, res, tok)
  PROVE  /\ req' \in [Proc -> RequestRecord] /\ req'[p] = NoReq
         /\ held' = [q \in Proc |-> held'[q]] /\ held'[p] = {} /\ LocksApart'
         /\ \A q \in Proc \ {p} : req'[q] = req[q] /\ held'[q] = held[q]
         /\ answer' \in [Tabs -> AnswerRecord] /\ \A t \in Tabs \ {p} : answer'[t] = answer[t]
         /\ p \in Tabs => IF req[p].deaf THEN answer'[p] = answer[p]
                          ELSE answer'[p].res = res /\ answer'[p].tok = tok
         /\ UNCHANGED <<cookie, view, flight, lost, webLocks>>
<1>1. NoReq \in RequestRecord
  BY DEF NoReq, RequestRecord
<1>2. [res |-> res, tok |-> tok] \in AnswerRecord
  BY DEF AnswerRecord
<1>3. /\ req' = [req EXCEPT ![p] = NoReq] /\ held' = [held EXCEPT ![p] = {}]
      /\ req \in [Proc -> RequestRecord] /\ held = [q \in Proc |-> held[q]] /\ LocksApart
      /\ answer \in [Tabs -> AnswerRecord]
  BY DEF End, AuthInv, AuthTypeOK
<1>4. /\ req' \in [Proc -> RequestRecord] /\ req'[p] = NoReq
      /\ held' = [q \in Proc |-> held'[q]] /\ held'[p] = {} 
      /\ \A q \in Proc \ {p} : req'[q] = req[q] /\ held'[q] = held[q]
  BY <1>1, <1>3
<1>5. LocksApart'
  BY <1>3, <1>4 DEF LocksApart
<1>6. CASE p \in Tabs /\ ~req[p].deaf
  <2>1. answer' = [answer EXCEPT ![p] = [res |-> res, tok |-> tok]]
    BY <1>6 DEF End
  <2> QED
    BY <1>2, <1>3, <1>4, <1>5, <1>6, <2>1 DEF End
<1>7. CASE ~(p \in Tabs /\ ~req[p].deaf)
  <2>1. answer' = answer
    BY <1>7 DEF End
  <2> QED
    BY <1>3, <1>4, <1>5, <1>7, <2>1 DEF End
<1> QED
  BY <1>6, <1>7

\* A request that is refused or aborted writes nothing.
LEMMA RequestRefused ==
  ASSUME AuthInv, NEW p \in Proc, req[p].kind # "none",
         NEW res \in {"race", "invalid", "error", "unauthorized"}, Refuse(p, res),
         res = "race" /\ p \in Tabs => ~webLocks \/ lost # 0
  PROVE  AuthInv'
<1>1. End(p, res, req[p].tok) /\ UNCHANGED <<version, session, token, access>> /\ req[p].tok \in Nat
  BY DEF Refuse, AuthInv, AuthTypeOK, RequestRecord
<1>2. /\ req' \in [Proc -> RequestRecord] /\ req'[p] = NoReq
      /\ held' = [q \in Proc |-> held'[q]] /\ LocksApart'
      /\ \A q \in Proc \ {p} : req'[q] = req[q] /\ held'[q] = held[q]
      /\ answer' \in [Tabs -> AnswerRecord] /\ \A t \in Tabs \ {p} : answer'[t] = answer[t]
      /\ p \in Tabs => IF req[p].deaf THEN answer'[p] = answer[p] ELSE answer'[p].res = res
      /\ UNCHANGED <<cookie, view, flight, lost, webLocks>>
  BY <1>1, RequestEnded
<1>3. AuthTypeOK'
  BY <1>1, <1>2 DEF AuthInv, AuthTypeOK
<1>4. \A q \in Proc : AuthRequestOK(q)'
  <2>1. AuthRequestOK(p)'
    BY <1>2 DEF AuthRequestOK, NoReq
  <2> QED
    BY <1>1, <1>2, <2>1 DEF AuthInv, AuthRequestOK
<1>5. TokensOK'
  BY <1>1 DEF AuthInv, TokensOK, LiveToken
<1>6. Issued'
  BY <1>1, <1>2 DEF AuthInv, Issued
<1>7. ASSUME webLocks' /\ lost' = 0 PROVE TabsApart' /\ \A t \in Tabs : TabOK(t)'
  <2>1. webLocks /\ lost = 0 /\ TabsApart /\ \A t \in Tabs : TabOK(t)
    BY <1>2, <1>7 DEF AuthInv
  <2>2. \A t \in Tabs : answer'[t].res = "ok" => answer'[t] = answer[t] /\ t # p
    BY <1>2, <2>1 DEF TabOK
  <2>3. \A t \in Tabs : answer[t].res = "ok" => answer'[t] = answer[t]
    BY <1>2, <2>1 DEF TabOK
  <2>4. \A t \in Tabs : req'[t].kind = "refresh" => req'[t] = req[t]
    BY <1>2 DEF NoReq, Proc
  <2>5. TabsApart'
    BY <1>1, <1>2, <2>1, <2>2, <2>3, <2>4 DEF TabsApart, InLock
  <2>6. \A t \in Tabs \ {p} : TabOK(t)'
    BY <1>1, <1>2, <2>1 DEF TabOK, Proc
  <2>7. p \in Tabs => TabOK(p)'
    BY <1>1, <1>2, <2>1 DEF TabOK, NoReq
  <2> QED
    BY <2>5, <2>6, <2>7
<1> QED
  BY <1>2, <1>3, <1>4, <1>5, <1>6, <1>7 DEF AuthInv

\* What a request decides once it has its session's row.
LEMMA SessionSteps ==
  ASSUME AuthInv, NEW p \in Proc,
         RefreshLocksSession(p) \/ LogoutLocksSession(p) \/ AuthDeadlockAborts(p)
  PROVE  AuthInv'
<1>1. /\ req[p] \in RequestRecord /\ AuthRequestOK(p) /\ session \in Seq(SessionRecord)
      /\ token \in Seq(TokenRecord)
      /\ p \in Clients => p \notin Tabs
  BY AuthAssumption DEF AuthInv, AuthTypeOK
<1>2. CASE RefreshLocksSession(p)
  <2>1. /\ req[p].kind = "refresh" /\ req[p].pc = "session" /\ req[p].tok \in DOMAIN token
        /\ token[req[p].tok].sid = req[p].sid /\ TokenRow(req[p].tok) \in held[p] /\ p \in Tabs
    BY <1>1, <1>2 DEF RefreshLocksSession, AuthRequestOK
  <2>2. PICK verdict : verdict = Verdict(token[req[p].tok], req[p].sid)
    OBVIOUS
  <2>3. token[req[p].tok] \in TokenRecord
    BY <1>1, <2>1
  <2>4. /\ verdict = "rotate" => /\ Valid(req[p].sid) /\ ~token[req[p].tok].used
                                 /\ ~token[req[p].tok].revoked
        /\ verdict \in {"race", "reuse"} => token[req[p].tok].used
    BY <2>2, <2>3 DEF Verdict, TokenRecord
  <2>5. webLocks /\ lost = 0 => ~token[req[p].tok].used
    BY <2>1 DEF AuthInv, TabOK
  <2>6. CASE verdict \in {"invalid", "race"} /\ Refuse(p, verdict)
    BY <2>1, <2>4, <2>5, <2>6, RequestRefused
  <2>7. CASE verdict = "reuse" /\ Lock(p)
             /\ req' = [req EXCEPT ![p] = [@ EXCEPT !.pc = "tokens", !.ids = {req[p].sid}]]
    <3> DEFINE r == [req[p] EXCEPT !.pc = "tokens", !.ids = {req[p].sid}]
    <3>1. /\ r \in RequestRecord /\ r.kind = "refresh" /\ r.pc = "tokens" /\ r.tok = req[p].tok
          /\ r.deaf = req[p].deaf
      BY <1>1, <2>1 DEF RequestRecord
    <3>2. req' = [req EXCEPT ![p] = r] /\ CanLock(p) /\ Lock(p) /\ UNCHANGED token
      BY <1>2, <2>2, <2>7 DEF RefreshLocksSession, Refuse
    <3> HIDE DEF r
    <3>3. req'[p] = r
      BY <3>2 DEF AuthInv, AuthTypeOK
    <3>4. AuthRequestOK(p)'
      BY <2>1, <3>1, <3>2, <3>3 DEF AuthRequestOK
    <3> QED
      BY <1>2, <2>1, <2>2, <2>4, <2>5, <2>7, <3>1, <3>2, <3>4, RequestMoves
         DEF RefreshLocksSession, tabVars, Refuse
  <2>8. CASE verdict = "rotate" /\ Lock(p) /\ Reach(p, "rotate")
             /\ UNCHANGED <<version, session, token, access, tabVars>>
    <3> DEFINE r == [req[p] EXCEPT !.pc = "rotate"]
    <3>1. /\ r \in RequestRecord /\ r.kind = "refresh" /\ r.pc = "rotate" /\ r.tok = req[p].tok
          /\ r.deaf = req[p].deaf /\ r.sid = req[p].sid
      BY <1>1, <2>1 DEF RequestRecord
    <3>2. req' = [req EXCEPT ![p] = r] /\ CanLock(p) /\ Lock(p) /\ UNCHANGED <<session, token>>
      BY <1>2, <2>8 DEF RefreshLocksSession, Reach
    <3> HIDE DEF r
    <3>3. req'[p] = r /\ held[p] \subseteq held'[p]
      BY <3>2, Locked DEF AuthInv, AuthTypeOK
    <3>4. AuthRequestOK(p)'
      BY <2>1, <2>4, <2>8, <3>1, <3>2, <3>3 DEF AuthRequestOK, Valid, TokenRow
    <3> QED
      BY <2>1, <2>8, <3>1, <3>2, <3>4, RequestMoves DEF tabVars
  <2> QED
    BY <1>2, <2>2, <2>6, <2>7, <2>8 DEF RefreshLocksSession
<1>3. CASE LogoutLocksSession(p)
  <2>1. /\ req[p].kind \in {"logout", "logoutAll"} /\ req[p].pc = "session" /\ p \in Clients
        /\ p \notin Tabs
    BY <1>1, <1>3 DEF LogoutLocksSession, AuthRequestOK
  <2>2. CASE Refuse(p, "unauthorized")
    BY <2>1, <2>2, RequestRefused
  <2>3. CASE Valid(req[p].sid) /\ Lock(p) /\ ~Refuse(p, "unauthorized")
    <3>1. PICK pc \in {"tokens", "user"} :
            pc = IF req[p].kind = "logout" THEN "tokens" ELSE "user"
      OBVIOUS
    <3> DEFINE r == [req[p] EXCEPT !.pc = pc, !.ids = {req[p].sid}]
    <3>2. r \in RequestRecord /\ r.kind = req[p].kind /\ r.pc = pc
      BY <1>1, <2>1 DEF RequestRecord
    <3>3. req' = [req EXCEPT ![p] = r] /\ CanLock(p) /\ Lock(p)
      BY <1>3, <2>3, <3>1 DEF LogoutLocksSession
    <3> HIDE DEF r
    <3>4. req'[p] = r
      BY <3>3 DEF AuthInv, AuthTypeOK
    <3>5. AuthRequestOK(p)'
      BY <2>1, <3>1, <3>2, <3>4 DEF AuthRequestOK
    <3> QED
      BY <1>3, <2>1, <2>3, <3>2, <3>3, <3>5, RequestMoves DEF LogoutLocksSession, tabVars
  <2> QED
    BY <1>3, <2>2, <2>3 DEF LogoutLocksSession
<1>4. CASE AuthDeadlockAborts(p)
  <2>1. Refuse(p, "error") /\ Waits(p)
    BY <1>4 DEF AuthDeadlockAborts, Deadlocked
  <2>2. req[p].kind # "none"
    <3>1. Wanted(p) # {}
      BY <2>1 DEF Waits
    <3>2. req[p].pc # "idle"
      BY <3>1 DEF Wanted
    <3> QED
      BY <1>1, <3>2 DEF AuthRequestOK
  <2> QED
    BY <2>1, <2>2, RequestRefused
<1> QED
  BY <1>2, <1>3, <1>4

\* A tab that is given a new token has it alone.
LEMMA TokenIssued ==
  ASSUME AuthInv, webLocks, lost = 0, NEW p \in Tabs, req[p].kind \in {"login", "refresh"},
         NEW n \in Nat, n = Len(token) + 1, End(p, "ok", n), n \in DOMAIN token', ~token'[n].used,
         \A i \in DOMAIN token : token'[i].used =>
            (token[i].used \/ (req[p].kind = "refresh" /\ i = req[p].tok)),
         \A s \in DOMAIN session' : session'[s].reason # "refresh"
  PROVE  TabsApart' /\ \A t \in Tabs : TabOK(t)'
<1>1. /\ TabsApart /\ \A t \in Tabs : TabOK(t) /\ AuthRequestOK(t) 
      /\ Issued /\ token \in Seq(TokenRecord) /\ p \in Proc /\ cookie \in Nat
  BY DEF AuthInv, AuthTypeOK, Proc
<1>2. /\ req'[p] = NoReq /\ \A t \in Tabs \ {p} : req'[t] = req[t] /\ answer'[t] = answer[t]
      /\ answer'[p].res = "ok" /\ answer'[p].tok = n
      /\ UNCHANGED <<cookie, view, flight, lost, webLocks>>
  BY <1>1, RequestEnded DEF TabOK, Proc
<1>3. /\ cookie < n
      /\ \A t \in Tabs : answer[t].res = "ok" => answer[t].tok \in DOMAIN token /\ answer[t].tok # n
      /\ \A t \in Tabs : req[t].kind = "refresh" => req[t].tok \in DOMAIN token /\ req[t].tok # n
  BY <1>1 DEF Issued, AuthRequestOK
<1>4. /\ answer[p].res = "none"
      /\ req[p].kind = "refresh" => flight[p] = "first"
      /\ req[p].kind = "login" => flight[p] = "login"
  BY <1>1 DEF TabOK
<1>5. TabsApart'
  <2>1. ASSUME cookie' # 0 /\ token'[cookie'].used
        PROVE  \E t \in Tabs : (InLock(t) /\ answer[t].res = "ok")'
    <3>1. cookie' = cookie /\ cookie \in DOMAIN token
      BY <1>1, <1>2, <1>3, <2>1
    <3>2. CASE token[cookie].used
      <4>1. PICK t \in Tabs : InLock(t) /\ answer[t].res = "ok"
        BY <1>1, <2>1, <3>1, <3>2 DEF TabsApart
      <4>2. t # p
        BY <1>4, <4>1
      <4> QED
        BY <1>2, <4>1, <4>2 DEF InLock
    <3>3. CASE req[p].kind = "refresh"
      BY <1>2, <1>4, <3>3 DEF InLock
    <3> QED
      BY <2>1, <3>1, <3>2, <3>3
  <2>2. \A t, u \in Tabs : InLock(t)' /\ InLock(u)' => t = u
    BY <1>1, <1>2 DEF TabsApart, InLock
  <2>3. \A t, u \in Tabs : t # u /\ answer'[t].res = "ok" =>
          /\ answer'[u].res = "ok" => answer'[u].tok # answer'[t].tok
          /\ req'[u].kind = "refresh" => req'[u].tok # answer'[t].tok
    BY <1>1, <1>2, <1>3 DEF TabsApart, NoReq
  <2> QED
    BY <2>1, <2>2, <2>3 DEF TabsApart
<1>6. TabOK(p)'
  BY <1>2, <1>3, <1>4 DEF TabOK, NoReq
<1>7. ASSUME NEW t \in Tabs \ {p} PROVE TabOK(t)'
  <2>1. TabOK(t) /\ req'[t] = req[t] /\ answer'[t] = answer[t] /\ UNCHANGED <<cookie, flight>>
    BY <1>1, <1>2
  <2>2. ASSUME req[t].kind = "refresh" PROVE ~token'[req[t].tok].used
    <3>1. InLock(t) /\ ~token[req[t].tok].used
      BY <2>1, <2>2 DEF TabOK, InLock
    <3>2. req[p].kind # "refresh"
      BY <1>1, <1>4, <3>1 DEF TabsApart, InLock
    <3> QED
      BY <1>3, <2>2, <3>1, <3>2
  <2>3. ASSUME answer[t].res = "ok" PROVE ~token'[answer[t].tok].used
    <3>1. ~token[answer[t].tok].used /\ answer[t].tok \in DOMAIN token
      BY <1>3, <2>1, <2>3 DEF TabOK
    <3>2. req[p].kind = "refresh" => req[p].tok # answer[t].tok
      BY <1>1, <2>3 DEF TabsApart
    <3> QED
      BY <3>1, <3>2
  <2> QED
    BY <2>1, <2>2, <2>3 DEF TabOK
<1> QED
  BY <1>5, <1>6, <1>7

\* The commit of a login: the user row it has waited for is not held by a logout of all sessions.
LEMMA LoginStep ==
  ASSUME AuthInv, NEW p \in Proc, LoginCommits(p)
  PROVE  AuthInv'
<1> DEFINE s == Len(session) + 1  n == Len(token) + 1
<1>1. /\ s \in Nat /\ n \in Nat /\ session \in Seq(SessionRecord) /\ token \in Seq(TokenRecord)
      /\ AuthRequestOK(p) /\ req[p] \in RequestRecord
  BY DEF AuthInv, AuthTypeOK
<1>2. /\ req[p].kind = "login" /\ req[p].pc = "user" /\ CanLock(p) /\ End(p, "ok", n)
      /\ session' = Append(session, NewSession) /\ token' = Append(token, NewToken(s))
      /\ access' = access \cup {[sid |-> s, ver |-> req[p].ver]} /\ UNCHANGED version
  BY DEF LoginCommits
<1>3. p \in Tabs
  BY <1>1, <1>2 DEF AuthRequestOK
<1>4. NewSession \in SessionRecord /\ NewSession.status = "active" /\ NewSession.reason = "none"
  BY DEF NewSession, SessionRecord
<1>5. PICK new \in TokenRecord : new = NewToken(s) /\ new.sid = s /\ ~new.used
  <2>1. NewToken(s) \in TokenRecord /\ NewToken(s).sid = s /\ ~NewToken(s).used
    BY <1>1 DEF NewToken, TokenRecord
  <2> QED
    BY <2>1
<1>6. /\ session' \in Seq(SessionRecord) /\ DOMAIN session' = DOMAIN session \cup {s}
      /\ \A x \in DOMAIN session : session'[x] = session[x] /\ x # s
      /\ session'[s].status = "active" /\ session'[s].reason = "none"
  BY <1>1, <1>2, <1>4
<1>7. /\ token' \in Seq(TokenRecord) /\ DOMAIN token' = DOMAIN token \cup {n} /\ Len(token') = n
      /\ \A i \in DOMAIN token : token'[i] = token[i] /\ i # n
      /\ token'[n] = new
  BY <1>1, <1>2, <1>5
<1>8. /\ req' \in [Proc -> RequestRecord] /\ req'[p] = NoReq
      /\ held' = [q \in Proc |-> held'[q]] /\ LocksApart'
      /\ \A q \in Proc \ {p} : req'[q] = req[q] /\ held'[q] = held[q]
      /\ answer' \in [Tabs -> AnswerRecord] /\ \A t \in Tabs \ {p} : answer'[t] = answer[t]
      /\ IF req[p].deaf THEN answer'[p] = answer[p] ELSE answer'[p].res = "ok" /\ answer'[p].tok = n
      /\ UNCHANGED <<cookie, view, flight, lost, webLocks>>
  BY <1>1, <1>2, <1>3, RequestEnded
<1> HIDE DEF s, n
<1>9. AuthTypeOK'
  <2>1. access' \subseteq [sid : Nat, ver : Nat]
    BY <1>1, <1>2 DEF AuthInv, AuthTypeOK, RequestRecord
  <2> QED
    BY <1>2, <1>6, <1>7, <1>8, <2>1 DEF AuthInv, AuthTypeOK
<1>10. ASSUME NEW q \in Proc PROVE AuthRequestOK(q)'
  <2>1. CASE q = p
    BY <1>8, <2>1 DEF AuthRequestOK, NoReq
  <2>2. CASE q # p
    <3>1. AuthRequestOK(q) /\ req'[q] = req[q] /\ held'[q] = held[q]
      BY <1>8, <2>2 DEF AuthInv
    <3>2. UserRow \notin held[q]
      <4>1. Wanted(p) = {UserRow}
        BY <1>2 DEF Wanted
      <4>2. NextRow(p) = UserRow
        BY <4>1, OnlyRow DEF UserRow
      <4> QED
        BY <1>2, <2>2, <4>2 DEF CanLock, Holders
    <3>3. req[q].pc = "rotate" => req[q].sid \in DOMAIN session /\ req[q].kind = "refresh"
      BY <3>1 DEF AuthRequestOK, AuthInv, TokensOK
    <3> QED
      BY <1>6, <1>7, <3>1, <3>2, <3>3 DEF AuthRequestOK, TokenRow, UserRow
  <2> QED
    BY <2>1, <2>2
<1>11. TokensOK'
  <2>1. \A i \in DOMAIN token : token[i].sid \in DOMAIN session /\ token[i].sid # s
    BY <1>6 DEF AuthInv, TokensOK
  <2> QED
    BY <1>5, <1>6, <1>7, <2>1 DEF AuthInv, TokensOK, LiveToken
<1>12. Issued'
  <2>1. cookie' <= Len(token')
    BY <1>1, <1>7, <1>8 DEF AuthInv, AuthTypeOK, Issued, n
  <2>2. \A t \in Tabs : answer'[t].res = "ok" => answer'[t].tok \in DOMAIN token'
    BY <1>7, <1>8 DEF AuthInv, Issued
  <2> QED
    BY <2>1, <2>2 DEF Issued
<1>13. ASSUME webLocks' /\ lost' = 0 PROVE TabsApart' /\ \A t \in Tabs : TabOK(t)'
  <2>1. webLocks /\ lost = 0 /\ \A x \in DOMAIN session : session[x].reason # "refresh"
    BY <1>8, <1>13 DEF AuthInv, TabsApart
  <2> QED
    BY <1>1, <1>2, <1>3, <1>5, <1>6, <1>7, <2>1, TokenIssued DEF n
<1> QED
  BY <1>8, <1>9, <1>10, <1>11, <1>12, <1>13 DEF AuthInv

\* The commit of a rotation: it holds the row of the token, so nobody else has exchanged or
\* revoked it, nor ended its session.
LEMMA RotateStep ==
  ASSUME AuthInv, NEW p \in Proc, RefreshCommits(p)
  PROVE  AuthInv'
<1>1. /\ session \in Seq(SessionRecord) /\ token \in Seq(TokenRecord)
      /\ AuthRequestOK(p) /\ req[p] \in RequestRecord /\ version \in Nat
  BY DEF AuthInv, AuthTypeOK
<1>2. PICK n \in Nat, i \in DOMAIN token, s \in Nat :
        n = Len(token) + 1 /\ i = req[p].tok /\ s = req[p].sid
  BY <1>1 DEF RefreshCommits, AuthRequestOK, RequestRecord
<1>3. /\ req[p].kind = "refresh" /\ req[p].pc = "rotate" /\ p \in Tabs /\ token[i].sid = s
      /\ TokenRow(i) \in held[p] /\ ~token[i].used /\ ~token[i].revoked
      /\ s \in DOMAIN session /\ session[s].status = "active"
  BY <1>1, <1>2 DEF RefreshCommits, AuthRequestOK, AuthInv, TokensOK
<1>4. PICK new \in TokenRecord : new = NewToken(s) /\ new.sid = s /\ ~new.used /\ ~new.revoked
  <2>1. NewToken(s) \in TokenRecord /\ NewToken(s).sid = s /\ ~NewToken(s).used /\ ~NewToken(s).revoked
    BY DEF NewToken, TokenRecord
  <2> QED
    BY <2>1
<1>5. PICK old \in TokenRecord : /\ old = [token[i] EXCEPT !.used = TRUE] /\ old.used
                                 /\ old.sid = s /\ old.revoked = token[i].revoked
  <2> DEFINE o == [token[i] EXCEPT !.used = TRUE]
  <2>1. token[i] \in TokenRecord
    BY <1>1
  <2>2. o \in TokenRecord /\ o.used /\ o.sid = s /\ o.revoked = token[i].revoked
    BY <1>3, <2>1 DEF TokenRecord
  <2> QED
    BY <2>2
<1>6. /\ token' = Append([token EXCEPT ![i] = old], new) /\ UNCHANGED <<version, session>>
      /\ access' = access \cup {[sid |-> s, ver |-> version]} /\ End(p, "ok", n)
  BY <1>2, <1>4, <1>5 DEF RefreshCommits
<1>7. /\ token' \in Seq(TokenRecord) /\ DOMAIN token' = DOMAIN token \cup {n} /\ Len(token') = n
      /\ n \notin DOMAIN token
      /\ \A j \in DOMAIN token \ {i} : token'[j] = token[j]
      /\ token'[n] = new /\ token'[i] = old
  BY <1>1, <1>2, <1>6
<1>8. /\ req' \in [Proc -> RequestRecord] /\ req'[p] = NoReq
      /\ held' = [q \in Proc |-> held'[q]] /\ LocksApart'
      /\ \A q \in Proc \ {p} : req'[q] = req[q] /\ held'[q] = held[q]
      /\ answer' \in [Tabs -> AnswerRecord] /\ \A t \in Tabs \ {p} : answer'[t] = answer[t]
      /\ IF req[p].deaf THEN answer'[p] = answer[p] ELSE answer'[p].res = "ok" /\ answer'[p].tok = n
      /\ UNCHANGED <<cookie, view, flight, lost, webLocks>>
  BY <1>1, <1>3, <1>6, RequestEnded
<1>9. AuthTypeOK'
  BY <1>1, <1>6, <1>7, <1>8 DEF AuthInv, AuthTypeOK
<1>10. ASSUME NEW q \in Proc PROVE AuthRequestOK(q)'
  <2>1. CASE q = p
    BY <1>8, <2>1 DEF AuthRequestOK, NoReq
  <2>2. CASE q # p
    <3>1. AuthRequestOK(q) /\ req'[q] = req[q] /\ held'[q] = held[q] /\ TokenRow(i) \notin held[q]
      BY <1>3, <1>8, <2>2 DEF AuthInv, LocksApart
    <3>2. req[q].kind = "refresh" /\ req[q].pc \in {"session", "rotate"} => req[q].tok # i
      BY <3>1 DEF AuthRequestOK
    <3>3. req[q].kind = "refresh" => req[q].tok \in DOMAIN token' /\ token'[req[q].tok].sid = token[req[q].tok].sid
      <4>1. \A j \in DOMAIN token : j \in DOMAIN token' /\ token'[j].sid = token[j].sid
        BY <1>3, <1>5, <1>7
      <4> QED
        BY <3>1, <4>1 DEF AuthRequestOK
    <3>4. req[q].pc = "rotate" => token'[req[q].tok] = token[req[q].tok]
      BY <1>7, <3>1, <3>2 DEF AuthRequestOK
    <3> QED
      BY <1>6, <3>1, <3>3, <3>4 DEF AuthRequestOK, TokenRow, UserRow
  <2> QED
    BY <2>1, <2>2
<1>11. TokensOK'
  <2>1. \A j \in DOMAIN token : token[j].sid = s /\ LiveToken(j) => j = i
    BY <1>3 DEF AuthInv, TokensOK, LiveToken
  <2>2. \A j \in DOMAIN token : LiveToken(j)' => LiveToken(j) /\ j # i
    BY <1>5, <1>7 DEF LiveToken
  <2>3. \A j \in DOMAIN token : token'[j].sid = token[j].sid
    BY <1>3, <1>5, <1>7
  <2>4. ASSUME NEW j \in DOMAIN token'
        PROVE  /\ token'[j].sid \in DOMAIN session
               /\ LiveToken(j)' => session[token'[j].sid].status = "active"
    BY <1>3, <1>4, <1>7, <2>2, <2>3, <2>4 DEF AuthInv, TokensOK
  <2>5. ASSUME NEW j \in DOMAIN token', NEW k \in DOMAIN token', LiveToken(j)', LiveToken(k)',
               token'[j].sid = token'[k].sid
        PROVE  j = k
    <3>1. CASE j # n /\ k # n
      BY <1>7, <2>2, <2>3, <2>5, <3>1 DEF AuthInv, TokensOK
    <3>2. CASE j = n \/ k = n
      BY <1>4, <1>7, <2>1, <2>2, <2>3, <2>5, <3>2
    <3> QED
      BY <3>1, <3>2
  <2> QED
    BY <1>6, <2>4, <2>5 DEF TokensOK
<1>12. Issued'
  <2>1. cookie' <= Len(token')
    BY <1>1, <1>2, <1>7, <1>8 DEF AuthInv, AuthTypeOK, Issued
  <2>2. \A t \in Tabs : answer'[t].res = "ok" => answer'[t].tok \in DOMAIN token'
    BY <1>7, <1>8 DEF AuthInv, Issued
  <2> QED
    BY <2>1, <2>2 DEF Issued
<1>13. ASSUME webLocks' /\ lost' = 0 PROVE TabsApart' /\ \A t \in Tabs : TabOK(t)'
  <2>1. webLocks /\ lost = 0 /\ \A x \in DOMAIN session' : session'[x].reason # "refresh"
    BY <1>6, <1>8, <1>13 DEF AuthInv, TabsApart
  <2>2. \A j \in DOMAIN token : token'[j].used => (token[j].used \/ (req[p].kind = "refresh" /\ j = req[p].tok))
    BY <1>2, <1>3, <1>7
  <2> QED
    BY <1>2, <1>3, <1>4, <1>6, <1>7, <2>1, <2>2, TokenIssued
<1> QED
  BY <1>8, <1>9, <1>10, <1>11, <1>12, <1>13 DEF AuthInv

\* The commit of a logout, of all sessions or after a reuse: every token of the sessions it
\* ends that is not revoked yet is locked, so nobody is rotating one of them.
LEMMA RevokeStep ==
  ASSUME AuthInv, NEW p \in Proc, RevokeCommits(p)
  PROVE  AuthInv' /\ (version' # version => \A s \in DOMAIN session' : session'[s].status = "revoked")
<1>1. /\ session \in Seq(SessionRecord) /\ token \in Seq(TokenRecord)
      /\ AuthRequestOK(p) /\ req[p] \in RequestRecord /\ version \in Nat
      /\ DOMAIN session = 1..Len(session) /\ DOMAIN token = 1..Len(token)
      /\ Len(session) \in Nat /\ Len(token) \in Nat
  BY DEF AuthInv, AuthTypeOK
<1>2. /\ req[p].pc = "tokens" /\ req[p].kind \in {"refresh", "logout", "logoutAll"}
      /\ Wanted(p) = {} /\ End(p, "invalid", 0)
  BY <1>1 DEF RevokeCommits, AuthRequestOK
<1>3. PICK ids \in SUBSET Nat : ids = req[p].ids
  BY <1>1 DEF RequestRecord
<1>4. \A i \in DOMAIN token : token[i].sid \in ids /\ ~token[i].revoked => TokenRow(i) \in held[p]
  BY <1>2, <1>3 DEF Wanted, Unrevoked
<1>5. /\ session' = [s \in DOMAIN session |->
                       IF s \in ids
                       THEN [session[s] EXCEPT !.status = "revoked", !.reason = req[p].kind]
                       ELSE session[s]]
      /\ token' = [i \in DOMAIN token |->
                     [token[i] EXCEPT !.revoked = @ \/ token[i].sid \in ids]]
      /\ version' = IF req[p].kind = "logoutAll" THEN req[p].ver + 1 ELSE version
      /\ UNCHANGED access
  BY <1>3 DEF RevokeCommits
<1>6. /\ session' \in Seq(SessionRecord) /\ DOMAIN session' = DOMAIN session
      /\ \A s \in DOMAIN session :
           IF s \in ids THEN session'[s].status = "revoked" /\ session'[s].reason = req[p].kind
           ELSE session'[s] = session[s]
  <2>1. ASSUME NEW s \in DOMAIN session
        PROVE  /\ session'[s] \in SessionRecord
               /\ IF s \in ids THEN session'[s].status = "revoked" /\ session'[s].reason = req[p].kind
                  ELSE session'[s] = session[s]
    <3>1. session[s] \in SessionRecord
      BY <1>1
    <3> QED
      BY <1>2, <1>5, <3>1 DEF SessionRecord
  <2>2. session' = [s \in 1..Len(session) |-> session'[s]]
    BY <1>1, <1>5
  <2>3. session' \in [1..Len(session) -> SessionRecord]
    BY <1>1, <2>1, <2>2
  <2> QED
    BY <1>1, <2>1, <2>2, <2>3
<1>7. /\ token' \in Seq(TokenRecord) /\ DOMAIN token' = DOMAIN token /\ Len(token') = Len(token)
      /\ \A i \in DOMAIN token :
           /\ token'[i].sid = token[i].sid /\ token'[i].used = token[i].used
           /\ token'[i].revoked = (token[i].revoked \/ token[i].sid \in ids)
  <2>1. ASSUME NEW i \in DOMAIN token
        PROVE  /\ token'[i] \in TokenRecord
               /\ token'[i].sid = token[i].sid /\ token'[i].used = token[i].used
               /\ token'[i].revoked = (token[i].revoked \/ token[i].sid \in ids)
    <3>1. token[i] \in TokenRecord
      BY <1>1
    <3>2. PICK b \in BOOLEAN : b = (token[i].revoked \/ token[i].sid \in ids)
      OBVIOUS
    <3>3. token'[i] = [token[i] EXCEPT !.revoked = b]
      BY <1>5, <3>1, <3>2 DEF TokenRecord
    <3> QED
      BY <3>1, <3>2, <3>3 DEF TokenRecord
  <2>2. token' = [i \in 1..Len(token) |-> token'[i]]
    BY <1>1, <1>5
  <2>3. token' \in [1..Len(token) -> TokenRecord]
    BY <1>1, <2>1, <2>2
  <2> QED
    BY <1>1, <2>1, <2>2, <2>3
<1>8. /\ req' \in [Proc -> RequestRecord] /\ req'[p] = NoReq
      /\ held' = [q \in Proc |-> held'[q]] /\ LocksApart'
      /\ \A q \in Proc \ {p} : req'[q] = req[q] /\ held'[q] = held[q]
      /\ answer' \in [Tabs -> AnswerRecord] /\ \A t \in Tabs \ {p} : answer'[t] = answer[t]
      /\ p \in Tabs => IF req[p].deaf THEN answer'[p] = answer[p] ELSE answer'[p].res = "invalid"
      /\ UNCHANGED <<cookie, view, flight, lost, webLocks>>
  BY <1>2, RequestEnded
<1>9. AuthTypeOK'
  <2>1. version' \in Nat
    <3>1. req[p].ver \in Nat
      BY <1>1 DEF RequestRecord
    <3>2. version' = IF req[p].kind = "logoutAll" THEN req[p].ver + 1 ELSE version
      BY <1>5
    <3> QED
      BY <1>1, <3>1, <3>2
  <2> QED
    BY <1>5, <1>6, <1>7, <1>8, <2>1 DEF AuthInv, AuthTypeOK
<1>10. ASSUME NEW q \in Proc PROVE AuthRequestOK(q)'
  <2>1. CASE q = p
    BY <1>8, <2>1 DEF AuthRequestOK, NoReq
  <2>2. CASE q # p
    <3>1. AuthRequestOK(q) /\ req'[q] = req[q] /\ held'[q] = held[q]
      BY <1>8, <2>2 DEF AuthInv
    <3>2. req[q].pc = "rotate" =>
            /\ req[q].tok \in DOMAIN token /\ TokenRow(req[q].tok) \in held[q]
            /\ ~token[req[q].tok].revoked /\ token[req[q].tok].sid = req[q].sid
            /\ req[q].sid \in DOMAIN session
      BY <3>1 DEF AuthRequestOK, AuthInv, TokensOK
    <3>3. req[q].pc = "rotate" => TokenRow(req[q].tok) \notin held[p]
      BY <2>2, <3>2 DEF AuthInv, LocksApart
    <3>4. req[q].pc = "rotate" => req[q].sid \notin ids
      BY <1>4, <3>2, <3>3
    <3>5. req[q].pc = "rotate" => /\ session'[req[q].sid] = session[req[q].sid]
                                  /\ ~token'[req[q].tok].revoked
      BY <1>6, <1>7, <3>2, <3>4
    <3>6. \A s \in DOMAIN session : session[s].status = "revoked" => session'[s].status = "revoked"
      BY <1>6
    <3> QED
      BY <1>6, <1>7, <3>1, <3>5, <3>6 DEF AuthRequestOK, TokenRow, UserRow
  <2> QED
    BY <2>1, <2>2
<1>11. TokensOK'
  <2>1. \A i \in DOMAIN token : LiveToken(i)' => LiveToken(i) /\ token[i].sid \notin ids
    BY <1>7 DEF LiveToken
  <2>2. \A i \in DOMAIN token : token[i].sid \in DOMAIN session
    BY DEF AuthInv, TokensOK
  <2> QED
    BY <1>6, <1>7, <2>1, <2>2 DEF AuthInv, TokensOK
<1>12. Issued'
  BY <1>7, <1>8 DEF AuthInv, Issued
<1>13. ASSUME webLocks' /\ lost' = 0 PROVE TabsApart' /\ \A t \in Tabs : TabOK(t)'
  <2>1. webLocks /\ lost = 0 /\ TabsApart /\ \A t \in Tabs : TabOK(t) /\ AuthRequestOK(t)
    BY <1>8, <1>13 DEF AuthInv, Proc
  <2>2. p \notin Tabs /\ req[p].kind # "refresh"
    BY <1>1, <1>2, <2>1, AuthAssumption DEF TabOK, AuthRequestOK
  <2>3. answer' = answer /\ \A t \in Tabs : req'[t] = req[t]
    BY <1>2, <1>8, <2>2 DEF End, Proc
  <2>4. \A i \in DOMAIN token : token'[i].used = token[i].used
    BY <1>7
  <2>5. cookie # 0 => cookie \in DOMAIN token
    BY <1>1 DEF AuthInv, AuthTypeOK, Issued
  <2>6. TabsApart'
    BY <1>6, <1>8, <2>1, <2>2, <2>3, <2>4, <2>5 DEF TabsApart, InLock
  <2>7. \A t \in Tabs : TabOK(t)'
    BY <1>8, <2>1, <2>3, <2>4 DEF TabOK, AuthRequestOK, AuthInv, Issued
  <2> QED
    BY <2>6, <2>7
<1>14. ASSUME version' # version PROVE \A s \in DOMAIN session' : session'[s].status = "revoked"
  <2>1. req[p].kind = "logoutAll"
    BY <1>5, <1>14
  <2>2. \A s \in DOMAIN session \ ids : session[s].status = "revoked"
    BY <1>1, <1>2, <1>3, <2>1 DEF AuthRequestOK
  <2> QED
    BY <1>6, <2>2
<1> QED
  BY <1>8, <1>9, <1>10, <1>11, <1>12, <1>13, <1>14 DEF AuthInv

\* Time passes: a used token ages, a session expires.
LEMMA TimeSteps ==
  ASSUME AuthInv,
         (\E i \in DOMAIN token : GraceEnds(i)) \/ (\E s \in DOMAIN session : SessionExpires(s))
  PROVE  AuthInv' /\ UNCHANGED version
<1>1. session \in Seq(SessionRecord) /\ token \in Seq(TokenRecord) 
  BY DEF AuthInv, AuthTypeOK
<1> DEFINE Older ==
         /\ session' \in Seq(SessionRecord) /\ token' \in Seq(TokenRecord)
         /\ Len(token') = Len(token) /\ DOMAIN token' = DOMAIN token /\ DOMAIN session' = DOMAIN session
         /\ \A i \in DOMAIN token : /\ token'[i].sid = token[i].sid /\ token'[i].used = token[i].used
                                    /\ token'[i].revoked = token[i].revoked
         /\ \A s \in DOMAIN session : /\ session'[s].status = session[s].status
                                      /\ session'[s].reason = session[s].reason
<1>2. Older
  <2>1. ASSUME NEW i \in DOMAIN token, GraceEnds(i) PROVE Older
    <3> DEFINE r == [token[i] EXCEPT !.aged = TRUE]
    <3>1. token[i] \in TokenRecord
      BY <1>1
    <3>2. /\ r \in TokenRecord /\ r.sid = token[i].sid /\ r.used = token[i].used
          /\ r.revoked = token[i].revoked
      BY <3>1 DEF TokenRecord
    <3>3. token' = [token EXCEPT ![i] = r] /\ UNCHANGED session
      BY <2>1 DEF GraceEnds
    <3> HIDE DEF r
    <3> QED
      BY <1>1, <3>2, <3>3
  <2>2. ASSUME NEW s \in DOMAIN session, SessionExpires(s) PROVE Older
    <3> DEFINE r == [session[s] EXCEPT !.expired = TRUE]
    <3>1. session[s] \in SessionRecord
      BY <1>1
    <3>2. /\ r \in SessionRecord /\ r.status = session[s].status /\ r.reason = session[s].reason
      BY <3>1 DEF SessionRecord
    <3>3. session' = [session EXCEPT ![s] = r] /\ UNCHANGED token
      BY <2>2 DEF SessionExpires
    <3> HIDE DEF r
    <3> QED
      BY <1>1, <3>2, <3>3
  <2> QED
    BY <2>1, <2>2
<1>3. UNCHANGED <<version, access, req, held, answer, cookie, flight, lost, webLocks>>
  BY DEF GraceEnds, SessionExpires, tabVars
<1>4. AuthTypeOK' /\ LocksApart'
  BY <1>2, <1>3 DEF AuthInv, AuthTypeOK, LocksApart
<1>5. ASSUME NEW q \in Proc PROVE AuthRequestOK(q)'
  <2>1. AuthRequestOK(q) /\ req'[q] = req[q] /\ held'[q] = held[q]
    BY <1>3 DEF AuthInv
  <2>2. req[q].pc = "rotate" => req[q].kind = "refresh" /\ req[q].sid \in DOMAIN session
    BY <2>1 DEF AuthRequestOK, AuthInv, TokensOK
  <2> QED
    BY <1>2, <2>1, <2>2 DEF AuthRequestOK, TokenRow, UserRow
<1>6. TokensOK' /\ Issued'
  BY <1>2, <1>3 DEF AuthInv, TokensOK, LiveToken, Issued
<1>7. ASSUME webLocks' /\ lost' = 0 PROVE TabsApart' /\ \A t \in Tabs : TabOK(t)'
  <2>1. /\ TabsApart /\ \A t \in Tabs : TabOK(t) /\ AuthRequestOK(t)
        /\ cookie # 0 => cookie \in DOMAIN token
        /\ \A t \in Tabs : answer[t].res = "ok" => answer[t].tok \in DOMAIN token
    BY <1>1, <1>3, <1>7 DEF AuthInv, AuthTypeOK, Issued, Proc
  <2>2. TabsApart'
    BY <1>2, <1>3, <2>1 DEF TabsApart, InLock
  <2>3. \A t \in Tabs : TabOK(t)'
    BY <1>2, <1>3, <2>1 DEF TabOK, AuthRequestOK
  <2> QED
    BY <2>2, <2>3
<1> QED
  BY <1>3, <1>4, <1>5, <1>6, <1>7 DEF AuthInv

\* A tab goes on by itself: it sends a request, waits, or is answered without one.
LEMMA TabMoves ==
  ASSUME AuthInv, NEW t \in Tabs, NEW r \in RequestRecord, NEW a \in AnswerRecord,
         NEW stage \in {"login", "queued", "first", "raced", "second"},
         req' = [req EXCEPT ![t] = r], answer' = [answer EXCEPT ![t] = a],
         flight' = [flight EXCEPT ![t] = stage],
         UNCHANGED <<version, session, token, access, held, cookie, lost, webLocks>>,
         AuthRequestOK(t)', a.res = "ok" => a = answer[t],
         webLocks /\ lost = 0 =>
           /\ TabOK(t)' /\ answer[t].res # "ok"
           /\ stage = "first" => \A u \in Tabs \ {t} : ~InLock(u)
           /\ r.kind = "refresh" => r = req[t] \/ r.tok = cookie
  PROVE  AuthInv'
<1>1. /\ req' \in [Proc -> RequestRecord] /\ answer' \in [Tabs -> AnswerRecord]
      /\ flight' \in [Tabs -> {"none", "login", "queued", "first", "raced", "second"}]
      /\ req'[t] = r /\ answer'[t] = a /\ flight'[t] = stage
      /\ \A p \in Proc \ {t} : req'[p] = req[p]
      /\ \A u \in Tabs \ {t} : req'[u] = req[u] /\ answer'[u] = answer[u] /\ flight'[u] = flight[u]
  BY DEF AuthInv, AuthTypeOK, Proc
<1>2. AuthTypeOK' /\ LocksApart' /\ TokensOK'
  BY <1>1 DEF AuthInv, AuthTypeOK, LocksApart, TokensOK, LiveToken
<1>3. \A p \in Proc : AuthRequestOK(p)'
  BY <1>1 DEF AuthInv, AuthRequestOK
<1>4. Issued'
  BY <1>1 DEF AuthInv, Issued
<1>5. ASSUME webLocks' /\ lost' = 0 PROVE TabsApart' /\ \A u \in Tabs : TabOK(u)'
  <2>1. /\ TabsApart /\ \A u \in Tabs : TabOK(u)
        /\ TabOK(t)' /\ answer[t].res # "ok"
        /\ stage = "first" => \A u \in Tabs \ {t} : ~InLock(u)
        /\ r.kind = "refresh" => r = req[t] \/ r.tok = cookie
    BY <1>5 DEF AuthInv
  <2>2. stage \in {"login", "queued", "first"} /\ a.res # "ok"
    BY <1>1, <2>1 DEF TabOK
  <2>3. \A u, v \in Tabs : InLock(u)' /\ InLock(v)' => u = v
    BY <1>1, <2>1, <2>2 DEF TabsApart, InLock
  <2>4. \A u, v \in Tabs : u # v /\ answer'[u].res = "ok" =>
          /\ answer'[v].res = "ok" => answer'[v].tok # answer'[u].tok
          /\ req'[v].kind = "refresh" => req'[v].tok # answer'[u].tok
    BY <1>1, <2>1, <2>2 DEF TabsApart, TabOK
  <2>5. cookie' # 0 /\ token'[cookie'].used => \E u \in Tabs : (InLock(u) /\ answer[u].res = "ok")'
    BY <1>1, <2>1 DEF TabsApart, InLock
  <2>6. \A u \in Tabs \ {t} : TabOK(u)'
    BY <1>1, <2>1 DEF TabOK
  <2> QED
    BY <2>1, <2>3, <2>4, <2>5, <2>6 DEF TabsApart
<1> QED
  BY <1>1, <1>2, <1>3, <1>4, <1>5 DEF AuthInv

\* A tab asks for a login or a refresh, or waits its turn.
LEMMA TabSteps ==
  ASSUME AuthInv, NEW t \in Tabs,
         \/ Login(t) \/ RefreshFirst(t) \/ RefreshAgain(t) \/ AnswerRace(t)
         \/ \E shown \in {"anonymous", "authenticated"} : RefreshBegins(t, shown)
  PROVE  AuthInv' /\ UNCHANGED version
<1>1. /\ t \in Proc /\ cookie \in Nat /\ version \in Nat /\ token \in Seq(TokenRecord)
      /\ req \in [Proc -> RequestRecord] /\ answer \in [Tabs -> AnswerRecord] /\ AuthRequestOK(t)
      /\ req[t] \in RequestRecord /\ answer[t] \in AnswerRecord
      /\ req = [req EXCEPT ![t] = req[t]] /\ answer = [answer EXCEPT ![t] = answer[t]]
  BY DEF AuthInv, AuthTypeOK, Proc
<1>2. NoReq \in RequestRecord /\ NoAnswer \in AnswerRecord /\ [res |-> "invalid", tok |-> 0] \in AnswerRecord
  BY DEF NoReq, RequestRecord, NoAnswer, AnswerRecord
<1>3. CASE Login(t)
  <2> DEFINE r == [NoReq EXCEPT !.kind = "login", !.pc = "user", !.ver = version]
  <2>1. r \in RequestRecord /\ r.kind = "login" /\ r.pc = "user" /\ ~r.deaf
    BY <1>1, <1>2 DEF NoReq, RequestRecord
  <2>2. /\ req' = [req EXCEPT ![t] = r] /\ answer' = [answer EXCEPT ![t] = answer[t]]
        /\ flight' = [flight EXCEPT ![t] = "login"]
        /\ UNCHANGED <<version, session, token, access, held, cookie, lost, webLocks>>
    BY <1>1, <1>3 DEF Login, Ask
  <2> HIDE DEF r
  <2>3. /\ req'[t] = r /\ answer'[t] = answer[t] /\ flight'[t] = "login" /\ flight[t] = "none"
    BY <1>1, <1>3, <2>2 DEF AuthInv, AuthTypeOK, Login
  <2>4. AuthRequestOK(t)'
    BY <2>1, <2>3 DEF AuthRequestOK
  <2>5. webLocks /\ lost = 0 => TabOK(t)' /\ answer[t].res = "none"
    BY <2>1, <2>3 DEF AuthInv, TabOK
  <2> QED
    BY <1>1, <2>1, <2>2, <2>4, <2>5, TabMoves
<1>4. ASSUME NEW stage \in {"first", "second"}, SendRefresh(t, stage),
             webLocks /\ lost = 0 =>
               stage = "first" /\ flight[t] = "queued" /\ \A u \in Tabs \ {t} : ~InLock(u)
      PROVE  AuthInv' /\ UNCHANGED version
  <2>1. /\ req[t].kind = "none" /\ flight' = [flight EXCEPT ![t] = stage] /\ flight'[t] = stage
        /\ UNCHANGED <<version, session, token, access, held, cookie, lost, webLocks>>
    BY <1>4 DEF SendRefresh, AuthInv, AuthTypeOK
  <2>2. webLocks /\ lost = 0 =>
          /\ TabOK(t) /\ answer[t].res # "ok" /\ stage = "first"
          /\ ~req[t].deaf /\ (cookie # 0 => ~token[cookie].used)
    BY <1>4 DEF AuthInv, TabOK, TabsApart, InLock
  <2>3. CASE cookie = 0
    <3> DEFINE a == [res |-> "invalid", tok |-> 0]
    <3>1. answer' = [answer EXCEPT ![t] = a] /\ req' = [req EXCEPT ![t] = req[t]]
      BY <1>1, <1>4, <2>3 DEF SendRefresh
    <3>2. a \in AnswerRecord /\ a.res = "invalid"
      BY <1>2
    <3> HIDE DEF a
    <3>3. answer'[t] = a /\ req'[t] = req[t]
      BY <1>1, <3>1
    <3>4. AuthRequestOK(t)'
      BY <1>1, <2>1, <3>3 DEF AuthRequestOK
    <3>5. webLocks /\ lost = 0 => TabOK(t)'
      BY <2>1, <2>2, <3>2, <3>3 DEF TabOK
    <3> QED
      BY <1>1, <1>4, <2>1, <2>2, <3>1, <3>2, <3>4, <3>5, TabMoves
  <2>4. CASE cookie # 0
    <3> DEFINE r == [NoReq EXCEPT !.kind = "refresh", !.pc = "token", !.tok = cookie]
    <3>1. answer' = [answer EXCEPT ![t] = NoAnswer] /\ req' = [req EXCEPT ![t] = r]
      BY <1>4, <2>4 DEF SendRefresh, Ask
    <3>2. r \in RequestRecord /\ r.kind = "refresh" /\ r.pc = "token" /\ r.tok = cookie /\ ~r.deaf
      BY <1>1, <1>2 DEF NoReq, RequestRecord
    <3> HIDE DEF r
    <3>3. answer'[t] = NoAnswer /\ req'[t] = r /\ NoAnswer.res = "none"
      BY <1>1, <3>1 DEF NoAnswer
    <3>4. cookie \in DOMAIN token
      BY <1>1, <2>4 DEF AuthInv, Issued
    <3>5. AuthRequestOK(t)'
      BY <2>1, <3>2, <3>3, <3>4 DEF AuthRequestOK
    <3>6. webLocks /\ lost = 0 => TabOK(t)'
      BY <2>1, <2>2, <2>4, <3>2, <3>3 DEF TabOK
    <3> QED
      BY <1>2, <1>4, <2>1, <2>2, <3>1, <3>2, <3>3, <3>5, <3>6, TabMoves
  <2> QED
    BY <2>3, <2>4
<1>5. CASE RefreshFirst(t)
  <2>1. SendRefresh(t, "first") /\ flight[t] = "queued"
    BY <1>5 DEF RefreshFirst
  <2>2. webLocks => \A u \in Tabs \ {t} : ~InLock(u)
    BY <1>5 DEF RefreshFirst, MayEnter
  <2> QED
    BY <1>4, <2>1, <2>2
<1>6. CASE RefreshAgain(t)
  <2>1. SendRefresh(t, "second") /\ flight[t] = "raced"
    BY <1>6 DEF RefreshAgain
  <2>2. ~(webLocks /\ lost = 0)
    BY <2>1 DEF AuthInv, TabOK
  <2> QED
    BY <1>4, <2>1, <2>2
<1>7. CASE AnswerRace(t)
  <2> DEFINE a == [answer[t] EXCEPT !.res = "none"]
  <2>1. a \in AnswerRecord /\ a.res = "none"
    BY <1>1 DEF AnswerRecord
  <2>2. /\ answer' = [answer EXCEPT ![t] = a] /\ req' = [req EXCEPT ![t] = req[t]]
        /\ flight' = [flight EXCEPT ![t] = "raced"] /\ req' = req
        /\ UNCHANGED <<version, session, token, access, held, cookie, lost, webLocks>>
    BY <1>1, <1>7 DEF AnswerRace, serverVars
  <2>3. ~(webLocks /\ lost = 0)
    BY <1>7 DEF AuthInv, TabOK, AnswerRace
  <2> HIDE DEF a
  <2>4. AuthRequestOK(t)'
    BY <1>1, <2>2 DEF AuthRequestOK
  <2> QED
    BY <1>1, <2>1, <2>2, <2>3, <2>4, TabMoves
<1>8. ASSUME NEW shown \in {"anonymous", "authenticated"}, RefreshBegins(t, shown)
      PROVE  AuthInv' /\ UNCHANGED version
  <2>1. /\ answer' = [answer EXCEPT ![t] = answer[t]] /\ req' = [req EXCEPT ![t] = req[t]]
        /\ flight' = [flight EXCEPT ![t] = "queued"] /\ req' = req /\ answer' = answer
        /\ flight[t] = "none"
        /\ UNCHANGED <<version, session, token, access, held, cookie, lost, webLocks>>
    BY <1>1, <1>8 DEF RefreshBegins, serverVars
  <2>2. flight'[t] = "queued"
    BY <2>1 DEF AuthInv, AuthTypeOK
  <2>3. AuthRequestOK(t)'
    BY <1>1, <2>1 DEF AuthRequestOK
  <2>4. webLocks /\ lost = 0 => TabOK(t)' /\ answer[t].res = "none" /\ req[t].kind = "none"
    BY <2>1, <2>2 DEF AuthInv, TabOK
  <2> QED
    BY <1>1, <2>1, <2>3, <2>4, TabMoves
<1> QED
  BY <1>3, <1>5, <1>6, <1>7, <1>8

\* A flight lands: the browser has the cookie of a token nobody else was given, or none, or
\* the one it had.
LEMMA LandSteps ==
  ASSUME AuthInv, NEW t \in Tabs, AnswerOk(t) \/ AnswerFailed(t)
  PROVE  AuthInv' /\ UNCHANGED version
<1>1. PICK jar : /\ answer[t].res # "none" /\ UNCHANGED <<serverVars, lost, webLocks>>
                 /\ flight' = [flight EXCEPT ![t] = "none"] /\ cookie' = jar
                 /\ answer' = [answer EXCEPT ![t] = NoAnswer]
                 /\ \/ answer[t].res = "ok" /\ jar = answer[t].tok
                    \/ answer[t].res # "ok" /\ jar \in {0, cookie}
  BY DEF AnswerOk, AnswerFailed, Land
<1>2. NoAnswer \in AnswerRecord /\ NoAnswer.res = "none" /\ token \in Seq(TokenRecord) /\ cookie \in Nat
  BY DEF NoAnswer, AnswerRecord, AuthInv, AuthTypeOK
<1>3. /\ answer' \in [Tabs -> AnswerRecord] /\ answer'[t].res = "none" /\ flight'[t] = "none"
      /\ flight' \in [Tabs -> {"none", "login", "queued", "first", "raced", "second"}]
      /\ \A u \in Tabs \ {t} : answer'[u] = answer[u] /\ flight'[u] = flight[u]
      /\ UNCHANGED <<version, session, token, access, req, held, lost, webLocks>>
  BY <1>1, <1>2 DEF AuthInv, AuthTypeOK, serverVars
<1>4. jar \in Nat /\ jar <= Len(token)
  BY <1>1, <1>2 DEF AuthInv, AuthTypeOK, Issued
<1>5. AuthTypeOK' /\ LocksApart' /\ TokensOK'
  BY <1>1, <1>3, <1>4 DEF AuthInv, AuthTypeOK, LocksApart, TokensOK, LiveToken
<1>6. \A p \in Proc : AuthRequestOK(p)'
  BY <1>3 DEF AuthInv, AuthRequestOK
<1>7. Issued'
  BY <1>1, <1>3, <1>4 DEF AuthInv, Issued
<1>8. ASSUME webLocks' /\ lost' = 0 PROVE TabsApart' /\ \A u \in Tabs : TabOK(u)'
  <2>1. TabsApart /\ \A u \in Tabs : TabOK(u)
    BY <1>3, <1>8 DEF AuthInv
  <2>2. \A u, v \in Tabs : InLock(u)' /\ InLock(v)' => u = v
    BY <1>3, <2>1 DEF TabsApart, InLock
  <2>3. \A u, v \in Tabs : u # v /\ answer'[u].res = "ok" =>
          /\ answer'[v].res = "ok" => answer'[v].tok # answer'[u].tok
          /\ req'[v].kind = "refresh" => req'[v].tok # answer'[u].tok
    BY <1>3, <2>1 DEF TabsApart
  <2>4. ASSUME jar # 0, token[jar].used PROVE \E u \in Tabs : (InLock(u) /\ answer[u].res = "ok")'
    <3>1. answer[t].res # "ok" /\ jar = cookie
      BY <1>1, <2>1, <2>4 DEF TabOK
    <3>2. PICK u \in Tabs : InLock(u) /\ answer[u].res = "ok"
      BY <2>1, <2>4, <3>1 DEF TabsApart
    <3> QED
      BY <1>3, <3>1, <3>2 DEF InLock
  <2>5. TabOK(t)'
    BY <1>1, <1>3, <2>1 DEF TabOK
  <2>6. ASSUME NEW u \in Tabs \ {t} PROVE TabOK(u)'
    <3>1. answer[u].res = "ok" => answer[u].tok # jar
      <4>1. answer[u].res = "ok" => answer[u].tok \in DOMAIN token /\ answer[u].tok # cookie
        BY <2>1 DEF TabOK, AuthInv, Issued
      <4>2. answer[u].res = "ok" /\ answer[t].res = "ok" => answer[u].tok # answer[t].tok
        BY <2>1 DEF TabsApart
      <4>3. 0 \notin DOMAIN token
        BY <1>2
      <4> QED
        BY <1>1, <4>1, <4>2, <4>3
    <3> QED
      BY <1>1, <1>3, <2>1, <3>1 DEF TabOK
  <2> QED
    BY <1>1, <1>3, <2>1, <2>2, <2>3, <2>4, <2>5, <2>6 DEF TabsApart
<1> QED
  BY <1>3, <1>5, <1>6, <1>7, <1>8 DEF AuthInv

\* A tab that is closed no longer listens; its request goes on.
LEMMA LostStep ==
  ASSUME AuthInv, NEW t \in Tabs, AnswerLost(t)
  PROVE  AuthInv' /\ UNCHANGED version
<1>1. PICK b \in BOOLEAN : b = (req[t].kind # "none")
  OBVIOUS
<1>2. req[t] \in RequestRecord /\ t \in Proc /\ lost \in Nat
  BY DEF AuthInv, AuthTypeOK, Proc
<1> DEFINE r == [req[t] EXCEPT !.deaf = b]
<1>3. /\ r \in RequestRecord /\ r.kind = req[t].kind /\ r.pc = req[t].pc /\ r.tok = req[t].tok
      /\ r.sid = req[t].sid /\ r.ids = req[t].ids
  BY <1>2 DEF RequestRecord
<1>4. /\ req' = [req EXCEPT ![t] = r] /\ answer' = [answer EXCEPT ![t] = NoAnswer]
      /\ flight' = [flight EXCEPT ![t] = "none"] /\ lost' = lost + 1
      /\ UNCHANGED <<version, session, token, access, held, cookie, webLocks>>
  BY <1>1 DEF AnswerLost
<1> HIDE DEF r
<1>5. NoAnswer \in AnswerRecord /\ NoAnswer.res = "none"
  BY DEF NoAnswer, AnswerRecord
<1>6. /\ req' \in [Proc -> RequestRecord] /\ answer' \in [Tabs -> AnswerRecord]
      /\ flight' \in [Tabs -> {"none", "login", "queued", "first", "raced", "second"}]
      /\ req'[t] = r /\ answer'[t].res = "none" /\ lost' # 0 /\ lost' \in Nat
      /\ \A p \in Proc \ {t} : req'[p] = req[p]
      /\ \A u \in Tabs \ {t} : answer'[u] = answer[u]
  BY <1>2, <1>3, <1>4, <1>5 DEF AuthInv, AuthTypeOK
<1>7. AuthTypeOK' /\ LocksApart' /\ TokensOK' /\ Issued'
  BY <1>4, <1>6 DEF AuthInv, AuthTypeOK, LocksApart, TokensOK, LiveToken, Issued
<1>8. \A p \in Proc : AuthRequestOK(p)'
  <2>1. AuthRequestOK(t)'
    BY <1>2, <1>3, <1>4, <1>6 DEF AuthInv, AuthRequestOK
  <2> QED
    BY <1>4, <1>6, <2>1 DEF AuthInv, AuthRequestOK
<1> QED
  BY <1>4, <1>6, <1>7, <1>8 DEF AuthInv

\* Only the commit of a logout of all sessions moves the version, and then no session is left.
LEMMA AuthInductive ==
  AuthInv /\ [AuthNext]_authVars =>
    /\ AuthInv'
    /\ version' # version => \A s \in DOMAIN session' : session'[s].status = "revoked"
<1> SUFFICES ASSUME AuthInv, [AuthNext]_authVars
             PROVE  /\ AuthInv'
                    /\ version' # version => \A s \in DOMAIN session' : session'[s].status = "revoked"
  OBVIOUS
<1>1. CASE UNCHANGED authVars \/ \E t \in Tabs : LogoutClick(t)
  <2>1. UNCHANGED <<version, session, token, access, req, held, answer, cookie, flight, lost, webLocks>>
    BY <1>1 DEF authVars, serverVars, tabVars, LogoutClick
  <2>2. AuthTypeOK' /\ LocksApart' /\ TokensOK' /\ Issued' /\ \A p \in Proc : AuthRequestOK(p)'
    BY <2>1 DEF AuthInv, AuthTypeOK, LocksApart, TokensOK, LiveToken, Issued, AuthRequestOK
  <2>3. webLocks' /\ lost' = 0 => TabsApart' /\ \A t \in Tabs : TabOK(t)'
    BY <2>1 DEF AuthInv, TabsApart, TabOK, InLock
  <2> QED
    BY <2>1, <2>2, <2>3 DEF AuthInv
<1>2. ASSUME NEW p \in Proc, Serve(p)
      PROVE  /\ AuthInv'
             /\ version' # version => \A s \in DOMAIN session' : session'[s].status = "revoked"
  <2>1. CASE RevokeCommits(p)
    BY <2>1, RevokeStep
  <2>2. CASE ~RevokeCommits(p)
    <3>1. AuthInv'
      BY <1>2, <2>2, RequestSteps, SessionSteps, LoginStep, RotateStep DEF Serve
    <3>2. UNCHANGED version
      BY <1>2, <2>2 DEF Serve, LoginCommits, RefreshLocksToken, RefreshLocksSession, RefreshCommits,
        LogoutLocksSession, LogoutAllLocksUser, RevokeLocksRow, RevokeTurnsToTokens,
        AuthDeadlockAborts, Refuse
    <3> QED
      BY <3>1, <3>2
  <2> QED
    BY <2>1, <2>2
<1>3. ASSUME NEW p \in Clients, NEW a \in access, NEW kind \in {"logout", "logoutAll"},
             LogoutBegins(p, kind, a)
      PROVE  AuthInv' /\ UNCHANGED version
  BY <1>3, RequestSteps DEF LogoutBegins, Proc
<1>4. ASSUME NEW t \in Tabs, ~LogoutClick(t),
             \/ Login(t) \/ RefreshFirst(t) \/ RefreshAgain(t)
             \/ AnswerOk(t) \/ AnswerRace(t) \/ AnswerFailed(t) \/ AnswerLost(t)
             \/ \E shown \in {"anonymous", "authenticated"} : RefreshBegins(t, shown)
      PROVE  AuthInv' /\ UNCHANGED version
  BY <1>4, TabSteps, LandSteps, LostStep
<1> QED
  BY <1>1, <1>2, <1>3, <1>4, TimeSteps DEF AuthNext

\* The invariant of the sessions holds in every reachable state, for any tabs, clients and
\* bounds.
THEOREM AuthAlways == AuthSpec => []AuthInv
<1>1. AuthInv /\ [AuthNext]_authVars => AuthInv'
  BY AuthInductive
<1> QED
  BY <1>1, AuthInitially, PTL DEF AuthSpec

\* A set whose members are all equal has at most one.
LEMMA AtMostOne ==
  ASSUME NEW S, \A x, y \in S : x = y
  PROVE  Cardinality(S) <= 1
<1>1. CASE S = {}
  BY <1>1, FS_EmptySet
<1>2. CASE S # {}
  <2>1. PICK x \in S : S = {x}
    BY <1>2
  <2>2. Cardinality({x}) = 1
    BY FS_Singleton
  <2> QED
    BY <2>1, <2>2
<1> QED
  BY <1>1, <1>2

\* A session has at most one refresh token that can still be exchanged, and none once it is
\* revoked, whichever tabs refresh, log in and log out at the same time.
THEOREM SingleLiveTokenAlways == AuthSpec => []SingleLiveToken
<1>1. AuthInv => SingleLiveToken
  <2> SUFFICES ASSUME AuthInv, NEW s \in DOMAIN session
               PROVE  /\ Cardinality(LiveTokens(s)) <= 1
                      /\ session[s].status = "revoked" => LiveTokens(s) = {}
    BY DEF SingleLiveToken
  <2>1. \A i, j \in LiveTokens(s) : i = j
    BY DEF AuthInv, TokensOK, LiveTokens, LiveToken
  <2>2. session[s].status = "revoked" => LiveTokens(s) = {}
    BY DEF AuthInv, TokensOK, LiveTokens, LiveToken
  <2> QED
    BY <2>1, <2>2, AtMostOne
<1> QED
  BY <1>1, AuthAlways, PTL

\* When the token version of the user moves, every session there is has been revoked, one that
\* was created or refreshed while the logout waited for its locks included.
THEOREM LogoutAllAlwaysEnds == AuthSpec => LogoutAllEndsSessions
<1>1. AuthInv /\ [AuthNext]_authVars =>
        [version' # version => \A s \in DOMAIN session' : session'[s].status = "revoked"]_authVars
  BY AuthInductive
<1> QED
  BY <1>1, AuthAlways, PTL DEF AuthSpec, LogoutAllEndsSessions

\* In a browser with navigator.locks, a session is revoked for the reuse of a token only when
\* an answer had been lost.
THEOREM ReuseAlwaysLostAnswer == AuthSpec => []ReuseMeansLostAnswer
<1>1. AuthInv => ReuseMeansLostAnswer
  BY DEF AuthInv, TabsApart, ReuseMeansLostAnswer
<1> QED
  BY <1>1, AuthAlways, PTL

-----------------------------------------------------------------------------
(* Memories of the learner. *)

MemoryRow == [key : RequestIds \cup {0}, slot : Slots \cup {"none"}, content : Contents \cup {"none"},
              state : {"active", "superseded", "user_revoked", "expired"}]
SavingRecord == [pc : {"idle", "thinking", "deciding", "writing"}, key : RequestIds \cup {0},
                 slot : Slots \cup {"none"}, content : Contents \cup {"none"}, approved : BOOLEAN,
                 found : Nat, drops : SUBSET Nat]

MemTypeOK ==
  /\ memories \in Seq(MemoryRow) /\ allowed \in SUBSET Origins
  /\ saving \in [MemoryRuns -> SavingRecord] /\ crowded \in BOOLEAN

\* The rows that hold the profile of the learner.
Locking(r) == saving[r].pc \in {"deciding", "writing"}

\* A run that has read its page will leave at most its own row in the slot, and takes away
\* nothing of another slot; what it found again takes nothing away.
SavingOK(r) ==
  LET run == saving[r] IN
  /\ Locking(r) /\ run.approved => Origin(run.slot) \in allowed
  /\ run.pc # "writing" => run.found = 0 /\ run.drops = {}
  /\ run.pc = "writing" =>
       /\ run.approved /\ run.found \in {0} \cup DOMAIN memories
       /\ \A i \in run.drops : i \in DOMAIN memories /\ memories[i].slot = run.slot
       /\ ~crowded => IF run.found = 0 THEN InSlot(memories, run.slot) \subseteq run.drops
                                       ELSE run.drops = {}

OneInSlot == \A i, j \in Active(memories) : memories[i].slot = memories[j].slot => i = j

MemInv ==
  /\ MemTypeOK
  /\ \A q, r \in MemoryRuns : Locking(q) /\ Locking(r) => q = r
  /\ \A r \in MemoryRuns : SavingOK(r)
  /\ crowded \/ OneInSlot

\* There is no memory at first, and no run saves one.
LEMMA MemInitially == MemInit => MemInv
<1> SUFFICES ASSUME MemInit PROVE MemInv
  OBVIOUS
<1>1. NotSaving \in SavingRecord
  BY DEF NotSaving, SavingRecord
<1>2. MemTypeOK
  <2>1. memories \in Seq(MemoryRow) /\ allowed \in SUBSET Origins
    BY DEF MemInit
  <2>2. saving \in [MemoryRuns -> SavingRecord]
    BY <1>1 DEF MemInit
  <2>3. crowded \in BOOLEAN
    BY DEF MemInit
  <2> QED
    BY <2>1, <2>2, <2>3 DEF MemTypeOK
<1>3. \A r \in MemoryRuns : saving[r] = NotSaving
  BY DEF MemInit
<1>4. \A r \in MemoryRuns : ~Locking(r) /\ SavingOK(r)
  BY <1>3 DEF Locking, SavingOK, NotSaving
<1>5. OneInSlot
  BY DEF MemInit, OneInSlot, Active
<1> QED
  BY <1>2, <1>4, <1>5 DEF MemInv

\* While there are no more rows of a type than a page holds, the page has them all.
LEMMA WholePage ==
  ASSUME NEW n \in Nat, NEW rows, DOMAIN rows = 1..n, NEW s, NEW newest \in Pages(rows, s),
         Cardinality(OfType(rows, s)) <= PageSize
  PROVE  newest = OfType(rows, s)
<1>1. IsFiniteSet(OfType(rows, s)) /\ newest \subseteq OfType(rows, s)
  <2>1. IsFiniteSet(1..n)
    BY FS_Interval
  <2>2. OfType(rows, s) \subseteq 1..n
    BY DEF OfType, Active
  <2> QED
    BY <2>1, <2>2, FS_Subset DEF Pages
<1>2. Cardinality(newest) = Cardinality(OfType(rows, s))
  <2>1. Cardinality(OfType(rows, s)) \in Nat
    BY <1>1, FS_CardinalityType
  <2> QED
    BY <2>1, MemoryAssumption DEF Pages
<1> QED
  BY <1>1, <1>2, FS_Subset

\* A run that has read its page supersedes rows of its slot only, and all of them unless
\* there were too many.
LEMMA PageRead ==
  ASSUME MemInv, NEW r \in MemoryRuns, NEW rows, NEW n \in Nat, DOMAIN rows = 1..n,
         NEW current \in DOMAIN rows, rows[current].slot = saving[r].slot, Writes(r, rows, current)
  PROVE  /\ crowded' \in BOOLEAN /\ (crowded => crowded')
         /\ \E run \in SavingRecord :
              /\ saving' = [saving EXCEPT ![r] = run]
              /\ run.pc = "writing" /\ run.slot = saving[r].slot
              /\ saving[r].approved => run.approved
              /\ run.found = IF current \in DOMAIN memories THEN current ELSE 0
              /\ run.drops \subseteq InSlot(rows, saving[r].slot) \ {current}
              /\ ~crowded' => run.drops = InSlot(rows, saving[r].slot) \ {current}
<1>1. PICK newest \in Pages(rows, saving[r].slot) :
        saving' = [saving EXCEPT ![r] =
           [@ EXCEPT !.pc = "writing",
                     !.found = IF current \in DOMAIN memories THEN current ELSE 0,
                     !.drops = Superseded(rows, newest, current)]]
  BY DEF Writes
<1>2. PICK drops : drops = Superseded(rows, newest, current)
  OBVIOUS
<1>3. PICK found \in Nat : found = IF current \in DOMAIN memories THEN current ELSE 0
  OBVIOUS
<1>4. drops \subseteq InSlot(rows, saving[r].slot) \ {current} /\ drops \in SUBSET Nat
  BY <1>2 DEF Superseded, Pages, OfType, InSlot, Active
<1>5. crowded' \in BOOLEAN /\ (crowded => crowded')
  BY DEF Writes, MemInv, MemTypeOK
<1>6. ASSUME ~crowded' PROVE drops = InSlot(rows, saving[r].slot) \ {current}
  <2>1. Cardinality(OfType(rows, saving[r].slot)) <= PageSize
    <3>1. IsFiniteSet(OfType(rows, saving[r].slot))
      <4>1. IsFiniteSet(1..n) /\ OfType(rows, saving[r].slot) \subseteq 1..n
        BY FS_Interval DEF OfType, Active
      <4> QED
        BY <4>1, FS_Subset
    <3>2. Cardinality(OfType(rows, saving[r].slot)) \in Nat
      BY <3>1, FS_CardinalityType
    <3>3. ~(Cardinality(OfType(rows, saving[r].slot)) > PageSize)
      BY <1>6 DEF Writes
    <3> QED
      BY <3>2, <3>3, MemoryAssumption
  <2>2. newest = OfType(rows, saving[r].slot)
    BY <2>1, WholePage
  <2> QED
    BY <1>2, <2>2 DEF Superseded, OfType, InSlot
<1> DEFINE run == [saving[r] EXCEPT !.pc = "writing", !.found = found, !.drops = drops]
<1>7. saving[r] \in SavingRecord
  BY DEF MemInv, MemTypeOK
<1>8. /\ run \in SavingRecord /\ run.pc = "writing" /\ run.slot = saving[r].slot
      /\ run.approved = saving[r].approved /\ run.found = found /\ run.drops = drops
  BY <1>3, <1>4, <1>7 DEF SavingRecord
<1>9. saving' = [saving EXCEPT ![r] = run]
  BY <1>1, <1>2, <1>3
<1> HIDE DEF run
<1> QED
  BY <1>3, <1>4, <1>5, <1>6, <1>8, <1>9

\* A run that goes on or ends without a commit.
LEMMA SavingMoves ==
  ASSUME MemInv, NEW r \in MemoryRuns, NEW run \in SavingRecord,
         saving' = [saving EXCEPT ![r] = run], UNCHANGED <<memories, allowed>>,
         crowded' \in BOOLEAN, crowded => crowded', SavingOK(r)',
         run.pc \in {"deciding", "writing"} => Locking(r) \/ ProfileFree
  PROVE  MemInv'
<1>1. /\ saving' \in [MemoryRuns -> SavingRecord] /\ saving'[r] = run
      /\ \A q \in MemoryRuns \ {r} : saving'[q] = saving[q]
  BY DEF MemInv, MemTypeOK
<1>2. MemTypeOK'
  BY <1>1 DEF MemInv, MemTypeOK
<1>3. \A q, p \in MemoryRuns : Locking(q)' /\ Locking(p)' => q = p
  BY <1>1 DEF MemInv, Locking, ProfileFree, MemTypeOK, SavingRecord
<1>4. \A q \in MemoryRuns : SavingOK(q)'
  BY <1>1 DEF MemInv, SavingOK, Locking, InSlot, Active
<1>5. crowded' \/ OneInSlot'
  BY DEF MemInv, OneInSlot, Active
<1> QED
  BY <1>2, <1>3, <1>4, <1>5 DEF MemInv

\* Membership is a truth value.
LEMMA Truth == ASSUME NEW x, NEW S PROVE \E ok \in BOOLEAN : ok = (x \in S)
<1>1. \E ok \in BOOLEAN : ok <=> (x \in S)
  OBVIOUS
<1> QED
  BY <1>1

\* The steps of a run before its commit.
LEMMA SavingSteps ==
  ASSUME MemInv, NEW r \in MemoryRuns,
         \/ \E key \in RequestIds, slot \in Preferences, content \in Contents :
              Declare(r, key, slot, content)
         \/ \E slot \in Nodes, content \in Contents : Derive(r, slot, content)
         \/ SaveLocks(r) \/ SaveFinds(r) \/ SaveInserts(r) \/ SaveClashes(r) \/ SaveRejects(r)
         \/ RunAborts(r)
  PROVE  MemInv' /\ UNCHANGED memories
<1>1. NotSaving \in SavingRecord /\ saving[r] \in SavingRecord /\ SavingOK(r) /\ memories \in Seq(MemoryRow)
      /\ crowded \in BOOLEAN /\ saving \in [MemoryRuns -> SavingRecord]
  BY DEF NotSaving, SavingRecord, MemInv, MemTypeOK
<1>2. ASSUME NEW run \in SavingRecord, run.pc = "thinking", run.found = 0, run.drops = {},
             saving' = [saving EXCEPT ![r] = run], UNCHANGED <<memories, allowed, crowded>>
      PROVE  MemInv' /\ UNCHANGED memories
  <2>1. SavingOK(r)'
    BY <1>1, <1>2 DEF SavingOK, Locking
  <2> QED
    BY <1>1, <1>2, <2>1, SavingMoves
<1>3. ASSUME NEW key \in RequestIds, NEW slot \in Preferences, NEW content \in Contents,
             Declare(r, key, slot, content)
      PROVE  MemInv' /\ UNCHANGED memories
  <2>1. PICK origin : origin = Origin(slot)
    OBVIOUS
  <2>2. PICK ok \in BOOLEAN : ok = (origin \in allowed)
    BY Truth
  <2> DEFINE run == [NotSaving EXCEPT !.pc = "thinking", !.key = key, !.slot = slot,
                                      !.content = content, !.approved = ok]
  <2>3. run \in SavingRecord /\ run.pc = "thinking" /\ run.found = 0 /\ run.drops = {}
    BY <1>1 DEF NotSaving, SavingRecord, Slots
  <2>4. saving' = [saving EXCEPT ![r] = run] /\ UNCHANGED <<memories, allowed, crowded>>
    BY <1>3, <2>1, <2>2 DEF Declare
  <2> HIDE DEF run
  <2> QED
    BY <1>2, <2>3, <2>4
<1>4. ASSUME NEW slot \in Nodes, NEW content \in Contents, Derive(r, slot, content)
      PROVE  MemInv' /\ UNCHANGED memories
  <2>1. PICK origin : origin = Origin(slot)
    OBVIOUS
  <2>2. PICK ok \in BOOLEAN : ok = (origin \in allowed)
    BY Truth
  <2> DEFINE run == [NotSaving EXCEPT !.pc = "thinking", !.slot = slot, !.content = content,
                                      !.approved = ok]
  <2>3. run \in SavingRecord /\ run.pc = "thinking" /\ run.found = 0 /\ run.drops = {}
    BY <1>1 DEF NotSaving, SavingRecord, Slots
  <2>4. saving' = [saving EXCEPT ![r] = run] /\ UNCHANGED <<memories, allowed, crowded>>
    BY <1>4, <2>1, <2>2 DEF Derive
  <2> HIDE DEF run
  <2> QED
    BY <1>2, <2>3, <2>4
<1>5. CASE SaveLocks(r)
  <2>1. PICK ok \in BOOLEAN : ok = Recheck(r) /\ (ok => Origin(saving[r].slot) \in allowed)
    BY DEF Recheck
  <2> DEFINE run == [saving[r] EXCEPT !.pc = "deciding", !.approved = ok]
  <2>2. /\ run \in SavingRecord /\ run.pc = "deciding" /\ run.found = 0 /\ run.drops = {}
        /\ run.slot = saving[r].slot /\ run.approved = ok
    BY <1>1, <1>5 DEF SavingRecord, SavingOK, SaveLocks
  <2>3. saving' = [saving EXCEPT ![r] = run] /\ ProfileFree /\ UNCHANGED <<memories, allowed, crowded>>
    BY <1>5, <2>1 DEF SaveLocks
  <2> HIDE DEF run
  <2>4. SavingOK(r)'
    BY <1>1, <2>1, <2>2, <2>3 DEF SavingOK, Locking
  <2> QED
    BY <1>1, <2>2, <2>3, <2>4, SavingMoves
<1>6. CASE SaveFinds(r)
  <2>1. PICK i \in Matching(r) :
          IF StillActive(i) THEN Writes(r, memories, i)
          ELSE /\ saving' = [saving EXCEPT ![r] = [@ EXCEPT !.pc = "writing", !.found = i]]
               /\ UNCHANGED crowded
    BY <1>6 DEF SaveFinds
  <2>2. /\ i \in DOMAIN memories /\ memories[i].slot = saving[r].slot /\ i \in Nat
        /\ saving[r].pc = "deciding" /\ saving[r].approved /\ UNCHANGED <<memories, allowed>>
        /\ Origin(saving[r].slot) \in allowed /\ saving[r].drops = {}
    <3>1. i \in DOMAIN memories /\ memories[i].slot = saving[r].slot
      BY DEF Matching, Existing, SameFields
    <3>2. saving[r].pc = "deciding" /\ saving[r].approved /\ UNCHANGED <<memories, allowed>>
      BY <1>6 DEF SaveFinds
    <3>3. Origin(saving[r].slot) \in allowed /\ saving[r].drops = {}
      BY <1>1, <3>2 DEF SavingOK, Locking
    <3>4. i \in Nat
      BY <1>1, <3>1
    <3> QED
      BY <3>1, <3>2, <3>3, <3>4
  <2>3. CASE StillActive(i)
    <3>1. PICK run \in SavingRecord :
           /\ saving' = [saving EXCEPT ![r] = run]
           /\ run.pc = "writing" /\ run.slot = saving[r].slot /\ run.approved
           /\ run.found = i /\ i # 0
           /\ run.drops \subseteq InSlot(memories, saving[r].slot) \ {i}
      <4>1. PICK n \in Nat : DOMAIN memories = 1..n
        BY <1>1
      <4>2. i # 0
        BY <2>2, <4>1
      <4>3. Writes(r, memories, i)
        BY <2>1, <2>3
      <4>4. \E run \in SavingRecord :
              /\ saving' = [saving EXCEPT ![r] = run]
              /\ run.pc = "writing" /\ run.slot = saving[r].slot
              /\ saving[r].approved => run.approved
              /\ run.found = IF i \in DOMAIN memories THEN i ELSE 0
              /\ run.drops \subseteq InSlot(memories, saving[r].slot) \ {i}
        BY <2>2, <4>1, <4>3, PageRead
      <4> QED
        BY <2>2, <4>2, <4>4
    <3>0. crowded' \in BOOLEAN /\ (crowded => crowded')
      <4>1. \E n \in Nat : DOMAIN memories = 1..n
        BY <1>1
      <4>2. Writes(r, memories, i)
        BY <2>1, <2>3
      <4> QED
        BY <2>2, <4>1, <4>2, PageRead
    <3>2. crowded' \/ run.drops = {}
      <4>1. ASSUME ~crowded', NEW j \in run.drops PROVE FALSE
        <5>1. /\ j \in Active(memories) /\ memories[j].slot = memories[i].slot /\ j # i
              /\ OneInSlot /\ i \in Active(memories)
          BY <2>2, <2>3, <3>0, <3>1, <4>1 DEF InSlot, MemInv, StillActive
        <5> QED
          BY <5>1 DEF OneInSlot
      <4> QED
        BY <4>1
    <3>3. SavingOK(r)'
      <4>1. saving'[r] = run
        BY <1>1, <3>1
      <4>2. \A j \in run.drops : j \in DOMAIN memories /\ memories[j].slot = run.slot
        BY <3>1 DEF InSlot, Active
      <4> QED
        BY <2>2, <3>1, <3>2, <4>1, <4>2 DEF SavingOK, Locking, InSlot, Active
    <3> QED
      BY <2>2, <3>0, <3>1, <3>3, SavingMoves DEF Locking
  <2>4. CASE ~StillActive(i)
    <3> DEFINE run == [saving[r] EXCEPT !.pc = "writing", !.found = i]
    <3>1. /\ run \in SavingRecord /\ run.pc = "writing" /\ run.found = i /\ run.drops = {}
          /\ run.slot = saving[r].slot /\ run.approved = saving[r].approved
      BY <1>1, <2>2 DEF SavingRecord
    <3>2. saving' = [saving EXCEPT ![r] = run] /\ UNCHANGED crowded
      BY <2>1, <2>4
    <3> HIDE DEF run
    <3>3. i # 0
      BY <1>1, <2>2
    <3>4. SavingOK(r)'
      BY <1>1, <2>2, <3>1, <3>2, <3>3 DEF SavingOK, Locking
    <3> QED
      BY <1>1, <2>2, <3>1, <3>2, <3>4, SavingMoves DEF Locking
  <2> QED
    BY <2>2, <2>3, <2>4
<1>7. CASE SaveInserts(r)
  <2>1. PICK n \in Nat : n = Len(memories) /\ DOMAIN memories = 1..n
    BY <1>1
  <2>2. PICK rows : rows = Append(memories, NewMemory(r))
    OBVIOUS
  <2>3. /\ Writes(r, rows, n + 1) /\ UNCHANGED <<memories, allowed>>
        /\ saving[r].pc = "deciding" /\ saving[r].approved /\ Origin(saving[r].slot) \in allowed
    BY <1>1, <1>7, <2>1, <2>2 DEF SaveInserts, SavingOK, Locking
  <2>4. /\ DOMAIN rows = 1..(n + 1) /\ rows[n + 1] = NewMemory(r) /\ n + 1 \notin DOMAIN memories
        /\ \A i \in DOMAIN memories : rows[i] = memories[i]
    BY <1>1, <2>1, <2>2
  <2>5. PICK run \in SavingRecord :
           /\ saving' = [saving EXCEPT ![r] = run]
           /\ run.pc = "writing" /\ run.slot = saving[r].slot /\ run.approved
           /\ run.found = 0
           /\ run.drops \subseteq InSlot(rows, saving[r].slot) \ {n + 1}
           /\ ~crowded' => run.drops = InSlot(rows, saving[r].slot) \ {n + 1}
    <3>1. rows[n + 1].slot = saving[r].slot
      BY <2>4 DEF NewMemory
    <3>2. n + 1 \in DOMAIN rows /\ n + 1 \in Nat /\ n + 1 \notin DOMAIN memories
      BY <2>4
    <3>3. Writes(r, rows, n + 1) /\ DOMAIN rows = 1..(n + 1)
      BY <2>3, <2>4
    <3>4. \E run \in SavingRecord :
              /\ saving' = [saving EXCEPT ![r] = run]
              /\ run.pc = "writing" /\ run.slot = saving[r].slot
              /\ saving[r].approved => run.approved
              /\ run.found = IF n + 1 \in DOMAIN memories THEN n + 1 ELSE 0
              /\ run.drops \subseteq InSlot(rows, saving[r].slot) \ {n + 1}
              /\ ~crowded' => run.drops = InSlot(rows, saving[r].slot) \ {n + 1}
      BY <3>1, <3>2, <3>3, PageRead
    <3> QED
      BY <2>3, <3>2, <3>4
  <2>8. crowded' \in BOOLEAN /\ (crowded => crowded')
    BY <2>1, <2>3, <2>4, PageRead DEF NewMemory
  <2>6. InSlot(rows, saving[r].slot) \ {n + 1} = InSlot(memories, saving[r].slot)
    BY <2>1, <2>4 DEF InSlot, Active
  <2>7. SavingOK(r)'
    <3>1. saving'[r] = run
      BY <1>1, <2>5
    <3>2. \A j \in run.drops : j \in DOMAIN memories /\ memories[j].slot = run.slot
      BY <2>5, <2>6 DEF InSlot, Active
    <3>3. crowded' \/ InSlot(memories, run.slot)' \subseteq run.drops
      BY <2>3, <2>5, <2>6 DEF InSlot, Active
    <3> QED
      BY <2>3, <2>5, <3>1, <3>2, <3>3 DEF SavingOK, Locking
  <2> QED
    BY <2>3, <2>5, <2>7, <2>8, SavingMoves DEF Locking
<1>8. CASE SaveClashes(r) \/ SaveRejects(r) \/ RunAborts(r)
  <2>1. saving' = [saving EXCEPT ![r] = NotSaving] /\ UNCHANGED <<memories, allowed, crowded>>
    BY <1>8 DEF SaveClashes, SaveRejects, RunAborts
  <2>2. NotSaving.pc = "idle" /\ NotSaving.found = 0 /\ NotSaving.drops = {}
    BY DEF NotSaving
  <2>3. SavingOK(r)'
    BY <1>1, <2>1, <2>2 DEF SavingOK, Locking
  <2> QED
    BY <1>1, <2>1, <2>2, <2>3, SavingMoves
<1> QED
  BY <1>3, <1>4, <1>5, <1>6, <1>7, <1>8

\* What a step may do to the rows: new ones are of an origin that is allowed, and a slot is
\* emptied by the learner or by time only.
Consented == \A i \in DOMAIN memories' \ DOMAIN memories : Origin(memories'[i].slot) \in allowed
Purposeful ==
  \A s \in Slots :
    (InSlot(memories, s) # {} /\ InSlot(memories, s)' = {}) =>
       crowded \/ \E i \in InSlot(memories, s) : memories'[i].state \in {"user_revoked", "expired"}

\* The commit of a run: its page was read under the lock of the profile, which it still has.
LEMMA SaveStep ==
  ASSUME MemInv, NEW r \in MemoryRuns, SaveCommits(r)
  PROVE  MemInv' /\ Consented /\ Purposeful
<1>1. /\ NotSaving \in SavingRecord /\ NotSaving.pc = "idle" /\ NotSaving.found = 0 /\ NotSaving.drops = {}
      /\ saving[r] \in SavingRecord /\ SavingOK(r) /\ memories \in Seq(MemoryRow)
      /\ saving \in [MemoryRuns -> SavingRecord]
  BY DEF NotSaving, SavingRecord, MemInv, MemTypeOK
<1>2. PICK n \in Nat : n = Len(memories) /\ DOMAIN memories = 1..n
  BY <1>1
<1>3. PICK run \in SavingRecord : run = saving[r]
  BY <1>1
<1>4. PICK rows : rows = IF run.found = 0 THEN Append(memories, NewMemory(r)) ELSE memories
  OBVIOUS
<1>5. /\ run.pc = "writing" /\ saving' = [saving EXCEPT ![r] = NotSaving]
      /\ memories' = [i \in DOMAIN rows |->
                        IF i \in run.drops /\ rows[i].state = "active"
                        THEN [rows[i] EXCEPT !.state = "superseded"] ELSE rows[i]]
      /\ UNCHANGED <<allowed, crowded>>
  BY <1>3, <1>4 DEF SaveCommits
<1>6. /\ Origin(run.slot) \in allowed /\ run.found \in {0} \cup DOMAIN memories
      /\ \A i \in run.drops : i \in DOMAIN memories /\ memories[i].slot = run.slot
      /\ ~crowded => IF run.found = 0 THEN InSlot(memories, run.slot) \subseteq run.drops
                                      ELSE run.drops = {}
  BY <1>1, <1>3, <1>5 DEF SavingOK, Locking
<1>7. NewMemory(r) \in MemoryRow /\ NewMemory(r).slot = run.slot /\ NewMemory(r).state = "active"
  BY <1>3 DEF NewMemory, MemoryRow, SavingRecord
<1>8. PICK m \in Nat : /\ DOMAIN rows = 1..m /\ rows \in Seq(MemoryRow) /\ n <= m
                       /\ \A i \in DOMAIN memories : rows[i] = memories[i]
                       /\ m = IF run.found = 0 THEN n + 1 ELSE n
                       /\ m # n => rows[m] = NewMemory(r)
  BY <1>1, <1>2, <1>4, <1>7
<1>9. /\ DOMAIN memories' = 1..m
      /\ \A i \in 1..m : /\ memories'[i] \in MemoryRow /\ memories'[i].slot = rows[i].slot
                         /\ memories'[i].state = "active" <=> rows[i].state = "active" /\ i \notin run.drops
  <2>1. ASSUME NEW i \in 1..m
        PROVE  /\ memories'[i] \in MemoryRow /\ memories'[i].slot = rows[i].slot
               /\ memories'[i].state = "active" <=> (rows[i].state = "active" /\ i \notin run.drops)
    <3>1. rows[i] \in MemoryRow
      BY <1>8
    <3> QED
      BY <1>5, <1>8, <3>1 DEF MemoryRow
  <2> QED
    BY <1>5, <1>8, <2>1
<1>10. memories' \in Seq(MemoryRow)
  <2>1. memories' = [i \in 1..m |-> memories'[i]]
    BY <1>5, <1>8
  <2>2. memories' \in [1..m -> MemoryRow]
    BY <1>9, <2>1
  <2> QED
    BY <2>2
<1>11. MemTypeOK'
  <2>1. saving' \in [MemoryRuns -> SavingRecord]
    BY <1>1, <1>5
  <2>2. allowed' \in SUBSET Origins /\ crowded' \in BOOLEAN
    BY <1>5 DEF MemInv, MemTypeOK
  <2> QED
    BY <1>10, <2>1, <2>2 DEF MemTypeOK
<1>12. \A q \in MemoryRuns : ~Locking(q)' /\ SavingOK(q)'
  <2>1. \A q \in MemoryRuns \ {r} : saving'[q] = saving[q] /\ ~Locking(q)
    BY <1>1, <1>3, <1>5 DEF MemInv, Locking
  <2>2. saving'[r] = NotSaving
    BY <1>1, <1>5
  <2> QED
    BY <1>1, <2>1, <2>2 DEF MemInv, SavingOK, Locking
<1>13. ASSUME ~crowded PROVE OneInSlot'
  <2>1. \A i \in DOMAIN memories : i \in Active(memories)' => i \in Active(memories) \ run.drops
    BY <1>2, <1>8, <1>9 DEF Active
  <2>2. \A i, j \in DOMAIN memories :
          i \in Active(memories)' /\ j \in Active(memories)' /\ memories'[i].slot = memories'[j].slot => i = j
    BY <1>2, <1>8, <1>9, <1>13, <2>1 DEF MemInv, OneInSlot
  <2>3. ASSUME m # n, NEW i \in DOMAIN memories, i \in Active(memories)' PROVE memories'[i].slot # memories'[m].slot
    <3>1. i \in Active(memories) /\ i \notin run.drops
      BY <2>1, <2>3
    <3>2. InSlot(memories, run.slot) \subseteq run.drops
      BY <1>6, <1>8, <1>13, <2>3
    <3>3. memories[i].slot # run.slot
      BY <3>1, <3>2 DEF InSlot
    <3> QED
      BY <1>2, <1>7, <1>8, <1>9, <2>3, <3>3
  <2>4. \A i \in Active(memories)' : i \in DOMAIN memories \/ (i = m /\ m # n)
    BY <1>2, <1>8, <1>9 DEF Active
  <2> QED
    BY <2>2, <2>3, <2>4 DEF OneInSlot
<1>14. Consented
  BY <1>2, <1>6, <1>7, <1>8, <1>9 DEF Consented
<1>15. ASSUME ~crowded, NEW s \in Slots, NEW i \in InSlot(memories, s) PROVE InSlot(memories, s)' # {}
  <2>1. i \in DOMAIN memories /\ memories[i].slot = s /\ memories[i].state = "active"
    BY DEF InSlot, Active
  <2>2. CASE i \notin run.drops
    <3>1. i \in InSlot(memories, s)'
      BY <1>2, <1>8, <1>9, <2>1, <2>2 DEF InSlot, Active
    <3> QED
      BY <3>1
  <2>3. CASE i \in run.drops
    <3>1. s = run.slot /\ run.found = 0
      BY <1>6, <1>15, <2>1, <2>3
    <3>2. m \in 1..m /\ m \notin DOMAIN memories /\ rows[m] = NewMemory(r)
      BY <1>2, <1>8, <3>1
    <3>3. m \in InSlot(memories, s)'
      BY <1>6, <1>7, <1>9, <3>1, <3>2 DEF InSlot, Active
    <3> QED
      BY <3>3
  <2> QED
    BY <2>2, <2>3
<1>16. Purposeful
  BY <1>15 DEF Purposeful
<1>17. crowded' \/ OneInSlot'
  BY <1>5, <1>13
<1> QED
  BY <1>11, <1>12, <1>14, <1>16, <1>17 DEF MemInv

\* The learner revokes a row, or it expires.
LEMMA RowEnds ==
  ASSUME MemInv, NEW i \in DOMAIN memories, Revoke(i) \/ SummaryExpires(i)
  PROVE  MemInv' /\ Consented /\ Purposeful
<1>1. PICK state \in {"user_revoked", "expired"} :
        memories' = [memories EXCEPT ![i].state = state]
  BY DEF Revoke, SummaryExpires
<1>2. i \in Active(memories) /\ UNCHANGED <<allowed, saving, crowded>> /\ memories \in Seq(MemoryRow)
  BY DEF Revoke, SummaryExpires, MemInv, MemTypeOK
<1> DEFINE row == [memories[i] EXCEPT !.state = state]
<1>2a. memories[i] \in MemoryRow /\ state \in {"user_revoked", "expired"}
  BY <1>1, <1>2
<1>3. row \in MemoryRow /\ row.slot = memories[i].slot /\ row.state = state
  BY <1>2a DEF MemoryRow
<1>4. memories' = [memories EXCEPT ![i] = row]
  BY <1>1
<1> HIDE DEF row
<1>5. /\ memories' \in Seq(MemoryRow) /\ DOMAIN memories' = DOMAIN memories /\ memories'[i] = row
      /\ \A j \in DOMAIN memories : memories'[j].slot = memories[j].slot
      /\ \A j \in DOMAIN memories \ {i} : memories'[j] = memories[j]
  BY <1>2, <1>3, <1>4
<1>6. Active(memories)' = Active(memories) \ {i}
  BY <1>3, <1>5 DEF Active
<1>7. MemTypeOK'
  BY <1>2, <1>5 DEF MemInv, MemTypeOK
<1>8. \A q \in MemoryRuns : SavingOK(q)'
  <2>1. \A s : InSlot(memories, s)' \subseteq InSlot(memories, s)
    BY <1>5, <1>6 DEF InSlot, Active
  <2> QED
    BY <1>2, <1>5, <2>1 DEF MemInv, SavingOK, Locking
<1>9. crowded' \/ OneInSlot'
  BY <1>2, <1>5, <1>6 DEF MemInv, OneInSlot, Active
<1>10. \A q, r \in MemoryRuns : Locking(q)' /\ Locking(r)' => q = r
  BY <1>2 DEF MemInv, Locking
<1>11. Consented
  BY <1>5 DEF Consented
<1>12. Purposeful
  <2>1. ASSUME NEW s \in Slots, NEW j \in InSlot(memories, s), InSlot(memories, s)' = {}
        PROVE  j = i
    BY <1>5, <1>6, <2>1 DEF InSlot, Active
  <2> QED
    BY <1>3, <1>5, <2>1 DEF Purposeful
<1> QED
  BY <1>7, <1>8, <1>9, <1>10, <1>11, <1>12 DEF MemInv

\* The privacy settings change while no run is between its recheck and its commit.
LEMMA PrivacyStep == MemInv /\ SetPrivacy => MemInv' /\ UNCHANGED memories
<1> SUFFICES ASSUME MemInv, SetPrivacy PROVE MemInv' /\ UNCHANGED memories
  OBVIOUS
<1>1. UNCHANGED <<memories, saving, crowded>> /\ allowed' \in SUBSET Origins
  BY DEF SetPrivacy
<1>2. MemTypeOK'
  BY <1>1 DEF MemInv, MemTypeOK
<1>3. \A r \in MemoryRuns : ~Locking(r)
  BY DEF SetPrivacy, ProfileFree, Locking
<1>4. \A r \in MemoryRuns : SavingOK(r)' /\ ~Locking(r)'
  BY <1>1, <1>3 DEF MemInv, SavingOK, Locking
<1> QED
  BY <1>1, <1>2, <1>4 DEF MemInv, OneInSlot, Active

\* Every step of a run and of the learner keeps the invariant, asks for consent and forgets
\* only on purpose.
LEMMA MemInductive == MemInv /\ [MemNext]_memVars => MemInv' /\ Consented /\ Purposeful
<1> SUFFICES ASSUME MemInv, [MemNext]_memVars PROVE MemInv' /\ Consented /\ Purposeful
  OBVIOUS
<1>1. ASSUME UNCHANGED memories PROVE Consented /\ Purposeful
  BY <1>1 DEF Consented, Purposeful, InSlot, Active
<1>2. CASE UNCHANGED memVars
  <2>1. MemInv'
    BY <1>2 DEF memVars, MemInv, MemTypeOK, Locking, SavingOK, InSlot, Active, OneInSlot
  <2> QED
    BY <1>1, <1>2, <2>1 DEF memVars
<1>3. ASSUME NEW r \in MemoryRuns, RunStep(r) PROVE MemInv' /\ Consented /\ Purposeful
  BY <1>1, <1>3, SavingSteps, SaveStep DEF RunStep
<1>4. CASE SetPrivacy
  BY <1>1, <1>4, PrivacyStep
<1> QED
  BY <1>2, <1>3, <1>4, RowEnds DEF MemNext

\* The invariant of the memories holds in every reachable state, for any runs, slots, page
\* size and bounds.
THEOREM MemoryAlways == MemSpec => []MemInv
<1>1. MemInv /\ [MemNext]_memVars => MemInv'
  BY MemInductive
<1> QED
  BY <1>1, MemInitially, PTL DEF MemSpec

\* A semantic slot has at most one active memory as long as a page holds the active ones of
\* every type.
THEOREM OneActiveAlways == MemSpec => []OneActivePerSlot
<1>1. MemInv => OneActivePerSlot
  <2> SUFFICES ASSUME MemInv, ~crowded, NEW s \in Slots PROVE Cardinality(InSlot(memories, s)) <= 1
    BY DEF OneActivePerSlot
  <2>1. \A i, j \in InSlot(memories, s) : i = j
    BY DEF MemInv, OneInSlot, InSlot
  <2> QED
    BY <2>1, AtMostOne
<1> QED
  BY <1>1, MemoryAlways, PTL

\* A memory is written only while the privacy settings allow its origin.
THEOREM ConsentAlwaysAtWrite == MemSpec => ConsentAtWrite
<1>1. MemInv /\ [MemNext]_memVars => [Consented]_memVars
  BY MemInductive
<1> QED
  BY <1>1, MemoryAlways, PTL DEF MemSpec, ConsentAtWrite, Consented

\* A slot that held a memory is left without one only when the learner revoked it or it
\* expired, or when a page no longer held all the active ones.
THEOREM NeverForgotten == MemSpec => ForgottenOnlyOnPurpose
<1>1. MemInv /\ [MemNext]_memVars => [Purposeful]_memVars
  BY MemInductive
<1> QED
  BY <1>1, MemoryAlways, PTL DEF MemSpec, ForgottenOnlyOnPurpose, Purposeful

-----------------------------------------------------------------------------
(* References to secrets. *)

SecretRequest == [kind : {"none", "write", "erase", "delete"},
                  pc : {"idle", "put", "commit", "undo", "clean"},
                  owner : Owners \cup {"none"}, row : Nat, old : Nat, new : Nat]

SecretTypeOK ==
  /\ live \subseteq Owners /\ stored \subseteq Owners \X Nat /\ issued \in Nat
  /\ reference \in [Owners -> [row : Nat, ref : Nat]]
  /\ request \in [Admins -> SecretRequest]
  /\ trouble \in [Owners -> SUBSET {"overlap", "fault", "unsure"}]

\* A row and what a request read of one name references that were made, or neither does.
Named(row, ref) == {row, ref} \subseteq 0..issued /\ (row = 0 <=> ref = 0)

\* A value that was put for a write that has not been committed.
Putting(p) == request[p].kind = "write" /\ request[p].pc \in {"commit", "undo"}

RequestOK(p) ==
  LET r == request[p]  o == r.owner IN
  /\ r.pc = "idle" <=> o = "none"
  /\ r.pc # "idle" =>
       /\ o \in Owners /\ r.kind # "none"
       /\ Named(r.row, r.old)
       /\ (reference[o].ref = r.old /\ r.old # 0) => reference[o].row = r.row
  /\ r.pc \in {"put", "undo"} => r.kind = "write"
  /\ r.pc = "clean" => r.old # 0 /\ reference[o].ref # r.old
  /\ Putting(p) =>
       /\ r.new \in 1..issued /\ r.old # r.new
       /\ r.pc = "commit" => reference[o].ref # r.new /\ <<o, r.new>> \in stored
       /\ r.pc = "undo" => reference[o].ref # r.new \/ "unsure" \in trouble[o]

\* A value that was put is known to no other request of the owner before it is committed.
Secret(p, q) ==
  (Putting(p) /\ request[q].owner = request[p].owner) =>
    /\ Putting(q) => request[q].new # request[p].new
    /\ request[p].pc = "commit" => request[q].old # request[p].new

\* The store holds the value the row of an owner names, and more of its values.
Stores(o, more) ==
  \A n \in Nat : <<o, n>> \in stored <=> (n # 0 /\ (n = reference[o].ref \/ n \in more))

\* Where a request alone with its owner has come to.
Progress(p) ==
  LET r == request[p]  o == r.owner
      asRead == reference[o] = [row |-> r.row, ref |-> r.old] /\ o \in live
  IN /\ r.pc = "put" => asRead /\ Stores(o, {})
     /\ r.pc = "commit" => asRead /\ Stores(o, IF r.kind = "write" THEN {r.new} ELSE {})
     /\ r.pc = "undo" => o \in live /\ Stores(o, {r.new})
     /\ r.pc = "clean" => (o \notin live => reference[o] = NoReference) /\ Stores(o, {r.old})

\* An owner whose requests never overlapped and met no fault.
Calm(o) ==
  trouble[o] = {} =>
    /\ \A p, q \in BusyWith(o) : p = q
    /\ BusyWith(o) = {} => Stores(o, {}) /\ (o \notin live => reference[o] = NoReference)
    /\ \A p \in BusyWith(o) : Progress(p)

SecretInv ==
  /\ SecretTypeOK
  /\ \A o \in Owners : Named(reference[o].row, reference[o].ref)
  /\ \A p \in Admins : RequestOK(p)
  /\ \A p, q \in Admins : p # q => Secret(p, q)
  /\ NamedSecretStored
  /\ \A o \in Owners : Calm(o)

\* No owner has a value at first, and no request is under way.
LEMMA SecretInitially == SecretInit => SecretInv
BY SecretAssumption DEF SecretInit, SecretInv, SecretTypeOK, SecretRequest, Named, Putting, RequestOK,
  Secret, Stores, Progress, Calm, BusyWith, NamedSecretStored, NoReference, NoRequest

\* A step of one request leaves the others as they are.
LEMMA Moved ==
  ASSUME SecretTypeOK, NEW p \in Admins, NEW r \in SecretRequest,
         request' = [request EXCEPT ![p] = r]
  PROVE  /\ request' \in [Admins -> SecretRequest] /\ request'[p] = r
         /\ \A q \in Admins \ {p} : request'[q] = request[q]
BY DEF SecretTypeOK

\* A request that answers leaves the others as they are.
LEMMA Ended ==
  ASSUME SecretTypeOK, NEW p \in Admins, Answer(p)
  PROVE  /\ request' \in [Admins -> SecretRequest]
         /\ request'[p].pc = "idle" /\ request'[p].owner = "none" 
         /\ \A q \in Admins \ {p} : request'[q] = request[q]
<1>1. NoRequest \in SecretRequest /\ NoRequest.pc = "idle" /\ NoRequest.owner = "none"
  BY DEF NoRequest, SecretRequest
<1> QED
  BY <1>1, Moved DEF Answer

\* A request that goes on keeps what it has read and put.
LEMMA Advanced ==
  ASSUME SecretTypeOK, NEW p \in Admins, NEW pc \in {"put", "commit", "undo", "clean"}, GoesTo(p, pc)
  PROVE  /\ request' \in [Admins -> SecretRequest]
         /\ request'[p].pc = pc /\ request'[p].owner = request[p].owner
         /\ request'[p].kind = request[p].kind /\ request'[p].row = request[p].row
         /\ request'[p].old = request[p].old /\ request'[p].new = request[p].new
         /\ \A q \in Admins \ {p} : request'[q] = request[q]
<1> DEFINE r == [request[p] EXCEPT !.pc = pc]
<1>1. request[p] \in SecretRequest /\ request' = [request EXCEPT ![p] = r]
  BY DEF SecretTypeOK, GoesTo
<1>2. /\ r \in SecretRequest /\ r.pc = pc /\ r.owner = request[p].owner
      /\ r.kind = request[p].kind /\ r.row = request[p].row
      /\ r.old = request[p].old /\ r.new = request[p].new
  BY <1>1 DEF SecretRequest
<1> HIDE DEF r
<1> QED
  BY <1>1, <1>2, Moved


\* Another request is still in order when its owner's row is as it was and the store only
\* grew.
LEMMA OtherRequest ==
  ASSUME SecretInv, NEW q \in Admins, request'[q] = request[q],
         issued' \in Nat, issued <= issued', request[q].pc # "idle" =>
           /\ reference'[request[q].owner] = reference[request[q].owner]
           /\ trouble[request[q].owner] \subseteq trouble'[request[q].owner]
           /\ (Putting(q) /\ request[q].pc = "commit") =>
                 <<request[q].owner, request[q].new>> \in stored'
  PROVE  RequestOK(q)'
<1>1. request[q] \in SecretRequest /\ RequestOK(q) /\ issued \in Nat
  BY DEF SecretInv, SecretTypeOK
<1> QED
  BY <1>1 DEF SecretRequest, RequestOK, Putting, Named

\* A step of a request of an owner in order leaves all owners in order, when the store then holds
\* what the request's progress says.
LEMMA CalmKept ==
  ASSUME SecretInv, NEW p \in Admins, NEW o \in Owners, request[p].owner = o,
         \A q \in Admins \ {p} : request'[q] = request[q],
         request'[p].owner \in {o, "none"},
         \A x \in Owners : trouble[x] \subseteq trouble'[x],
         \A x \in Owners \ {o} :
           /\ reference'[x] = reference[x] /\ (x \in live' <=> x \in live)
           /\ \A n \in Nat : <<x, n>> \in stored' <=> <<x, n>> \in stored,
         trouble'[o] = {} /\ Progress(p) =>
           IF request'[p].owner = "none"
           THEN /\ Stores(o, {})'
                /\ o \notin live' => reference'[o] = NoReference
           ELSE Progress(p)',
         NEW x \in Owners
  PROVE  Calm(x)'
<1>1. Calm(x) /\ "none" \notin Owners
  BY SecretAssumption DEF SecretInv
<1>2. CASE x # o
  <2>1. BusyWith(x)' = BusyWith(x)
    BY <1>1, <1>2 DEF BusyWith
  <2>2. ASSUME NEW more PROVE Stores(x, more)' <=> Stores(x, more)
    BY <1>2 DEF Stores
  <2>3. ASSUME NEW q \in BusyWith(x), Progress(q) PROVE Progress(q)'
    <3>1. q \in Admins \ {p} /\ request'[q] = request[q] /\ request[q].owner = x
      BY <1>2, <2>3 DEF BusyWith
    <3> QED
      BY <1>2, <2>3, <3>1 DEF Progress, Stores
  <2> QED
    BY <1>1, <1>2, <2>1, <2>2, <2>3 DEF Calm
<1>3. CASE x = o
  <2>1. SUFFICES ASSUME trouble'[o] = {}
                 PROVE  Calm(o)'
    BY <1>3 DEF Calm
  <2>2. trouble[o] = {}
    BY <2>1
  <2>3. BusyWith(o) = {p} /\ Progress(p)
    BY <1>1, <1>3, <2>2 DEF Calm, BusyWith
  <2>4. CASE request'[p].owner = "none"
    <3>1. BusyWith(o)' = {}
      BY <1>1, <2>3, <2>4 DEF BusyWith
    <3> QED
      BY <2>1, <2>3, <2>4, <3>1 DEF Calm
  <2>5. CASE request'[p].owner = o
    <3>1. BusyWith(o)' = {p}
      BY <2>3, <2>5 DEF BusyWith
    <3>2. request'[p].owner # "none"
      BY <1>1, <2>5
    <3> QED
      BY <2>1, <2>3, <3>1, <3>2 DEF Calm
  <2> QED
    BY <2>4, <2>5
<1> QED
  BY <1>2, <1>3

\* A value is put under a reference nobody has seen.
LEMMA SecretPut ==
  ASSUME SecretInv, NEW p \in Admins, PutSecret(p)
  PROVE  SecretInv'
<1>1. PICK o \in Owners : request[p].owner = o
  BY DEF PutSecret, At, SecretInv, RequestOK
<1>2. PICK n \in Nat : n = issued + 1
  BY DEF SecretInv, SecretTypeOK
<1>3. /\ request[p].pc = "put" /\ request[p].kind = "write"
      /\ Named(request[p].row, request[p].old)
  BY DEF PutSecret, At, SecretInv, RequestOK
<1>4. /\ issued' = n /\ stored' = stored \cup {<<o, n>>}
      /\ UNCHANGED <<live, reference, trouble>>
  BY <1>1, <1>2 DEF PutSecret, Value
<1>5. PICK r \in SecretRequest :
      /\ r.pc = "commit" /\ r.owner = o /\ r.kind = "write"
      /\ r.row = request[p].row /\ r.old = request[p].old /\ r.new = n
      /\ request' = [request EXCEPT ![p] = r]
  <2> DEFINE r == [request[p] EXCEPT !.pc = "commit", !.new = n]
  <2>1. r \in SecretRequest
    BY <1>2 DEF SecretInv, SecretTypeOK, SecretRequest
  <2> WITNESS r \in SecretRequest
  <2> QED
    BY <1>1, <1>2, <1>3 DEF SecretInv, SecretTypeOK, SecretRequest, PutSecret
<1>6. /\ request' \in [Admins -> SecretRequest] /\ request'[p] = r
      /\ \A q \in Admins \ {p} : request'[q] = request[q]
  BY <1>5, Moved DEF SecretInv
<1>7. /\ issued \in Nat /\ 0..issued \subseteq 0..n /\ n \notin 0..issued /\ n # 0
      /\ \A x \in Owners : /\ reference[x].ref \in 0..issued /\ reference[x].row \in 0..issued
                           /\ (reference[x].row = 0 <=> reference[x].ref = 0)
  BY <1>2 DEF SecretInv, SecretTypeOK, Named
<1>8. \A q \in Admins :
        /\ request[q].pc # "idle" => request[q].old \in 0..issued
        /\ Putting(q) => request[q].new \in 1..issued /\ request[q].pc # "idle"
  BY DEF SecretInv, RequestOK, Named, Putting
<1>a. SecretTypeOK'
  BY <1>1, <1>2, <1>4, <1>6 DEF SecretInv, SecretTypeOK
<1>b. ASSUME NEW x \in Owners PROVE Named(reference[x].row, reference[x].ref)'
  BY <1>4, <1>7 DEF Named
<1>c. ASSUME NEW q \in Admins PROVE RequestOK(q)'
  <2>1. CASE q # p
    BY <1>2, <1>4, <1>6, <1>7, <2>1, OtherRequest DEF SecretInv, RequestOK
  <2>2. CASE q = p
    <3>1. (reference[o].ref = r.old /\ r.old # 0) => reference[o].row = r.row
      BY <1>1, <1>3, <1>5 DEF SecretInv, RequestOK
    <3>2. Named(r.row, r.old)' /\ r.old # n /\ n \in 1..n
      BY <1>2, <1>3, <1>4, <1>5, <1>7 DEF Named
    <3> QED
      BY <1>4, <1>5, <1>6, <1>7, <2>2, <3>1, <3>2, SecretAssumption DEF RequestOK, Putting
  <2> QED
    BY <2>1, <2>2
<1>d. ASSUME NEW q \in Admins, NEW w \in Admins, q # w PROVE Secret(q, w)'
  <2>1. CASE q # p /\ w # p
    BY <1>6, <1>d, <2>1 DEF SecretInv, Secret, Putting
  <2>2. CASE q = p
    <3>1. request[w].owner = o => request[w].old # n
      BY <1>7, <1>8, SecretAssumption DEF SecretInv, RequestOK
    <3>2. Putting(w) => request[w].new # n
      BY <1>7, <1>8
    <3>3. request'[w] = request[w]
      BY <1>6, <1>d, <2>2
    <3> QED
      BY <1>5, <1>6, <2>2, <3>1, <3>2, <3>3 DEF Secret, Putting
  <2>3. CASE w = p
    <3>1. Putting(q) => request[q].new # n /\ Secret(q, p)
      BY <1>7, <1>8, <1>d, <2>3 DEF SecretInv
    <3>2. request'[q] = request[q]
      BY <1>6, <1>d, <2>3
    <3> QED
      BY <1>1, <1>5, <1>6, <2>3, <3>1, <3>2 DEF Secret, Putting
  <2> QED
    BY <2>1, <2>2, <2>3
<1>e. NamedSecretStored'
  BY <1>4 DEF SecretInv, NamedSecretStored
<1>f. ASSUME NEW x \in Owners PROVE Calm(x)'
  <2>1. ASSUME Progress(p) PROVE Progress(p)'
    <3>1. reference[o] = [row |-> r.row, ref |-> r.old] /\ o \in live /\ Stores(o, {})
      BY <1>1, <1>3, <1>5, <2>1 DEF Progress
    <3>2. Stores(o, {n})'
      BY <1>4, <1>7, <3>1 DEF Stores
    <3> QED
      BY <1>4, <1>5, <1>6, <3>1, <3>2 DEF Progress
  <2> QED
    BY <1>1, <1>4, <1>5, <1>6, <2>1, CalmKept, SecretAssumption
<1> QED
  BY <1>a, <1>b, <1>c, <1>d, <1>e, <1>f DEF SecretInv

\* A request that read begins: alone, it read the row as it is.
LEMMA SecretReads ==
  ASSUME SecretInv, NEW p \in Admins, NEW o \in Owners,
         NEW kind \in {"write", "erase", "delete"}, NEW pc \in {"put", "commit"},
         kind = "write" <=> pc = "put", Reads(p, o, kind, pc)
  PROVE  SecretInv'
<1>1. /\ request[p].pc = "idle" /\ request[p].owner = "none" /\ o \in live /\ o # "none"
      /\ UNCHANGED <<live, reference, stored, issued>>
  BY SecretAssumption DEF Reads, At, SecretInv, RequestOK
<1>2. PICK r \in SecretRequest :
        /\ r.kind = kind /\ r.pc = pc /\ r.owner = o /\ r.row = reference[o].row
        /\ r.old = reference[o].ref /\ request' = [request EXCEPT ![p] = r]
  <2> DEFINE r == [kind |-> kind, pc |-> pc, owner |-> o, row |-> reference[o].row,
                   old |-> reference[o].ref, new |-> 0]
  <2>1. r \in SecretRequest
    BY DEF SecretInv, SecretTypeOK, SecretRequest
  <2> WITNESS r \in SecretRequest
  <2> QED
    BY DEF Reads
<1>3. /\ request' \in [Admins -> SecretRequest] /\ request'[p] = r
      /\ \A q \in Admins \ {p} : request'[q] = request[q]
  BY <1>2, Moved DEF SecretInv
<1>4. /\ trouble' \in [Owners -> SUBSET {"overlap", "fault", "unsure"}]
      /\ \A x \in Owners : trouble[x] \subseteq trouble'[x]
      /\ \A x \in Owners \ {o} : trouble'[x] = trouble[x]
      /\ trouble'[o] = {} => BusyWith(o) = {}
  BY DEF Reads, Troubled, SecretInv, SecretTypeOK
<1>5. Named(reference[o].row, reference[o].ref) /\ issued \in Nat
  BY DEF SecretInv, SecretTypeOK
<1>a. SecretTypeOK'
  BY <1>1, <1>3, <1>4 DEF SecretInv, SecretTypeOK
<1>b. ASSUME NEW x \in Owners PROVE Named(reference[x].row, reference[x].ref)'
  BY <1>1 DEF SecretInv, Named
<1>c. ASSUME NEW q \in Admins PROVE RequestOK(q)'
  <2>1. CASE q # p
    BY <1>1, <1>3, <1>4, <1>5, <2>1, OtherRequest DEF SecretInv, RequestOK
  <2>2. CASE q = p
    BY <1>1, <1>2, <1>3, <1>5, <2>2 DEF RequestOK, Putting, Named
  <2> QED
    BY <2>1, <2>2
<1>d. ASSUME NEW q \in Admins, NEW w \in Admins, q # w PROVE Secret(q, w)'
  <2>1. CASE q # p /\ w # p
    BY <1>3, <1>d, <2>1 DEF SecretInv, Secret, Putting
  <2>2. CASE q = p
    BY <1>2, <1>3, <2>2 DEF Secret, Putting
  <2>3. CASE w = p
    <3>1. RequestOK(q) /\ request'[q] = request[q]
      BY <1>3, <1>d, <2>3 DEF SecretInv
    <3> QED
      BY <1>2, <1>3, <2>3, <3>1 DEF Secret, Putting, RequestOK
  <2> QED
    BY <2>1, <2>2, <2>3
<1>e. NamedSecretStored'
  BY <1>1, <1>4 DEF SecretInv, NamedSecretStored
<1>f. ASSUME NEW x \in Owners PROVE Calm(x)'
  <2>0. Calm(x)
    BY DEF SecretInv
  <2>1. CASE x # o
    <3>1. BusyWith(x)' = BusyWith(x)
      BY <1>1, <1>2, <1>3, <2>1, SecretAssumption DEF BusyWith
    <3>2. ASSUME NEW q \in BusyWith(x), Progress(q) PROVE Progress(q)'
      <4>1. request'[q] = request[q]
        BY <1>1, <1>3, SecretAssumption DEF BusyWith
      <4> QED
        BY <1>1, <3>2, <4>1 DEF Progress, Stores
    <3> QED
      BY <1>1, <1>4, <2>0, <2>1, <3>1, <3>2 DEF Calm, Stores
  <2>2. CASE x = o /\ trouble'[o] = {}
    <3>1. BusyWith(o) = {} /\ trouble[o] = {} /\ Stores(o, {})
      BY <1>4, <2>0, <2>2 DEF Calm
    <3>2. BusyWith(o)' = {p}
      BY <1>2, <1>3, <3>1 DEF BusyWith
    <3>3. reference[o] = [row |-> r.row, ref |-> r.old]
      BY <1>2 DEF SecretInv, SecretTypeOK
    <3>4. Progress(p)'
      BY <1>1, <1>2, <1>3, <3>1, <3>3 DEF Progress, Stores
    <3> QED
      BY <2>2, <3>2, <3>4 DEF Calm
  <2> QED
    BY <2>1, <2>2 DEF Calm
<1> QED
  BY <1>a, <1>b, <1>c, <1>d, <1>e, <1>f DEF SecretInv

\* A request that ends and touches no row: what the store still holds decides.
LEMMA SecretEnds ==
  ASSUME SecretInv, NEW p \in Admins, NEW o \in Owners, request[p].owner = o, Answer(p),
         UNCHANGED <<live, reference, issued>>, stored' \subseteq stored,
         trouble' \in [Owners -> SUBSET {"overlap", "fault", "unsure"}],
         \A x \in Owners : trouble[x] \subseteq trouble'[x],
         \A x \in Owners \ {o} : \A n \in Nat : <<x, n>> \in stored' <=> <<x, n>> \in stored,
         \A q \in Admins \ {p} : (Putting(q) /\ request[q].pc = "commit") =>
                                    <<request[q].owner, request[q].new>> \in stored',
         NamedSecretStored',
         (trouble'[o] = {} /\ Progress(p)) =>
            Stores(o, {})' /\ (o \notin live => reference[o] = NoReference)
  PROVE  SecretInv'
<1>1. /\ request' \in [Admins -> SecretRequest]
      /\ request'[p].pc = "idle" /\ request'[p].owner = "none"
      /\ \A q \in Admins \ {p} : request'[q] = request[q]
  BY Ended DEF SecretInv
<1>2. issued \in Nat /\ SecretTypeOK
  BY DEF SecretInv, SecretTypeOK
<1>a. SecretTypeOK'
  BY <1>1, <1>2 DEF SecretTypeOK
<1>b. ASSUME NEW x \in Owners PROVE Named(reference[x].row, reference[x].ref)'
  BY DEF SecretInv, Named
<1>c. ASSUME NEW q \in Admins PROVE RequestOK(q)'
  <2>1. CASE q # p
    BY <1>1, <1>2, <2>1, OtherRequest DEF SecretInv, RequestOK
  <2>2. CASE q = p
    BY <1>1, <2>2 DEF RequestOK, Putting
  <2> QED
    BY <2>1, <2>2
<1>d. ASSUME NEW q \in Admins, NEW w \in Admins, q # w PROVE Secret(q, w)'
  <2>1. CASE q # p /\ w # p
    BY <1>1, <1>d, <2>1 DEF SecretInv, Secret, Putting
  <2>2. CASE q = p
    BY <1>1, <2>2 DEF Secret, Putting
  <2>3. CASE w = p
    <3>1. Putting(q) => request[q].owner # "none"
      BY SecretAssumption DEF SecretInv, RequestOK, Putting
    <3> QED
      BY <1>1, <1>d, <2>3, <3>1 DEF Secret, Putting
  <2> QED
    BY <2>1, <2>2, <2>3
<1>f. ASSUME NEW x \in Owners PROVE Calm(x)'
  BY <1>1, CalmKept
<1> QED
  BY <1>a, <1>b, <1>c, <1>d, <1>f DEF SecretInv

\* What a request under way has, from the invariant.
LEMMA Under ==
  ASSUME SecretInv, NEW p \in Admins, request[p].pc # "idle"
  PROVE  \E o \in Owners :
           /\ request[p].owner = o /\ o # "none" /\ Calm(o)
           /\ trouble \in [Owners -> SUBSET {"overlap", "fault", "unsure"}]
           /\ issued \in Nat /\ Named(reference[o].row, reference[o].ref)
           /\ request[p].old \in Nat /\ request[p].new \in Nat
BY SecretAssumption DEF SecretInv, SecretTypeOK, SecretRequest, RequestOK

\* A request that ends after a failure, before anything was committed or with a value left.
LEMMA SecretGivesUp ==
  ASSUME SecretInv, NEW p \in Admins, request[p].pc # "idle", Answer(p),
         UNCHANGED <<live, reference, stored, issued>>,
         \/ UNCHANGED trouble /\ \/ request[p].pc = "put"
                                 \/ request[p].pc = "commit" /\ request[p].kind # "write"
         \/ \E what \in {"fault", "unsure"} : SecretFault(p, what)
  PROVE  SecretInv'
<1>1. PICK o \in Owners : /\ request[p].owner = o /\ o # "none" /\ Calm(o)
                          /\ trouble \in [Owners -> SUBSET {"overlap", "fault", "unsure"}]
  BY Under
<1>2. /\ trouble' \in [Owners -> SUBSET {"overlap", "fault", "unsure"}]
      /\ \A x \in Owners : trouble[x] \subseteq trouble'[x]
      /\ UNCHANGED trouble \/ trouble'[o] # {}
  BY <1>1 DEF SecretFault, Troubled
<1>3. NamedSecretStored'
  BY <1>2 DEF SecretInv, NamedSecretStored
<1>4. ASSUME NEW q \in Admins \ {p}, Putting(q) /\ request[q].pc = "commit"
      PROVE  <<request[q].owner, request[q].new>> \in stored'
  BY <1>4 DEF SecretInv, RequestOK
<1>5. ASSUME trouble'[o] = {} /\ Progress(p)
      PROVE  Stores(o, {})' /\ (o \notin live => reference[o] = NoReference)
  <2>1. request[p].pc = "put" \/ (request[p].pc = "commit" /\ request[p].kind # "write")
    BY <1>1, <1>5 DEF SecretFault, Troubled
  <2>2. Stores(o, {}) /\ o \in live
    BY <1>1, <1>5, <2>1 DEF Progress
  <2> QED
    BY <2>2 DEF Stores
<1> QED
  BY <1>1, <1>2, <1>3, <1>4, <1>5, SecretEnds

\* A value that is taken back or was replaced is deleted: no row names it, and no write
\* under way does.
LEMMA SecretRemoved ==
  ASSUME SecretInv, NEW p \in Admins, RemoveSecret(p)
  PROVE  SecretInv'
<1>1. PICK o \in Owners :
        /\ request[p].owner = o /\ o # "none" /\ Calm(o)
        /\ trouble \in [Owners -> SUBSET {"overlap", "fault", "unsure"}]
        /\ request[p].old \in Nat /\ request[p].new \in Nat
  BY Under DEF RemoveSecret, At
<1>2. PICK n \in Nat : n = IF At(p, "undo") THEN request[p].new ELSE request[p].old
  BY <1>1
<1>3. /\ stored' = stored \ {<<o, n>>} /\ Answer(p)
      /\ UNCHANGED <<live, reference, issued, trouble>>
      /\ request[p].pc \in {"undo", "clean"} /\ RequestOK(p)
  BY <1>1, <1>2 DEF RemoveSecret, Value, At, SecretInv
<1>4. reference[o].ref # n \/ "unsure" \in trouble[o]
  BY <1>1, <1>2, <1>3 DEF RequestOK, Putting, At
<1>5. NamedSecretStored'
  BY <1>3, <1>4 DEF SecretInv, NamedSecretStored
<1>6. ASSUME NEW q \in Admins \ {p}, Putting(q) /\ request[q].pc = "commit"
      PROVE  <<request[q].owner, request[q].new>> \in stored'
  <2>1. <<request[q].owner, request[q].new>> \in stored
    BY <1>6 DEF SecretInv, RequestOK
  <2>2. ~(request[q].owner = o /\ request[q].new = n)
    <3>1. Secret(q, p)
      BY <1>6 DEF SecretInv
    <3>2. CASE request[p].pc = "undo"
      BY <1>1, <1>2, <1>3, <1>6, <3>1, <3>2 DEF Secret, Putting, At, RequestOK
    <3>3. CASE request[p].pc = "clean"
      BY <1>1, <1>2, <1>3, <1>6, <3>1, <3>3 DEF Secret, Putting, At
    <3> QED
      BY <1>3, <3>2, <3>3
  <2> QED
    BY <1>3, <2>1, <2>2
<1>7. ASSUME trouble'[o] = {} /\ Progress(p)
      PROVE  Stores(o, {})' /\ (o \notin live => reference[o] = NoReference)
  <2>1. Stores(o, {n}) /\ (o \notin live => reference[o] = NoReference)
    <3>1. CASE request[p].pc = "undo"
      BY <1>1, <1>2, <1>7, <3>1 DEF Progress, At
    <3>2. CASE request[p].pc = "clean"
      BY <1>1, <1>2, <1>7, <3>2 DEF Progress, At
    <3> QED
      BY <1>3, <3>1, <3>2
  <2>2. reference[o].ref # n
    BY <1>3, <1>4, <1>7
  <2> QED
    BY <1>3, <2>1, <2>2 DEF Stores
<1> QED
  BY <1>1, <1>3, <1>5, <1>6, <1>7, SecretEnds

\* A write that saw its commit fail, before it was done, goes back to take its value.
LEMMA SecretUndoes ==
  ASSUME SecretInv, NEW p \in Admins, At(p, "commit"), request[p].kind = "write",
         GoesTo(p, "undo"), UNCHANGED <<live, reference, stored, issued, trouble>>
  PROVE  SecretInv'
<1>1. PICK o \in Owners : request[p].owner = o /\ o # "none" /\ Calm(o) /\ issued \in Nat
  BY Under DEF At
<1>2. /\ request' \in [Admins -> SecretRequest]
      /\ request'[p].pc = "undo" /\ request'[p].owner = request[p].owner
      /\ request'[p].kind = request[p].kind /\ request'[p].row = request[p].row
      /\ request'[p].old = request[p].old /\ request'[p].new = request[p].new
      /\ \A q \in Admins \ {p} : request'[q] = request[q]
  BY Advanced DEF SecretInv
<1>a. SecretTypeOK'
  BY <1>1, <1>2 DEF SecretInv, SecretTypeOK
<1>b. ASSUME NEW x \in Owners PROVE Named(reference[x].row, reference[x].ref)'
  BY DEF SecretInv, Named
<1>c. ASSUME NEW q \in Admins PROVE RequestOK(q)'
  <2>1. CASE q # p
    BY <1>1, <1>2, <2>1, OtherRequest DEF SecretInv, RequestOK
  <2>2. CASE q = p
    BY <1>1, <1>2, <2>2 DEF SecretInv, RequestOK, Putting, At, Named
  <2> QED
    BY <2>1, <2>2
<1>d. ASSUME NEW q \in Admins, NEW w \in Admins, q # w PROVE Secret(q, w)'
  BY <1>2, <1>d DEF SecretInv, Secret, Putting, At
<1>e. NamedSecretStored'
  BY DEF SecretInv, NamedSecretStored
<1>f. ASSUME NEW x \in Owners PROVE Calm(x)'
  <2>1. ASSUME Progress(p) PROVE Progress(p)'
    BY <1>1, <1>2, <2>1 DEF Progress, Stores, At
  <2> QED
    BY <1>1, <1>2, <2>1, CalmKept
<1> QED
  BY <1>a, <1>b, <1>c, <1>d, <1>e, <1>f DEF SecretInv

\* How a request goes on when the database committed: to its end, to the deletion of the
\* replaced value, or, when the answer was lost, to taking its own value back.
Landed(p, o) ==
  /\ UNCHANGED <<stored, issued>>
  /\ request' \in [Admins -> SecretRequest]
  /\ \A q \in Admins \ {p} : request'[q] = request[q]
  /\ trouble' \in [Owners -> SUBSET {"overlap", "fault", "unsure"}]
  /\ \A x \in Owners : trouble[x] \subseteq trouble'[x]
  /\ \/ /\ request'[p].pc = "idle" /\ request'[p].owner = "none"
        /\ request[p].old = 0 \/ trouble'[o] # {}
     \/ /\ request'[p].owner = o
        /\ request'[p].kind = request[p].kind /\ request'[p].row = request[p].row
        /\ request'[p].old = request[p].old /\ request'[p].new = request[p].new
        /\ \/ request'[p].pc = "clean" /\ request[p].old # 0
           \/ /\ request'[p].pc = "undo" /\ request[p].kind = "write"
              /\ "unsure" \in trouble'[o]

\* A commit, or one whose answer is lost, ends its request or goes on to delete the old value.
LEMMA SecretLands ==
  ASSUME SecretInv, NEW p \in Admins, NEW o \in Owners, request[p].owner = o,
         SecretCommits(p) \/ CommitUnsure(p)
  PROVE  Landed(p, o)
<1>1. SecretTypeOK /\ request[p].pc = "commit"
  BY DEF SecretInv, SecretCommits, CommitUnsure, At
<1>2. CASE SecretCommits(p)
  <2>1. CASE request[p].old = 0
    <3>1. Answer(p) /\ UNCHANGED <<stored, issued, trouble>>
      BY <1>2, <2>1 DEF SecretCommits, AfterCommit
    <3> QED
      BY <1>1, <2>1, <3>1, Ended DEF Landed, SecretTypeOK
  <2>2. CASE request[p].old # 0
    <3>1. GoesTo(p, "clean") /\ UNCHANGED <<stored, issued, trouble>>
      BY <1>2, <2>2 DEF SecretCommits, AfterCommit
    <3> QED
      BY <1>1, <2>2, <3>1, Advanced DEF Landed, SecretTypeOK
  <2> QED
    BY <2>1, <2>2
<1>3. CASE CommitUnsure(p)
  <2>1. /\ trouble' \in [Owners -> SUBSET {"overlap", "fault", "unsure"}]
        /\ \A x \in Owners : trouble[x] \subseteq trouble'[x]
        /\ "unsure" \in trouble'[o] /\ UNCHANGED <<stored, issued>>
    BY <1>1, <1>3 DEF CommitUnsure, SecretFault, Troubled, SecretTypeOK
  <2>2. CASE request[p].kind = "write"
    <3>1. GoesTo(p, "undo")
      BY <1>3, <2>2 DEF CommitUnsure, AfterFailure
    <3> QED
      BY <1>1, <2>1, <2>2, <3>1, Advanced DEF Landed
  <2>3. CASE request[p].kind # "write"
    <3>1. Answer(p)
      BY <1>3, <2>3 DEF CommitUnsure, AfterFailure
    <3> QED
      BY <1>1, <2>1, <3>1, Ended DEF Landed
  <2> QED
    BY <2>2, <2>3
<1> QED
  BY <1>2, <1>3

\* The row of a write: it names the value that was put, which no other request knows.
LEMMA SecretWritten ==
  ASSUME SecretInv, NEW p \in Admins, NEW o \in Owners, request[p].owner = o,
         At(p, "commit"), RowWritten(p), Landed(p, o)
  PROVE  SecretInv'
<1>1. /\ o # "none" /\ Calm(o) /\ SecretTypeOK /\ issued \in Nat
      /\ Named(request[p].row, request[p].old)
      /\ request[p].pc = "commit" /\ request[p].kind = "write"
      /\ request[p].new \in 1..issued /\ request[p].old # request[p].new
      /\ <<o, request[p].new>> \in stored /\ reference[o].row = request[p].row
  BY SecretAssumption DEF SecretInv, SecretTypeOK, RequestOK, Putting, At, RowWritten, RowAsRead
<1>2. /\ live' = live /\ reference' \in [Owners -> [row : Nat, ref : Nat]]
      /\ \A x \in Owners \ {o} : reference'[x] = reference[x]
      /\ reference'[o].ref = request[p].new /\ reference'[o].row \in 1..issued
  <2>1. WrittenRow(p) \in [row : Nat, ref : Nat] /\ WrittenRow(p).row \in 1..issued
        /\ WrittenRow(p).ref = request[p].new
    BY <1>1 DEF WrittenRow, Named
  <2> QED
    BY <1>1, <2>1 DEF RowWritten, SecretTypeOK
<1>a. SecretTypeOK'
  BY <1>1, <1>2 DEF SecretTypeOK, Landed
<1>b. ASSUME NEW x \in Owners PROVE Named(reference[x].row, reference[x].ref)'
  <2>1. Named(reference[x].row, reference[x].ref) /\ issued' = issued
    BY DEF SecretInv, Landed
  <2> QED
    BY <1>1, <1>2, <2>1 DEF Named
<1>c. ASSUME NEW q \in Admins PROVE RequestOK(q)'
  <2>1. CASE q # p
    <3>1. RequestOK(q) /\ request'[q] = request[q] /\ Secret(p, q)
      BY <2>1 DEF SecretInv, Landed
    <3>2. CASE request[q].owner # o
      BY <1>1, <1>2, <3>1, <3>2, OtherRequest DEF Landed, RequestOK
    <3>3. CASE request[q].owner = o
      <4>1. request[q].old # request[p].new /\ (Putting(q) => request[q].new # request[p].new)
        BY <1>1, <3>1, <3>3 DEF Secret, Putting
      <4> QED
        BY <1>1, <1>2, <3>1, <3>3, <4>1 DEF Landed, RequestOK, Named, Putting
    <3> QED
      BY <3>2, <3>3
  <2>2. CASE q = p
    BY <1>1, <1>2, <2>2 DEF Landed, RequestOK, Named, Putting
  <2> QED
    BY <2>1, <2>2
<1>d. ASSUME NEW q \in Admins, NEW w \in Admins, q # w PROVE Secret(q, w)'
  <2>1. Secret(q, w) /\ (Putting(q) => request[q].owner # "none")
    BY <1>d, SecretAssumption DEF SecretInv, RequestOK, Putting
  <2>2. CASE q # p /\ w # p
    BY <2>1, <2>2 DEF Landed, Secret, Putting
  <2>3. CASE q = p \/ w = p
    BY <1>1, <1>d, <2>1, <2>3 DEF Landed, Secret, Putting
  <2> QED
    BY <2>2, <2>3
<1>e. NamedSecretStored'
  BY <1>1, <1>2 DEF SecretInv, NamedSecretStored, Landed, NoReference
<1>f. ASSUME NEW x \in Owners PROVE Calm(x)'
  <2>1. ASSUME Progress(p), trouble'[o] = {}
        PROVE  IF request'[p].owner = "none"
               THEN Stores(o, {})' /\ (o \notin live' => reference'[o] = NoReference)
               ELSE Progress(p)'
    <3>1. o \in live /\ reference[o].ref = request[p].old /\ Stores(o, {request[p].new})
      BY <1>1, <2>1 DEF Progress
    <3>2. \A n \in Nat : <<o, n>> \in stored'
             <=> n # 0 /\ (n = reference'[o].ref \/ n = request[p].old)
      BY <1>1, <1>2, <3>1 DEF Stores, Landed
    <3>3. CASE request'[p].owner = "none"
      BY <1>1, <1>2, <2>1, <3>1, <3>2, <3>3 DEF Stores, Landed
    <3>4. CASE request'[p].owner # "none"
      <4>1. request'[p].pc = "clean" /\ request'[p].owner = o /\ request'[p].old = request[p].old
        BY <2>1, <3>4 DEF Landed
      <4> QED
        BY <1>2, <3>1, <3>2, <3>4, <4>1 DEF Progress, Stores
    <3> QED
      BY <3>3, <3>4
  <2> QED
    BY <1>2, <2>1, CalmKept DEF Landed
<1> QED
  BY <1>a, <1>b, <1>c, <1>d, <1>e, <1>f DEF SecretInv

\* The row of an erased or deleted reference goes with it, or is another request's and stays.
LEMMA SecretDeleted ==
  ASSUME SecretInv, NEW p \in Admins, NEW o \in Owners, request[p].owner = o,
         At(p, "commit"), RowDeleted(p), Landed(p, o)
  PROVE  SecretInv'
<1>1. /\ o # "none" /\ Calm(o) /\ SecretTypeOK /\ issued \in Nat
      /\ Named(request[p].row, request[p].old) /\ Named(reference[o].row, reference[o].ref)
      /\ request[p].pc = "commit" /\ request[p].kind \in {"erase", "delete"}
      /\ (reference[o].ref = request[p].old /\ request[p].old # 0)
            => reference[o].row = request[p].row
  BY SecretAssumption DEF SecretInv, SecretTypeOK, RequestOK, Putting, At, RowDeleted
<1>2. /\ live' \subseteq Owners /\ reference' \in [Owners -> [row : Nat, ref : Nat]]
      /\ \A x \in Owners \ {o} : reference'[x] = reference[x] /\ (x \in live' <=> x \in live)
      /\ IF request[p].row # 0 /\ reference[o].row = request[p].row
         THEN reference'[o] = NoReference ELSE reference'[o] = reference[o]
  <2>1. NoReference \in [row : Nat, ref : Nat]
    BY DEF NoReference
  <2> QED
    BY <1>1, <2>1 DEF RowDeleted, RowAsRead, SecretTypeOK
<1>3. NoReference.row = 0 /\ NoReference.ref = 0
  BY DEF NoReference
<1>a. SecretTypeOK'
  BY <1>1, <1>2 DEF SecretTypeOK, Landed
<1>b. ASSUME NEW x \in Owners PROVE Named(reference[x].row, reference[x].ref)'
  <2>1. Named(reference[x].row, reference[x].ref) /\ issued' = issued
    BY DEF SecretInv, Landed
  <2> QED
    BY <1>1, <1>2, <1>3, <2>1 DEF Named
<1>c. ASSUME NEW q \in Admins PROVE RequestOK(q)'
  <2>1. CASE q # p
    <3>1. RequestOK(q) /\ request'[q] = request[q]
      BY <2>1 DEF SecretInv, Landed
    <3>2. CASE request[q].owner # o \/ reference'[o] = reference[o]
      BY <1>1, <1>2, <3>1, <3>2, OtherRequest DEF Landed, RequestOK
    <3>3. CASE request[q].owner = o /\ reference'[o] = NoReference
      BY <1>1, <1>3, <3>1, <3>3 DEF Landed, RequestOK, Named, Putting
    <3> QED
      BY <1>2, <3>2, <3>3
  <2>2. CASE q = p
    <3>1. /\ {request[p].row, request[p].old} \subseteq 0..issued'
          /\ request[p].row = 0 <=> request[p].old = 0
      BY <1>1 DEF Landed, Named
    <3>2. request[p].old # 0 => reference'[o].ref # request[p].old
      BY <1>1, <1>2, <1>3 DEF Named
    <3>3. CASE request'[p].pc = "idle"
      BY <2>2, <3>3 DEF Landed, RequestOK, Putting
    <3>4. CASE request'[p].pc = "clean"
      BY <1>1, <2>2, <3>1, <3>2, <3>4 DEF Landed, RequestOK, Putting, Named
    <3> QED
      BY <1>1, <3>3, <3>4 DEF Landed
  <2> QED
    BY <2>1, <2>2
<1>d. ASSUME NEW q \in Admins, NEW w \in Admins, q # w PROVE Secret(q, w)'
  <2>1. Secret(q, w) /\ (Putting(q) => request[q].owner # "none")
    BY <1>d, SecretAssumption DEF SecretInv, RequestOK, Putting
  <2>2. CASE q # p /\ w # p
    BY <2>1, <2>2 DEF Landed, Secret, Putting
  <2>3. CASE q = p \/ w = p
    BY <1>1, <1>d, <2>1, <2>3 DEF Landed, Secret, Putting
  <2> QED
    BY <2>2, <2>3
<1>e. NamedSecretStored'
  <2> SUFFICES ASSUME NEW x \in Owners, reference'[x] # NoReference, "unsure" \notin trouble'[x]
               PROVE  <<x, reference'[x].ref>> \in stored
    BY DEF NamedSecretStored, Landed
  <2>1. reference'[x] = reference[x] /\ "unsure" \notin trouble[x]
    BY <1>2 DEF Landed
  <2> QED
    BY <2>1 DEF SecretInv, NamedSecretStored
<1>f. ASSUME NEW x \in Owners PROVE Calm(x)'
  <2>1. ASSUME Progress(p), trouble'[o] = {}
        PROVE  IF request'[p].owner = "none"
               THEN Stores(o, {})' /\ (o \notin live' => reference'[o] = NoReference)
               ELSE Progress(p)'
    <3>1. /\ reference[o] = [row |-> request[p].row, ref |-> request[p].old]
          /\ Stores(o, {})
      BY <1>1, <2>1 DEF Progress
    <3>2. reference'[o] = NoReference
      BY <1>1, <1>2, <3>1 DEF NoReference, Named
    <3>3. \A n \in Nat : <<o, n>> \in stored' <=> n # 0 /\ n = request[p].old
      BY <3>1 DEF Stores, Landed
    <3>4. CASE request'[p].owner = "none"
      BY <1>1, <1>3, <2>1, <3>2, <3>3, <3>4 DEF Stores, Landed
    <3>5. CASE request'[p].owner # "none"
      <4>1. request'[p].pc = "clean" /\ request'[p].owner = o /\ request'[p].old = request[p].old
        BY <1>1, <2>1, <3>5 DEF Landed
      <4> QED
        BY <1>3, <3>2, <3>3, <3>5, <4>1 DEF Progress, Stores
    <3> QED
      BY <3>4, <3>5
  <2> QED
    BY <1>2, <2>1, CalmKept DEF Landed
<1> QED
  BY <1>a, <1>b, <1>c, <1>d, <1>e, <1>f DEF SecretInv

\* Every step of a request about a secret keeps the invariant.
LEMMA SecretInductive == SecretInv /\ [SecretNext]_secretVars => SecretInv'
<1> SUFFICES ASSUME SecretInv, [SecretNext]_secretVars
             PROVE  SecretInv'
  OBVIOUS
<1>1. CASE UNCHANGED secretVars
  BY <1>1 DEF secretVars, SecretInv, SecretTypeOK, Named, Putting, RequestOK, Secret, Stores,
    Progress, Calm, BusyWith, NamedSecretStored
<1>2. ASSUME NEW p \in Admins, AdminStep(p) PROVE SecretInv'
  <2>1. ASSUME NEW o \in Owners, WriteReads(p, o) \/ EraseReads(p, o) \/ DeleteReads(p, o)
        PROVE  SecretInv'
    BY <2>1, SecretReads DEF WriteReads, EraseReads, DeleteReads
  <2>2. CASE PutSecret(p)
    BY <2>2, SecretPut
  <2>3. CASE PutRefused(p)
    BY <2>3, SecretGivesUp DEF PutRefused, At
  <2>4. CASE SecretCommits(p) \/ CommitUnsure(p)
    <3>1. At(p, "commit") /\ (RowWritten(p) \/ RowDeleted(p))
      BY <2>4 DEF SecretCommits, CommitUnsure
    <3>2. PICK o \in Owners : request[p].owner = o
      BY <3>1, Under DEF At
    <3> QED
      BY <2>4, <3>1, <3>2, SecretLands, SecretWritten, SecretDeleted
  <2>5. CASE CommitConflicts(p) \/ CommitFails(p)
    <3>1. /\ At(p, "commit") /\ AfterFailure(p)
          /\ UNCHANGED <<live, reference, stored, issued, trouble>>
      BY <2>5 DEF CommitConflicts, CommitFails
    <3>2. CASE request[p].kind = "write"
      BY <3>1, <3>2, SecretUndoes DEF AfterFailure
    <3>3. CASE request[p].kind # "write"
      BY <3>1, <3>3, SecretGivesUp DEF AfterFailure, At
    <3> QED
      BY <3>2, <3>3
  <2>6. CASE RemoveSecret(p)
    BY <2>6, SecretRemoved
  <2>7. CASE RemoveFails(p) \/ ServerDies(p)
    BY <2>7, SecretGivesUp DEF RemoveFails, ServerDies, At
  <2> QED
    BY <1>2, <2>1, <2>2, <2>3, <2>4, <2>5, <2>6, <2>7 DEF AdminStep
<1> QED
  BY <1>1, <1>2 DEF SecretNext

\* The invariant of the secret references holds in every reachable state, for any requests,
\* owners and bounds.
THEOREM SecretAlways == SecretSpec => []SecretInv
BY SecretInitially, SecretInductive, PTL DEF SecretSpec

\* The value the row of an owner names is in the secret store, whatever fails and whoever
\* writes at the same time.
THEOREM SecretNamedStored == SecretSpec => []NamedSecretStored
<1>1. SecretInv => NamedSecretStored
  BY DEF SecretInv
<1> QED
  BY <1>1, SecretAlways, PTL

\* An owner whose requests never overlapped and met no fault leaves no value behind.
THEOREM SecretNothingLeft == SecretSpec => []NothingLeftBehind
<1>1. SecretInv => NothingLeftBehind
  <2> SUFFICES ASSUME SecretInv, NEW o \in Owners, trouble[o] = {}, BusyWith(o) = {}
               PROVE  /\ {v \in stored : v[1] = o} =
                           IF reference[o] = NoReference THEN {} ELSE {<<o, reference[o].ref>>}
                      /\ o \notin live => reference[o] = NoReference
    BY DEF NothingLeftBehind
  <2>1. /\ Stores(o, {}) /\ (o \notin live => reference[o] = NoReference)
        /\ stored \subseteq Owners \X Nat
        /\ reference[o] \in [row : Nat, ref : Nat]
        /\ Named(reference[o].row, reference[o].ref)
    BY DEF SecretInv, SecretTypeOK, Calm
  <2>2. \A v \in stored : v = <<v[1], v[2]>> /\ v[2] \in Nat
    BY <2>1
  <2>3. reference[o] = NoReference <=> reference[o].ref = 0
    BY <2>1 DEF NoReference, Named
  <2> QED
    BY <2>1, <2>2, <2>3 DEF Stores
<1> QED
  BY <1>1, SecretAlways, PTL

-----------------------------------------------------------------------------
(* The tutor page. *)

MaybeRuns == 0..MaxRuns
Events == {"started", "delta", "approval", "success", "failed", "cancelled"}
MessageRows == Runs \X {"user", "assistant"}
ApprovalRows == [run : Runs, status : {"pending", "executing", "decided"}]
RunRecord ==
  [thread : Threads \cup {"none"},
   status : {"none", "running", "awaiting", "executing", "cancelling", "success", "unanswered"},
   approval : {"none", "pending", "executing", "decided"}]
StreamRecord ==
  [kind : {"none", "ask", "executing", "decided", "over"}, thread : Threads \cup {"none"},
   run : MaybeRuns, told : MaybeRuns,
   state : {"none", "sent", "open", "closing", "broken", "aborted"}, wire : Seq(Events), awaiting : BOOLEAN]
RowsOf(kind) == IF kind = "messages" THEN MessageRows ELSE IF kind = "approvals" THEN ApprovalRows ELSE Threads
LoadRecord == [kind : {"messages", "approvals", "conversations"}, thread : Threads \cup {"none"}, read : BOOLEAN,
               rows : SUBSET (MessageRows \cup ApprovalRows \cup Threads)]
CallRecord ==
  [kind : {"create", "delete", "deleted", "replace", "restore", "restored", "cancel", "cancelled"},
   thread : Threads \cup {"none"}, listed : SUBSET Threads, stream : 0..MaxStreams, run : MaybeRuns,
   active : MaybeRuns, rows : SUBSET ApprovalRows]
PageRecord ==
  [open : Threads, listed : SUBSET Threads, request : 0..MaxStreams, busy : BOOLEAN,
   activeRun : MaybeRuns, transcript : SUBSET MessageRows, answer : SUBSET Runs,
   approvals : SUBSET ApprovalRows, asked : BOOLEAN, current : MaybeRuns, changes : Nat,
   elsewhere : SUBSET Runs, leftover : SUBSET Runs]

ViewTypeOK ==
  /\ backend \in [run : [Runs -> RunRecord], threads : SUBSET Threads, made : SUBSET Threads]
  /\ stream \in [Streams -> StreamRecord]
  /\ loads \in SUBSET LoadRecord
  /\ \A l \in loads : l.rows \in SUBSET RowsOf(l.kind)
  /\ calls \in SUBSET CallRecord
  /\ page \in PageRecord

ThreadOf(r) == backend.run[r].thread

\* Conversations the page knows have been made.
KnownMade ==
  /\ backend.threads \subseteq backend.made
  /\ page.open \in backend.made /\ page.listed \subseteq backend.made
  /\ \A l \in loads : l.kind = "conversations" => l.rows \subseteq backend.made
  /\ \A c \in calls : c.listed \subseteq backend.made

\* What is still to be shown of the messages is of the conversation that is open.
LoadsOfThread ==
  \A l \in loads : l.kind = "messages" =>
     l.thread = page.open /\ \A m \in l.rows : ThreadOf(m[1]) = page.open

\* A stream tells of a run of its conversation, or of one that was decided elsewhere.
StreamsOfThread ==
  \A s \in Streams :
     /\ stream[s].run = 0 => stream[s].wire = <<>>
     /\ stream[s].run # 0 => /\ stream[s].thread \in Threads
                             /\ ThreadOf(stream[s].run) = stream[s].thread \/ stream[s].run \in page.elsewhere

ViewInv == ViewTypeOK /\ KnownMade /\ LoadsOfThread /\ StreamsOfThread /\ ShownIsOfThread

\* No run changes its conversation.
SameThreads ==
  \A r \in Runs : backend.run[r].thread # "none" => backend'.run[r].thread = backend.run[r].thread

\* While no deletion is under way and the language stays, so do the messages of a conversation.
Stays ==
  page'.open = page.open /\ page'.changes = page.changes /\ Called({"deleted"}) = {}
    => page.transcript \subseteq page'.transcript

\* The page begins with a conversation that is there, and has asked for its lists.
LEMMA ViewInitially == ViewInit => ViewInv
<1> SUFFICES ASSUME ViewInit PROVE ViewInv
  OBVIOUS
<1>1. PICK t \in FirstThreads :
        /\ page = Reset([open |-> t, listed |-> FirstThreads, request |-> 0, busy |-> FALSE,
                         activeRun |-> 0, transcript |-> {}, answer |-> {}, approvals |-> {},
                         asked |-> FALSE, current |-> 0, changes |-> 0,
                         elsewhere |-> {}, leftover |-> {}])
        /\ loads = Opened(t)
  BY ViewAssumption DEF ViewInit
<1>2. 0 \in MaybeRuns /\ 0 \in 0..MaxStreams /\ FirstThreads \subseteq Threads
  BY ViewAssumption DEF MaybeRuns, Threads
<1>3. page \in PageRecord /\ page.open = t /\ page.transcript = {} /\ page.answer = {}
      /\ page.listed = FirstThreads
  BY <1>1, <1>2 DEF PageRecord, Reset
<1>4. loads \in SUBSET LoadRecord /\ \A l \in loads : l.rows = {} /\ l.thread = t /\ l.kind # "conversations"
  BY <1>1, <1>2 DEF LoadRecord, Opened, Load
<1>5. NoRun \in RunRecord /\ NoStream \in StreamRecord /\ NoStream.run = 0 /\ NoStream.wire = <<>>
  BY <1>2 DEF RunRecord, StreamRecord, NoRun, NoStream
<1>6. ViewTypeOK
  BY <1>2, <1>3, <1>4, <1>5 DEF ViewTypeOK, ViewInit
<1>7. KnownMade /\ LoadsOfThread /\ ShownIsOfThread
  BY <1>3, <1>4 DEF KnownMade, LoadsOfThread, ShownIsOfThread, ViewInit
<1>8. StreamsOfThread
  BY <1>5 DEF StreamsOfThread, ViewInit
<1> QED
  BY <1>6, <1>7, <1>8 DEF ViewInv

\* What keeps each part of the invariant when nothing new is shown, awaited or told.
LEMMA PageSteady ==
  ASSUME ViewInv, SameThreads, page'.open = page.open, page.elsewhere \subseteq page'.elsewhere,
         page'.leftover = page.leftover, page'.transcript \subseteq page.transcript,
         page'.answer \subseteq page.answer
  PROVE  ShownIsOfThread'
<1>1. page.open # "none" /\ page \in PageRecord
  BY ViewAssumption DEF ViewInv, ViewTypeOK, PageRecord, Threads
<1>2. ASSUME NEW m \in page'.transcript
      PROVE  backend'.run[m[1]].thread = page'.open \/ m[1] \in page'.elsewhere
  <2>1. /\ m[1] \in Runs
        /\ backend.run[m[1]].thread = page.open \/ m[1] \in page.elsewhere
    BY <1>1, <1>2 DEF ViewInv, ShownIsOfThread, PageRecord, MessageRows
  <2> QED
    BY <1>1, <2>1 DEF SameThreads
<1>3. ASSUME NEW r \in page'.answer
      PROVE  backend'.run[r].thread = page'.open \/ r \in page'.elsewhere \cup page'.leftover
  <2>1. r \in Runs /\ (backend.run[r].thread = page.open \/ r \in page.elsewhere \cup page.leftover)
    BY <1>1, <1>3 DEF ViewInv, ShownIsOfThread, PageRecord
  <2> QED
    BY <1>1, <2>1 DEF SameThreads
<1> QED
  BY <1>2, <1>3 DEF ShownIsOfThread

\* Lists that are awaited stay of the open conversation while none is opened.
LEMMA LoadsSteady ==
  ASSUME ViewInv, SameThreads, page'.open = page.open, loads' \subseteq loads
  PROVE  LoadsOfThread'
<1>1. ASSUME NEW l \in loads, l.kind = "messages", NEW m \in l.rows
      PROVE  backend'.run[m[1]].thread = page.open /\ l.thread = page.open
  <2>1. m \in MessageRows /\ m[1] \in Runs /\ ThreadOf(m[1]) = page.open /\ l.thread = page.open
    BY <1>1 DEF ViewInv, ViewTypeOK, LoadsOfThread, MessageRows, RowsOf
  <2>2. page.open # "none"
    BY ViewAssumption DEF ViewInv, ViewTypeOK, PageRecord, Threads
  <2> QED
    BY <2>1, <2>2 DEF SameThreads, ThreadOf
<1>2. ASSUME NEW l \in loads', l.kind = "messages"
      PROVE  l.thread = page'.open /\ \A m \in l.rows : backend'.run[m[1]].thread = page'.open
  <2>1. l \in loads
    OBVIOUS
  <2>2. l.thread = page.open
    BY <1>2, <2>1 DEF ViewInv, LoadsOfThread
  <2> QED
    BY <1>1, <1>2, <2>1, <2>2
<1> QED
  BY <1>2 DEF LoadsOfThread, ThreadOf

\* Streams that tell of the same runs as before stay of the conversations of these runs.
LEMMA StreamsSteady ==
  ASSUME ViewInv, SameThreads, page.elsewhere \subseteq page'.elsewhere,
         \A s \in Streams : /\ stream'[s].run = 0 => stream'[s].wire = <<>>
                            /\ stream'[s].run # 0 => /\ stream'[s].run = stream[s].run
                                                     /\ stream'[s].thread = stream[s].thread
  PROVE  StreamsOfThread'
<1> SUFFICES ASSUME NEW s \in Streams, stream'[s].run # 0
             PROVE  /\ stream'[s].thread \in Threads
                    /\ \/ backend'.run[stream'[s].run].thread = stream'[s].thread
                       \/ stream'[s].run \in page'.elsewhere
  BY DEF StreamsOfThread, ThreadOf
<1>1. /\ stream[s].run \in Runs /\ stream[s].thread \in Threads
      /\ ThreadOf(stream[s].run) = stream[s].thread \/ stream[s].run \in page.elsewhere
  BY DEF ViewInv, ViewTypeOK, StreamsOfThread, StreamRecord, MaybeRuns, Runs
<1>2. stream[s].thread # "none"
  BY <1>1, ViewAssumption DEF Threads
<1> QED
  BY <1>1, <1>2 DEF SameThreads, ThreadOf

\* A conversation that is opened waits for two lists.
LEMMA TwoLists ==
  ASSUME NEW t \in Threads
  PROVE  /\ Opened(t) \in SUBSET LoadRecord
         /\ \A l \in Opened(t) : l.rows = {} /\ l.thread = t /\ l.kind # "conversations"
<1>1. Load("messages", t) \in LoadRecord /\ Load("approvals", t) \in LoadRecord
  BY DEF LoadRecord, Load
<1>2. \A kind : Load(kind, t).rows = {} /\ Load(kind, t).thread = t /\ Load(kind, t).kind = kind
  BY DEF Load
<1> QED
  BY <1>1, <1>2 DEF Opened

\* Clearing a conversation takes away everything that is shown of it.
LEMMA Cleared ==
  ASSUME NEW v \in PageRecord
  PROVE  /\ Reset(v) \in PageRecord /\ Reset(v).open = v.open /\ Reset(v).listed = v.listed
         /\ Reset(v).elsewhere = v.elsewhere /\ Reset(v).leftover = v.leftover
         /\ Reset(v).transcript = {} /\ Reset(v).answer = {} /\ Reset(v).changes = v.changes
<1>1. 0 \in MaybeRuns
  BY ViewAssumption DEF MaybeRuns
<1> QED
  BY <1>1 DEF Reset, PageRecord

\* The lists that are awaited when a conversation is opened: its own, and the conversations.
LEMMA OpenedLoads ==
  ASSUME ViewInv, NEW t \in Threads, page'.open = t, loads' \subseteq Opened(t) \cup Awaited({"conversations"})
  PROVE  /\ loads' \in SUBSET LoadRecord /\ \A l \in loads' : l.rows \in SUBSET RowsOf(l.kind)
         /\ \A l \in loads' : l.kind = "conversations" => l.rows \subseteq backend.made
         /\ LoadsOfThread'
<1>1. ASSUME NEW l \in loads'
      PROVE  \/ l \in LoadRecord /\ l.rows = {} /\ l.thread = t /\ l.kind # "conversations"
             \/ l \in loads /\ l.kind = "conversations"
  BY TwoLists DEF Awaited
<1> QED
  BY <1>1 DEF ViewInv, ViewTypeOK, KnownMade, LoadsOfThread

\* Opening a conversation clears the page, and of the messages only its own are awaited.
LEMMA Switched ==
  ASSUME ViewInv, NEW v \in PageRecord, v.elsewhere = page.elsewhere, NEW t \in Threads, Switch(v, t)
  PROVE  /\ page' \in PageRecord /\ page'.open = t /\ page'.listed = v.listed
         /\ page'.elsewhere = page.elsewhere
         /\ loads' \in SUBSET LoadRecord /\ \A l \in loads' : l.rows \in SUBSET RowsOf(l.kind)
         /\ \A l \in loads' : l.kind = "conversations" => l.rows \subseteq backend.made
         /\ LoadsOfThread' /\ ShownIsOfThread'
<1>1. /\ page' \in PageRecord /\ page'.open = t /\ page'.listed = v.listed
      /\ page'.elsewhere = page.elsewhere /\ page'.transcript = {} /\ page'.answer = {}
  <2>1. page' = [Reset(v) EXCEPT !.open = t]
    BY DEF Switch
  <2> QED
    BY <2>1, Cleared DEF PageRecord
<1>2. ShownIsOfThread'
  BY <1>1 DEF ShownIsOfThread
<1>3. CASE t # page.open
  BY <1>1, <1>2, <1>3, OpenedLoads DEF Switch
<1>4. CASE t = page.open
  <2>1. loads' = {l \in loads : l.kind \in {"conversations", "approvals"}}
    BY <1>4 DEF Switch, Awaited
  <2> QED
    BY <1>1, <1>2, <2>1 DEF LoadsOfThread, ViewInv, ViewTypeOK, KnownMade
<1> QED
  BY <1>3, <1>4

\* A request the page sends.
LEMMA NewCall ==
  ASSUME NEW kind \in {"create", "delete", "replace", "restore", "cancel"}
  PROVE  Sent(kind) \in CallRecord /\ Sent(kind).listed = {} /\ Sent(kind).kind = kind
  BY ViewAssumption DEF Sent, CallRecord, MaybeRuns

\* A new conversation is made, and no run is of it.
LEMMA Made ==
  ASSUME ViewInv, NEW t \in Threads, Makes(t)
  PROVE  /\ backend' \in [run : [Runs -> RunRecord], threads : SUBSET Threads, made : SUBSET Threads]
         /\ SameThreads /\ backend'.made = backend.made \cup {t} /\ t # page.open
         /\ backend'.threads \subseteq backend'.made
  BY DEF ViewInv, ViewTypeOK, KnownMade, Makes, SameThreads

\* Opening a conversation, by choice or because another was made or deleted.
LEMMA OpenSteps ==
  ASSUME ViewInv,
         \/ \E t \in Threads : SelectConversation(t) \/ CreateAnswered(t) \/ ReplaceAnswered(t)
         \/ DeleteAnswered
  PROVE  ViewInv' /\ Stays
<1>1. /\ page \in PageRecord /\ calls \in SUBSET CallRecord /\ stream \in [Streams -> StreamRecord]
      /\ page.open \in backend.made /\ page.listed \subseteq backend.made /\ page.listed \subseteq Threads
      /\ \A c \in calls : c.listed \subseteq backend.made /\ c.listed \subseteq Threads
      /\ backend.threads \subseteq backend.made
      /\ backend \in [run : [Runs -> RunRecord], threads : SUBSET Threads, made : SUBSET Threads]
  BY DEF ViewInv, ViewTypeOK, KnownMade, PageRecord, CallRecord
<1>2. ASSUME NEW t \in Threads, SelectConversation(t) PROVE ViewInv' /\ Stays
  <2>1. Switch(page, t) /\ t \in page.listed \ {page.open} /\ UNCHANGED <<backend, stream, calls>>
    BY <1>2 DEF SelectConversation
  <2>2. /\ page' \in PageRecord /\ page'.open = t /\ page'.listed = page.listed
        /\ page'.elsewhere = page.elsewhere
        /\ loads' \in SUBSET LoadRecord
        /\ \A l \in loads' : l.rows \in SUBSET RowsOf(l.kind)
        /\ \A l \in loads' : l.kind = "conversations" => l.rows \subseteq backend.made
        /\ LoadsOfThread' /\ ShownIsOfThread'
    BY <1>1, <2>1, Switched
  <2>3. ViewTypeOK'
    BY <1>1, <2>1, <2>2 DEF ViewTypeOK
  <2>4. KnownMade'
    BY <1>1, <2>1, <2>2 DEF KnownMade
  <2>5. StreamsOfThread'
    BY <2>1, <2>2, StreamsSteady DEF SameThreads, ViewInv, StreamsOfThread
  <2> QED
    BY <2>1, <2>2, <2>3, <2>4, <2>5 DEF ViewInv, Stays
<1>3. ASSUME NEW t \in Threads, CreateAnswered(t) PROVE ViewInv' /\ Stays
  <2> DEFINE v == [page EXCEPT !.listed = @ \cup {t}]
  <2>1. PICK c \in calls : Switch(v, t) /\ calls' = calls \ {c}
    BY <1>3 DEF CreateAnswered, Called, Replaces
  <2>2. v \in PageRecord /\ v.elsewhere = page.elsewhere /\ v.listed = page.listed \cup {t}
    BY <1>1 DEF PageRecord
  <2> HIDE DEF v
  <2>3. /\ page' \in PageRecord /\ page'.open = t /\ page'.listed = page.listed \cup {t}
        /\ page'.elsewhere = page.elsewhere
        /\ loads' \in SUBSET LoadRecord
        /\ \A l \in loads' : l.rows \in SUBSET RowsOf(l.kind)
        /\ \A l \in loads' : l.kind = "conversations" => l.rows \subseteq backend.made
        /\ LoadsOfThread' /\ ShownIsOfThread'
    BY <2>1, <2>2, Switched
  <2>4. /\ backend' \in [run : [Runs -> RunRecord], threads : SUBSET Threads, made : SUBSET Threads]
        /\ SameThreads /\ backend'.made = backend.made \cup {t} /\ t # page.open /\ stream' = stream
        /\ backend'.threads \subseteq backend'.made
    BY <1>3, Made DEF CreateAnswered
  <2>5. ViewTypeOK'
    BY <1>1, <2>1, <2>3, <2>4 DEF ViewTypeOK
  <2>6. KnownMade'
    BY <1>1, <2>1, <2>3, <2>4 DEF KnownMade
  <2>7. StreamsOfThread'
    BY <2>3, <2>4, StreamsSteady DEF ViewInv, StreamsOfThread
  <2> QED
    BY <2>3, <2>4, <2>5, <2>6, <2>7 DEF ViewInv, Stays
<1>4. ASSUME NEW t \in Threads, ReplaceAnswered(t) PROVE ViewInv' /\ Stays
  <2>1. PICK c \in calls : calls' = calls \ {c}
    BY <1>4 DEF ReplaceAnswered, Called, Replaces
  <2>2. /\ page' = [page EXCEPT !.listed = {t}, !.open = t, !.transcript = {}, !.leftover = page.answer]
        /\ loads' = Opened(t) \cup Awaited({"conversations"}) /\ stream' = stream
    BY <1>4 DEF ReplaceAnswered
  <2>3. /\ page' \in PageRecord /\ page'.open = t /\ page'.listed = {t} /\ page'.transcript = {}
        /\ page'.elsewhere = page.elsewhere /\ page'.answer = page'.leftover
    BY <1>1, <2>2 DEF PageRecord
  <2>4. /\ backend' \in [run : [Runs -> RunRecord], threads : SUBSET Threads, made : SUBSET Threads]
        /\ SameThreads /\ backend'.made = backend.made \cup {t} /\ t # page.open
        /\ backend'.threads \subseteq backend'.made
    BY <1>4, Made DEF ReplaceAnswered
  <2>5. /\ loads' \in SUBSET LoadRecord /\ \A l \in loads' : l.rows \in SUBSET RowsOf(l.kind)
        /\ \A l \in loads' : l.kind = "conversations" => l.rows \subseteq backend.made
        /\ LoadsOfThread'
    BY <2>2, <2>3, OpenedLoads
  <2>6. ViewTypeOK'
    BY <1>1, <2>1, <2>2, <2>3, <2>4, <2>5 DEF ViewTypeOK
  <2>7. KnownMade'
    BY <1>1, <2>1, <2>3, <2>4, <2>5 DEF KnownMade
  <2>8. StreamsOfThread'
    BY <2>2, <2>3, <2>4, StreamsSteady DEF ViewInv, StreamsOfThread
  <2>9. LoadsOfThread' /\ ShownIsOfThread'
    BY <2>3, <2>5 DEF ShownIsOfThread
  <2> QED
    BY <2>3, <2>4, <2>6, <2>7, <2>8, <2>9 DEF ViewInv, Stays
<1>5. ASSUME DeleteAnswered PROVE ViewInv' /\ Stays
  <2>1. PICK c \in Called({"deleted"}) :
          IF c.listed \ {c.thread} # {}
          THEN /\ \E t \in c.listed \ {c.thread} : Switch([page EXCEPT !.listed = c.listed \ {c.thread}], t)
               /\ Replaces(c, {})
          ELSE /\ page' = Reset(page)
               /\ loads' = Awaited({"conversations", "approvals"})
               /\ Replaces(c, {Sent("replace")})
    BY <1>5 DEF DeleteAnswered
  <2>2. UNCHANGED <<backend, stream>> /\ c \in calls /\ Stays
    BY <1>5, <2>1 DEF DeleteAnswered, Called, Stays
  <2>3. SameThreads
    BY <2>2 DEF SameThreads
  <2>4. CASE c.listed \ {c.thread} # {}
    <3>1. PICK t \in c.listed \ {c.thread} : Switch([page EXCEPT !.listed = c.listed \ {c.thread}], t)
      BY <2>1, <2>4
    <3> DEFINE v == [page EXCEPT !.listed = c.listed \ {c.thread}]
    <3>2. v \in PageRecord /\ v.elsewhere = page.elsewhere /\ v.listed = c.listed \ {c.thread}
      BY <1>1, <2>2 DEF PageRecord
    <3>3. calls' = calls \ {c} /\ Switch(v, t) /\ t \in Threads /\ t \in backend.made
      BY <1>1, <2>1, <2>2, <2>4, <3>1 DEF Replaces
    <3> HIDE DEF v
    <3>4. /\ page' \in PageRecord /\ page'.open = t /\ page'.listed = c.listed \ {c.thread}
          /\ page'.elsewhere = page.elsewhere
          /\ loads' \in SUBSET LoadRecord
          /\ \A l \in loads' : l.rows \in SUBSET RowsOf(l.kind)
          /\ \A l \in loads' : l.kind = "conversations" => l.rows \subseteq backend.made
          /\ LoadsOfThread' /\ ShownIsOfThread'
      BY <3>2, <3>3, Switched
    <3>5. ViewTypeOK'
      BY <1>1, <2>2, <3>3, <3>4 DEF ViewTypeOK
    <3>6. KnownMade'
      BY <1>1, <2>2, <3>3, <3>4 DEF KnownMade
    <3>7. StreamsOfThread'
      BY <2>2, <2>3, <3>4, StreamsSteady DEF ViewInv, StreamsOfThread
    <3> QED
      BY <2>2, <3>4, <3>5, <3>6, <3>7 DEF ViewInv
  <2>5. CASE c.listed \ {c.thread} = {}
    <3>1. /\ page' = Reset(page) /\ loads' \subseteq loads
          /\ calls' = (calls \ {c}) \cup {Sent("replace")}
      BY <2>1, <2>5 DEF Replaces, Awaited
    <3>2. /\ page' \in PageRecord /\ page'.open = page.open /\ page'.listed = page.listed
          /\ page'.elsewhere = page.elsewhere /\ page'.transcript = {} /\ page'.answer = {}
          /\ page'.leftover = page.leftover
      BY <1>1, <3>1, Cleared
    <3>3. calls' \in SUBSET CallRecord /\ \A d \in calls' : d.listed \subseteq backend.made
      BY <1>1, <3>1, NewCall
    <3>4. ViewTypeOK'
      BY <1>1, <2>2, <3>1, <3>2, <3>3 DEF ViewTypeOK, ViewInv
    <3>5. KnownMade'
      BY <1>1, <2>2, <3>1, <3>2, <3>3 DEF KnownMade, ViewInv
    <3>6. StreamsOfThread' /\ LoadsOfThread' /\ ShownIsOfThread'
      BY <2>2, <2>3, <3>1, <3>2, StreamsSteady, LoadsSteady DEF ViewInv, StreamsOfThread, ShownIsOfThread
    <3> QED
      BY <2>2, <3>4, <3>5, <3>6 DEF ViewInv
  <2> QED
    BY <2>4, <2>5
<1> QED
  BY <1>2, <1>3, <1>4, <1>5

\* A step that shows nothing new, awaits no other list and lets no stream tell of another run.
LEMMA Steady ==
  ASSUME ViewInv, ViewTypeOK', SameThreads, backend'.made = backend.made, backend'.threads \subseteq backend.threads,
         page'.open = page.open, page'.listed = page.listed, page.elsewhere \subseteq page'.elsewhere,
         page'.leftover = page.leftover, page'.transcript = page.transcript,
         page'.answer \subseteq page.answer, loads' \subseteq loads,
         \A c \in calls' : c.listed \subseteq backend.made,
         \A s \in Streams : /\ stream'[s].run = 0 => stream'[s].wire = <<>>
                            /\ stream'[s].run # 0 => /\ stream'[s].run = stream[s].run
                                                     /\ stream'[s].thread = stream[s].thread
  PROVE  ViewInv' /\ Stays
<1>1. KnownMade'
  BY DEF ViewInv, KnownMade
<1>2. LoadsOfThread' /\ StreamsOfThread' /\ ShownIsOfThread'
  BY LoadsSteady, StreamsSteady, PageSteady
<1> QED
  BY <1>1, <1>2 DEF ViewInv, Stays

\* What a step may rely on that leaves the runs as they are.
LEMMA Kept ==
  ASSUME ViewInv
  PROVE  /\ UNCHANGED stream => \A s \in Streams :
              /\ stream'[s].run = 0 => stream'[s].wire = <<>>
              /\ stream'[s].run # 0 => /\ stream'[s].run = stream[s].run
                                       /\ stream'[s].thread = stream[s].thread
         /\ UNCHANGED backend => SameThreads /\ backend'.made = backend.made /\ backend'.threads = backend.threads
         /\ calls \in SUBSET CallRecord /\ page \in PageRecord /\ stream \in [Streams -> StreamRecord]
         /\ backend \in [run : [Runs -> RunRecord], threads : SUBSET Threads, made : SUBSET Threads]
         /\ \A c \in calls : c.listed \subseteq backend.made
         /\ page.listed \in SUBSET Threads /\ page.listed \subseteq backend.made /\ page.open \in Threads
  BY DEF ViewInv, ViewTypeOK, StreamsOfThread, KnownMade, SameThreads, PageRecord

\* Requests of the page that only wait for their answer, and the server archiving a
\* conversation.
LEMMA RequestSent ==
  ASSUME ViewInv, AskCreate \/ AskDelete \/ ServerArchives \/ RequestFails \/ AskIgnored
  PROVE  ViewInv' /\ Stays
<1> USE Kept
<1>1. CASE AskCreate
  <2>1. calls' = calls \cup {Sent("create")} /\ UNCHANGED <<backend, stream, loads, page>>
    BY <1>1 DEF AskCreate
  <2>2. ViewTypeOK'
    BY <2>1, NewCall DEF ViewInv, ViewTypeOK
  <2> QED
    BY <2>1, <2>2, NewCall, Steady
<1>2. CASE AskDelete
  <2> DEFINE c == [Sent("delete") EXCEPT !.thread = page.open, !.listed = page.listed]
  <2>1. calls' = calls \cup {c} /\ UNCHANGED <<backend, stream, loads, page>>
    BY <1>2 DEF AskDelete
  <2>2. c \in CallRecord /\ c.listed = page.listed
    BY NewCall DEF CallRecord
  <2> HIDE DEF c
  <2>3. ViewTypeOK'
    BY <2>1, <2>2 DEF ViewInv, ViewTypeOK
  <2> QED
    BY <2>1, <2>2, <2>3, Steady
<1>3. CASE ServerArchives
  <2>1. PICK c \in calls :
          IF ActiveRuns(c.thread) = {} /\ c.thread \in backend.threads
          THEN /\ backend' = [backend EXCEPT !.threads = @ \ {c.thread}]
               /\ Replaces(c, {[c EXCEPT !.kind = "deleted"]})
          ELSE Replaces(c, {}) /\ UNCHANGED backend
    BY <1>3 DEF ServerArchives, Called
  <2>2. UNCHANGED <<stream, loads, page>>
    BY <1>3 DEF ServerArchives
  <2>3. CASE ActiveRuns(c.thread) = {} /\ c.thread \in backend.threads
    <3> DEFINE d == [c EXCEPT !.kind = "deleted"]
    <3>1. calls' = (calls \ {c}) \cup {d}
      BY <2>1, <2>3 DEF Replaces
    <3>2. d \in CallRecord /\ d.listed = c.listed
      BY DEF CallRecord
    <3> HIDE DEF d
    <3>3. /\ backend' \in [run : [Runs -> RunRecord], threads : SUBSET Threads, made : SUBSET Threads]
          /\ backend'.made = backend.made /\ backend'.run = backend.run /\ backend'.threads \subseteq backend.threads
      BY <2>1, <2>3
    <3>4. ViewTypeOK'
      BY <2>2, <3>1, <3>2, <3>3 DEF ViewInv, ViewTypeOK
    <3> QED
      BY <2>2, <3>1, <3>2, <3>3, <3>4, Steady DEF SameThreads
  <2>4. CASE ~(ActiveRuns(c.thread) = {} /\ c.thread \in backend.threads)
    <3>1. calls' = calls \ {c} /\ UNCHANGED backend
      BY <2>1, <2>4 DEF Replaces
    <3>2. ViewTypeOK'
      BY <2>2, <3>1 DEF ViewInv, ViewTypeOK
    <3> QED
      BY <2>2, <3>1, <3>2, Steady
  <2> QED
    BY <2>3, <2>4
<1>4. CASE RequestFails
  <2>1. calls' \subseteq calls /\ UNCHANGED <<backend, stream, loads, page>>
    BY <1>4 DEF RequestFails, Called, Replaces
  <2>2. ViewTypeOK'
    BY <2>1 DEF ViewInv, ViewTypeOK
  <2> QED
    BY <2>1, <2>2, Steady
<1>5. CASE AskIgnored
  <2>1. page' = [page EXCEPT !.answer = {}, !.asked = TRUE] /\ UNCHANGED <<backend, stream, loads, calls>>
    BY <1>5 DEF AskIgnored
  <2>2. /\ page' \in PageRecord /\ page'.open = page.open /\ page'.listed = page.listed
        /\ page'.elsewhere = page.elsewhere /\ page'.leftover = page.leftover
        /\ page'.transcript = page.transcript /\ page'.answer = {}
    BY <2>1 DEF PageRecord
  <2>3. ViewTypeOK'
    BY <2>1, <2>2 DEF ViewInv, ViewTypeOK
  <2> QED
    BY <2>1, <2>2, <2>3, Steady
<1> QED
  BY <1>1, <1>2, <1>3, <1>4, <1>5

\* The lists of a conversation.
LEMMA ListSteps ==
  ASSUME ViewInv, ServerLists \/ MessagesArrive \/ ApprovalsArrive
  PROVE  ViewInv' /\ Stays
<1> USE Kept
<1>a. /\ loads \in SUBSET LoadRecord
      /\ \A l \in loads : l.rows \in SUBSET RowsOf(l.kind)
  BY DEF ViewInv, ViewTypeOK
<1>1. CASE ServerLists
  <2>1. PICK l \in loads : loads' = (loads \ {l}) \cup {[l EXCEPT !.read = TRUE, !.rows = Listed(l)]}
    BY <1>1 DEF ServerLists
  <2>2. UNCHANGED <<backend, stream, calls, page>>
    BY <1>1 DEF ServerLists
  <2>3. /\ Messages(l.thread) \in SUBSET MessageRows
        /\ \A m \in Messages(l.thread) : ThreadOf(m[1]) = l.thread
    BY DEF Messages, MessageRows, ThreadOf
  <2>4. Approvals(l.thread) \in SUBSET ApprovalRows
    <3>1. ASSUME NEW r \in Runs, backend.run[r].approval # "none"
          PROVE  [run |-> r, status |-> backend.run[r].approval] \in ApprovalRows
      BY <3>1 DEF RunRecord, ApprovalRows
    <3> QED
      BY <3>1 DEF Approvals
  <2>5. /\ Listed(l) \in SUBSET RowsOf(l.kind)
        /\ l.kind = "messages" => Listed(l) = Messages(l.thread)
        /\ l.kind = "conversations" => Listed(l) = backend.threads
    <3>1. l.kind \in {"messages", "approvals", "conversations"}
      BY <1>a DEF LoadRecord
    <3>2. CASE l.kind = "messages"
      BY <2>3, <3>2 DEF Listed, RowsOf
    <3>3. CASE l.kind = "approvals"
      BY <2>4, <3>3 DEF Listed, RowsOf
    <3>4. CASE l.kind = "conversations"
      BY <3>4 DEF Listed, RowsOf
    <3> QED
      BY <3>1, <3>2, <3>3, <3>4
  <2>6. PICK k \in LoadRecord :
          /\ loads' = (loads \ {l}) \cup {k} /\ k.kind = l.kind /\ k.thread = l.thread
          /\ k.rows = Listed(l)
    <3>1. PICK R \in SUBSET (MessageRows \cup ApprovalRows \cup Threads) : R = Listed(l)
      BY <2>5 DEF RowsOf
    <3>2. l \in LoadRecord /\ loads' = (loads \ {l}) \cup {[l EXCEPT !.read = TRUE, !.rows = R]}
      BY <1>a, <2>1, <3>1
    <3>3. [l EXCEPT !.read = TRUE, !.rows = R] \in LoadRecord
      BY <3>2 DEF LoadRecord
    <3>4. /\ [l EXCEPT !.read = TRUE, !.rows = R].kind = l.kind
          /\ [l EXCEPT !.read = TRUE, !.rows = R].thread = l.thread
          /\ [l EXCEPT !.read = TRUE, !.rows = R].rows = R
      BY <3>2 DEF LoadRecord
    <3> QED
      BY <3>1, <3>2, <3>3, <3>4
  <2>7. ViewTypeOK'
    BY <1>a, <2>2, <2>5, <2>6 DEF ViewInv, ViewTypeOK
  <2>8. LoadsOfThread'
    BY <2>2, <2>3, <2>5, <2>6 DEF ViewInv, LoadsOfThread, ThreadOf
  <2>9. KnownMade'
    BY <2>2, <2>5, <2>6 DEF ViewInv, KnownMade
  <2> QED
    BY <2>2, <2>7, <2>8, <2>9 DEF ViewInv, StreamsOfThread, ThreadOf, ShownIsOfThread, Stays
<1>2. CASE MessagesArrive
  <2>1. PICK l \in loads : /\ l.kind = "messages" /\ loads' = loads \ {l}
                           /\ page' = [page EXCEPT !.transcript = page.transcript \cup l.rows]
    BY <1>2 DEF MessagesArrive, Merged
  <2>2. UNCHANGED <<backend, stream, calls>>
    BY <1>2 DEF MessagesArrive
  <2>3. l.rows \in SUBSET MessageRows /\ \A m \in l.rows : ThreadOf(m[1]) = page.open
    BY <1>a, <2>1 DEF ViewInv, LoadsOfThread, RowsOf
  <2>4. /\ page' \in PageRecord /\ page'.open = page.open /\ page'.listed = page.listed
        /\ page'.elsewhere = page.elsewhere /\ page'.leftover = page.leftover
        /\ page'.transcript = page.transcript \cup l.rows /\ page'.answer = page.answer
    BY <2>1, <2>3 DEF PageRecord
  <2>5. ViewTypeOK' /\ KnownMade'
    BY <2>1, <2>2, <2>4 DEF ViewInv, ViewTypeOK, KnownMade
  <2>6. LoadsOfThread' /\ StreamsOfThread'
    BY <2>1, <2>2, <2>4, LoadsSteady, StreamsSteady
  <2>7. ShownIsOfThread'
    BY <2>2, <2>3, <2>4 DEF ViewInv, ShownIsOfThread, ThreadOf
  <2> QED
    BY <2>4, <2>5, <2>6, <2>7 DEF ViewInv, Stays
<1>3. CASE ApprovalsArrive
  <2>1. PICK l \in loads : /\ l.kind = "approvals" /\ loads' = loads \ {l}
                           /\ LET undecided == {a \in l.rows : a.status \in {"pending", "executing"}}
                              IN page' = IF undecided = {} THEN [page EXCEPT !.approvals = l.rows]
                                         ELSE [page EXCEPT !.approvals = l.rows,
                                                           !.activeRun = (CHOOSE a \in undecided : TRUE).run]
    BY <1>3 DEF ApprovalsArrive
  <2>2. UNCHANGED <<backend, stream, calls>>
    BY <1>3 DEF ApprovalsArrive
  <2>3. l.rows \in SUBSET ApprovalRows
    BY <1>a, <2>1 DEF RowsOf
  <2>4. PICK r \in MaybeRuns : page' = [page EXCEPT !.approvals = l.rows, !.activeRun = r]
    <3> DEFINE undecided == {a \in l.rows : a.status \in {"pending", "executing"}}
    <3>1. CASE undecided = {}
      BY <2>1, <3>1 DEF PageRecord
    <3>2. CASE undecided # {}
      <4>1. (CHOOSE a \in undecided : TRUE) \in ApprovalRows
        BY <2>3, <3>2
      <4>2. (CHOOSE a \in undecided : TRUE).run \in MaybeRuns
        BY <4>1 DEF ApprovalRows, Runs, MaybeRuns
      <4> QED
        BY <2>1, <3>2, <4>2
    <3> QED
      BY <3>1, <3>2
  <2>5. /\ page' \in PageRecord /\ page'.open = page.open /\ page'.listed = page.listed
        /\ page'.elsewhere = page.elsewhere /\ page'.leftover = page.leftover
        /\ page'.transcript = page.transcript /\ page'.answer = page.answer
    BY <2>3, <2>4 DEF PageRecord
  <2>6. ViewTypeOK'
    BY <2>1, <2>2, <2>5 DEF ViewInv, ViewTypeOK
  <2> QED
    BY <2>1, <2>2, <2>5, <2>6, Steady
<1> QED
  BY <1>1, <1>2, <1>3

\* A question or a decision opens a stream.
LEMMA StreamOpens ==
  ASSUME ViewInv, NEW s \in Streams,
         \/ AskTutor(s)
         \/ \E a \in page.approvals : \E decision \in Decisions : DecideToolApproval(s, a, decision)
  PROVE  ViewInv' /\ Stays
<1> USE Kept
<1>a. 0 \in MaybeRuns /\ s \in 0..MaxStreams /\ Runs \subseteq MaybeRuns /\ 0 \notin Runs
  BY ViewAssumption DEF MaybeRuns, Runs, Streams
<1>1. ASSUME NEW k \in {"ask", "executing", "decided"}, NEW r \in MaybeRuns, Sends(s, k, r)
      PROVE  /\ stream' \in [Streams -> StreamRecord] /\ \A x \in Streams \ {s} : stream'[x] = stream[x]
             /\ stream'[s].run = r /\ stream'[s].thread = page.open /\ stream'[s].wire = <<>>
  <2> DEFINE new == [NoStream EXCEPT !.kind = k, !.thread = page.open, !.run = r, !.told = r, !.state = "sent"]
  <2>1. new \in StreamRecord /\ new.run = r /\ new.thread = page.open /\ new.wire = <<>>
    <3>1. /\ <<>> \in Seq(Events) /\ page.open \in Threads \cup {"none"} /\ r \in MaybeRuns
          /\ k \in {"ask", "executing", "decided"}
      OBVIOUS
    <3>2. NoStream \in StreamRecord /\ NoStream.wire = <<>>
      BY <1>a, <3>1 DEF NoStream, StreamRecord
    <3> QED
      BY <3>1, <3>2 DEF StreamRecord
  <2>2. stream' = [stream EXCEPT ![s] = new]
    BY <1>1 DEF Sends
  <2> HIDE DEF new
  <2> QED
    BY <2>1, <2>2
<1>2. CASE AskTutor(s)
  <2>1. /\ Sends(s, "ask", 0) /\ UNCHANGED <<backend, loads, calls>>
        /\ page' = [page EXCEPT !.request = s, !.busy = TRUE, !.answer = {}, !.asked = TRUE]
    BY <1>2 DEF AskTutor
  <2>2. /\ stream' \in [Streams -> StreamRecord] /\ \A x \in Streams \ {s} : stream'[x] = stream[x]
        /\ stream'[s].run = 0 /\ stream'[s].wire = <<>>
    BY <1>a, <1>1, <2>1
  <2>3. /\ page' \in PageRecord /\ page'.open = page.open /\ page'.listed = page.listed
        /\ page'.elsewhere = page.elsewhere /\ page'.leftover = page.leftover
        /\ page'.transcript = page.transcript /\ page'.answer = {}
    BY <1>a, <2>1 DEF PageRecord
  <2>4. ViewTypeOK'
    BY <2>1, <2>2, <2>3 DEF ViewInv, ViewTypeOK
  <2>5. \A x \in Streams : /\ stream'[x].run = 0 => stream'[x].wire = <<>>
                           /\ stream'[x].run # 0 => /\ stream'[x].run = stream[x].run
                                                    /\ stream'[x].thread = stream[x].thread
    BY <2>2 DEF ViewInv, StreamsOfThread
  <2> QED
    BY <2>1, <2>3, <2>4, <2>5, Steady
<1>3. ASSUME NEW a \in page.approvals, NEW decision \in Decisions, DecideToolApproval(s, a, decision)
      PROVE  ViewInv' /\ Stays
  <2>1. /\ Sends(s, decision, a.run) /\ UNCHANGED <<backend, loads, calls>>
        /\ page' = [page EXCEPT !.request = s, !.busy = TRUE, !.activeRun = a.run,
                       !.approvals = (@ \ {a}) \cup {[a EXCEPT !.status = decision]},
                       !.elsewhere = @ \cup {r \in {a.run} : backend.run[r].thread # page.open}]
    BY <1>3 DEF DecideToolApproval
  <2>2. a \in ApprovalRows /\ a.run \in Runs /\ [a EXCEPT !.status = decision] \in ApprovalRows
    BY DEF PageRecord, ApprovalRows, Decisions
  <2>3. /\ stream' \in [Streams -> StreamRecord] /\ \A x \in Streams \ {s} : stream'[x] = stream[x]
        /\ stream'[s].run = a.run /\ stream'[s].thread = page.open /\ stream'[s].wire = <<>>
    BY <1>a, <1>1, <2>1, <2>2 DEF Decisions
  <2>4. /\ page' \in PageRecord /\ page'.open = page.open /\ page'.listed = page.listed
        /\ page'.elsewhere = page.elsewhere \cup {r \in {a.run} : backend.run[r].thread # page.open}
        /\ page'.leftover = page.leftover
        /\ page'.transcript = page.transcript /\ page'.answer = page.answer
    BY <1>a, <2>1, <2>2 DEF PageRecord
  <2>5. ViewTypeOK' /\ KnownMade'
    BY <2>1, <2>3, <2>4 DEF ViewInv, ViewTypeOK, KnownMade
  <2>6. StreamsOfThread'
    <3>1. ThreadOf(a.run) = page.open \/ a.run \in page'.elsewhere
      BY <2>4 DEF ThreadOf
    <3> QED
      BY <2>1, <2>3, <2>4, <3>1 DEF ViewInv, StreamsOfThread, ThreadOf
  <2>7. LoadsOfThread' /\ ShownIsOfThread'
    BY <2>1, <2>4, LoadsSteady, PageSteady
  <2> QED
    BY <2>4, <2>5, <2>6, <2>7 DEF ViewInv, Stays
<1> QED
  BY <1>2, <1>3

\* The server answers a question or a decision.
LEMMA ServerAnswers ==
  ASSUME ViewInv, NEW s \in Streams, ServerStarts(s) \/ ServerResumes(s) \/ ConnectionBreaks(s)
  PROVE  ViewInv' /\ Stays
<1> USE Kept
<1>a. UNCHANGED <<loads, calls, page>> /\ stream[s] \in StreamRecord /\ Stays
  BY DEF ServerStarts, ServerResumes, ConnectionBreaks, Stays
<1>1. ASSUME stream' = [stream EXCEPT ![s].state = "broken"] \/ stream' = [stream EXCEPT ![s].state = "open"]
                \/ stream' = [stream EXCEPT ![s] = [@ EXCEPT !.state = "broken", !.wire = <<>>]]
      PROVE  /\ stream' \in [Streams -> StreamRecord]
             /\ \A x \in Streams : /\ stream'[x].run = 0 => stream'[x].wire = <<>>
                                   /\ stream'[x].run # 0 => /\ stream'[x].run = stream[x].run
                                                            /\ stream'[x].thread = stream[x].thread
  <2>1. PICK new \in StreamRecord :
          /\ new.run = stream[s].run /\ new.thread = stream[s].thread /\ new.wire \in {<<>>, stream[s].wire}
          /\ stream' = [stream EXCEPT ![s] = new]
    <3>1. PICK state \in {"broken", "open"}, wire \in {<<>>, stream[s].wire} :
            stream' = [stream EXCEPT ![s] = [stream[s] EXCEPT !.state = state, !.wire = wire]]
      BY <1>a, <1>1 DEF StreamRecord
    <3> DEFINE new == [stream[s] EXCEPT !.state = state, !.wire = wire]
    <3>2. new \in StreamRecord /\ new.run = stream[s].run /\ new.thread = stream[s].thread /\ new.wire = wire
      <4>1. wire \in Seq(Events) /\ state \in {"broken", "open"}
        <5>1. stream[s].wire \in Seq(Events) /\ <<>> \in Seq(Events)
          BY <1>a DEF StreamRecord
        <5> QED
          BY <5>1
      <4> QED
        BY <1>a, <4>1 DEF StreamRecord
    <3> QED
      BY <3>1, <3>2
  <2> QED
    BY <2>1 DEF ViewInv, StreamsOfThread
<1>2. CASE ServerStarts(s)
  <2> DEFINE t == stream[s].thread
  <2>1. CASE t \in backend.threads /\ ActiveRuns(t) = {} /\ \E r \in Runs : NextRun(r)
    <3>1. PICK r \in Runs :
            /\ NextRun(r)
            /\ backend' = [backend EXCEPT !.run[r] = [NoRun EXCEPT !.thread = t, !.status = "running"]]
            /\ stream' = [stream EXCEPT ![s] = [@ EXCEPT !.run = r, !.state = "open", !.wire = <<"started">>]]
      BY <1>2, <2>1 DEF ServerStarts
    <3> DEFINE run == [NoRun EXCEPT !.thread = t, !.status = "running"]
               new == [stream[s] EXCEPT !.run = r, !.state = "open", !.wire = <<"started">>]
    <3>2. t \in Threads /\ r \in MaybeRuns /\ r # 0
      BY <2>1 DEF MaybeRuns, Runs
    <3>3. run \in RunRecord /\ run.thread = t
      BY <3>2 DEF RunRecord, NoRun
    <3>4. new \in StreamRecord /\ new.run = r /\ new.thread = t
      <4>1. <<"started">> \in Seq(Events)
        BY DEF Events
      <4> QED
        BY <1>a, <3>2, <4>1 DEF StreamRecord
    <3>5. backend' = [backend EXCEPT !.run[r] = run] /\ stream' = [stream EXCEPT ![s] = new]
      BY <1>a, <3>1
    <3> HIDE DEF run, new
    <3>6. /\ backend' \in [run : [Runs -> RunRecord], threads : SUBSET Threads, made : SUBSET Threads]
          /\ backend'.made = backend.made /\ backend'.run = [backend.run EXCEPT ![r] = run]
          /\ backend'.threads = backend.threads
      BY <3>3, <3>5
    <3>7. SameThreads
      BY <3>1, <3>6 DEF SameThreads, NextRun, NoRun
    <3>8. stream' \in [Streams -> StreamRecord]
      BY <3>4, <3>5
    <3>9. StreamsOfThread'
      <4> SUFFICES ASSUME NEW x \in Streams
                   PROVE  /\ stream'[x].run = 0 => stream'[x].wire = <<>>
                          /\ stream'[x].run # 0 =>
                               /\ stream'[x].thread \in Threads
                               /\ \/ backend'.run[stream'[x].run].thread = stream'[x].thread
                                  \/ stream'[x].run \in page'.elsewhere
        BY DEF StreamsOfThread, ThreadOf
      <4>1. CASE x = s
        BY <3>2, <3>3, <3>4, <3>5, <3>6, <4>1
      <4>2. CASE x # s
        <5>1. stream'[x] = stream[x] /\ stream[x].run \in MaybeRuns
          BY <3>5, <4>2 DEF StreamRecord
        <5>2. /\ stream[x].run = 0 => stream[x].wire = <<>>
              /\ stream[x].run # 0 =>
                   /\ stream[x].thread \in Threads
                   /\ backend.run[stream[x].run].thread = stream[x].thread \/ stream[x].run \in page.elsewhere
          BY DEF ViewInv, StreamsOfThread, ThreadOf
        <5>3. stream[x].run # 0 => stream[x].run \in Runs
          BY <5>1, ViewAssumption DEF MaybeRuns, Runs
        <5> QED
          BY <1>a, <3>7, <5>1, <5>2, <5>3, ViewAssumption DEF SameThreads, Threads
      <4> QED
        BY <4>1, <4>2
    <3>10. ViewTypeOK' /\ KnownMade'
      BY <1>a, <3>6, <3>8 DEF ViewInv, ViewTypeOK, KnownMade
    <3>11. LoadsOfThread' /\ ShownIsOfThread'
      BY <1>a, <3>7, LoadsSteady, PageSteady
    <3> QED
      BY <1>a, <3>9, <3>10, <3>11 DEF ViewInv
  <2>2. CASE ~(t \in backend.threads /\ ActiveRuns(t) = {} /\ \E r \in Runs : NextRun(r))
    <3>1. stream' = [stream EXCEPT ![s].state = "broken"] /\ UNCHANGED backend
      BY <1>2, <2>2 DEF ServerStarts
    <3>2. ViewTypeOK'
      BY <1>a, <1>1, <3>1 DEF ViewInv, ViewTypeOK
    <3> QED
      BY <1>a, <1>1, <3>1, <3>2, Steady
  <2> QED
    BY <2>1, <2>2
<1>3. CASE ServerResumes(s)
  <2> DEFINE r == stream[s].run
  <2>1. PICK status \in {"executing", "running"} :
          \/ /\ backend' = [backend EXCEPT !.run[r] = [@ EXCEPT !.approval = stream[s].kind, !.status = status]]
             /\ stream' = [stream EXCEPT ![s].state = "open"]
          \/ stream' = [stream EXCEPT ![s].state = "broken"] /\ UNCHANGED backend
    BY <1>3 DEF ServerResumes
  <2>2. /\ backend' \in [run : [Runs -> RunRecord], threads : SUBSET Threads, made : SUBSET Threads]
        /\ backend'.made = backend.made /\ backend'.threads = backend.threads /\ SameThreads
    <3>1. stream[s].kind \in {"executing", "decided"}
      BY <1>3 DEF ServerResumes, Decisions
    <3>2. ASSUME backend' = [backend EXCEPT !.run[r] = [@ EXCEPT !.approval = stream[s].kind, !.status = status]]
          PROVE  /\ backend' \in [run : [Runs -> RunRecord], threads : SUBSET Threads, made : SUBSET Threads]
                 /\ backend'.made = backend.made /\ backend'.threads = backend.threads /\ SameThreads
      <4>1. backend'.run = [backend.run EXCEPT ![r] = [@ EXCEPT !.approval = stream[s].kind, !.status = status]]
            /\ backend'.made = backend.made /\ backend'.threads = backend.threads
        BY <3>2
      <4>2. ASSUME r \in Runs
            PROVE  [backend.run[r] EXCEPT !.approval = stream[s].kind, !.status = status] \in RunRecord
        <5>1. backend.run[r] \in RunRecord /\ status \in {"executing", "running"}
          BY <4>2
        <5> QED
          BY <3>1, <5>1 DEF RunRecord
      <4>3. \A x \in Runs : backend'.run[x].thread = backend.run[x].thread
        BY <4>1 DEF RunRecord
      <4>4. backend'.run \in [Runs -> RunRecord]
        BY <4>1, <4>2
      <4> QED
        BY <3>2, <4>1, <4>3, <4>4 DEF SameThreads
    <3> QED
      BY <2>1, <3>2
  <2>3. ViewTypeOK'
    BY <1>a, <1>1, <2>1, <2>2 DEF ViewInv, ViewTypeOK
  <2> QED
    BY <1>a, <1>1, <2>1, <2>2, <2>3, Steady
<1>4. CASE ConnectionBreaks(s)
  <2>1. stream' = [stream EXCEPT ![s] = [@ EXCEPT !.state = "broken", !.wire = <<>>]] /\ UNCHANGED backend
    BY <1>4 DEF ConnectionBreaks
  <2>2. ViewTypeOK'
    BY <1>a, <1>1, <2>1 DEF ViewInv, ViewTypeOK
  <2> QED
    BY <1>a, <1>1, <2>1, <2>2, Steady
<1> QED
  BY <1>2, <1>3, <1>4

\* The server tells the stream of a run what becomes of it.
LEMMA ServerTells ==
  ASSUME ViewInv, NEW r \in Runs,
         \/ ServerWrites(r) \/ ServerAsksApproval(r)
         \/ \E event \in {"success", "failed", "cancelled"} : ServerSettles(r, event)
  PROVE  ViewInv' /\ Stays
<1> USE Kept
<1>a. UNCHANGED <<loads, calls, page>>
  BY DEF ServerWrites, ServerAsksApproval, ServerSettles
<1>b. backend.run[r] \in RunRecord
  OBVIOUS
<1>1. PICK event \in Events, ends \in BOOLEAN : Tells(r, event, ends)
  BY DEF ServerWrites, ServerAsksApproval, ServerSettles, Events
<1>2. /\ stream' \in [Streams -> StreamRecord]
      /\ \A s \in Streams : /\ stream'[s].run = 0 => stream'[s].wire = <<>>
                            /\ stream'[s].run # 0 => /\ stream'[s].run = stream[s].run
                                                     /\ stream'[s].thread = stream[s].thread
  <2> DEFINE new(s) == [stream[s] EXCEPT !.wire = Append(@, event), !.state = IF ends THEN "closing" ELSE "open"]
  <2>1. stream' = [s \in Streams |-> IF stream[s].run = r /\ stream[s].state = "open" THEN new(s) ELSE stream[s]]
    BY <1>1 DEF Tells
  <2>2. ASSUME NEW s \in Streams
        PROVE  new(s) \in StreamRecord /\ new(s).run = stream[s].run /\ new(s).thread = stream[s].thread
    <3>1. stream[s] \in StreamRecord /\ Append(stream[s].wire, event) \in Seq(Events)
      BY DEF StreamRecord
    <3> QED
      BY <3>1 DEF StreamRecord
  <2> HIDE DEF new
  <2>3. r # 0
    BY DEF Runs
  <2> QED
    BY <2>1, <2>2, <2>3 DEF ViewInv, StreamsOfThread
<1>3. /\ backend' \in [run : [Runs -> RunRecord], threads : SUBSET Threads, made : SUBSET Threads]
      /\ backend'.made = backend.made /\ backend'.threads = backend.threads /\ SameThreads
  <2>1. CASE UNCHANGED backend
    BY <2>1
  <2>2. ASSUME NEW new \in RunRecord, new.thread = backend.run[r].thread, backend' = [backend EXCEPT !.run[r] = new]
        PROVE  /\ backend' \in [run : [Runs -> RunRecord], threads : SUBSET Threads, made : SUBSET Threads]
               /\ backend'.made = backend.made /\ backend'.threads = backend.threads /\ SameThreads
    BY <2>2 DEF SameThreads
  <2>3. CASE ServerAsksApproval(r)
    <3> DEFINE new == [backend.run[r] EXCEPT !.status = "awaiting", !.approval = "pending"]
    <3>1. new \in RunRecord /\ new.thread = backend.run[r].thread
      BY <1>b DEF RunRecord
    <3>2. backend' = [backend EXCEPT !.run[r] = new]
      BY <2>3 DEF ServerAsksApproval
    <3> HIDE DEF new
    <3> QED
      BY <2>2, <3>1, <3>2
  <2>4. ASSUME NEW e, ServerSettles(r, e)
        PROVE  /\ backend' \in [run : [Runs -> RunRecord], threads : SUBSET Threads, made : SUBSET Threads]
               /\ backend'.made = backend.made /\ backend'.threads = backend.threads /\ SameThreads
    <3> DEFINE status   == IF e = "success" THEN "success" ELSE "unanswered"
               approval == IF backend.run[r].approval = "executing" THEN "decided" ELSE backend.run[r].approval
               new      == [backend.run[r] EXCEPT !.status = status, !.approval = approval]
    <3>1. new \in RunRecord /\ new.thread = backend.run[r].thread
      BY <1>b DEF RunRecord
    <3>2. backend' = [backend EXCEPT !.run[r] = new]
      BY <2>4 DEF ServerSettles
    <3> HIDE DEF new
    <3> QED
      BY <2>2, <3>1, <3>2
  <2> QED
    BY <2>1, <2>3, <2>4 DEF ServerWrites
<1>4. ViewTypeOK'
  BY <1>a, <1>2, <1>3 DEF ViewInv, ViewTypeOK
<1> QED
  BY <1>a, <1>2, <1>3, <1>4, Steady

\* An event shows what belongs to its run.
LEMMA EventShown ==
  ASSUME NEW v \in PageRecord, NEW s \in Streams, NEW r \in Runs, stream[s].run = r, NEW event \in Events
  PROVE  \E w \in PageRecord :
           /\ w = AfterEvent(v, s, event) /\ w.open = v.open /\ w.listed = v.listed
           /\ w.elsewhere = v.elsewhere /\ w.leftover = v.leftover
           /\ v.transcript \subseteq w.transcript
           /\ \A m \in w.transcript \ v.transcript : m[1] = r
           /\ w.answer \subseteq v.answer \cup {r}
<1>1. r \in MaybeRuns /\ 0 \in MaybeRuns /\ [run |-> r, status |-> "pending"] \in ApprovalRows
  BY ViewAssumption DEF MaybeRuns, Runs, ApprovalRows
<1> DEFINE W(active, turn, text, told, rows) ==
             [v EXCEPT !.activeRun = active, !.current = turn, !.answer = text,
                       !.transcript = v.transcript \cup told, !.approvals = rows]
<1> HIDE DEF W
<1>2. /\ {} \in SUBSET MessageRows /\ {<<r, "user">>} \in SUBSET MessageRows
      /\ {<<r, "assistant">>} \in SUBSET MessageRows
      /\ v.answer \in SUBSET Runs /\ v.approvals \in SUBSET ApprovalRows
      /\ v.activeRun \in MaybeRuns /\ v.current \in MaybeRuns
  BY DEF MessageRows, PageRecord
<1>3. ASSUME NEW active \in MaybeRuns, NEW turn \in MaybeRuns, NEW text \in SUBSET Runs, text \subseteq v.answer \cup {r},
             NEW told \in SUBSET MessageRows, \A m \in told : m[1] = r, NEW rows \in SUBSET ApprovalRows,
             AfterEvent(v, s, event) = W(active, turn, text, told, rows)
      PROVE  \E w \in PageRecord :
               /\ w = AfterEvent(v, s, event) /\ w.open = v.open /\ w.listed = v.listed
               /\ w.elsewhere = v.elsewhere /\ w.leftover = v.leftover
               /\ v.transcript \subseteq w.transcript
               /\ \A m \in w.transcript \ v.transcript : m[1] = r
               /\ w.answer \subseteq v.answer \cup {r}
  <2>1. W(active, turn, text, told, rows) \in PageRecord
    <3>1. v.transcript \cup told \in SUBSET MessageRows
      BY DEF PageRecord
    <3> QED
      BY <3>1 DEF PageRecord, W
  <2> QED
    BY <1>3, <2>1 DEF PageRecord, W
<1>4. CASE event = "started"
  <2>1. AfterEvent(v, s, event) = W(r, r, v.answer, {<<r, "user">>}, v.approvals)
    BY <1>4 DEF AfterEvent, PageRecord, W
  <2>2. \A m \in {<<r, "user">>} : m[1] = r
    OBVIOUS
  <2> QED
    BY <1>1, <1>2, <1>3, <2>1, <2>2
<1>5. CASE event = "delta"
  <2>1. AfterEvent(v, s, event) = W(v.activeRun, v.current, v.answer \cup {r}, {}, v.approvals)
    BY <1>5 DEF AfterEvent, PageRecord, W
  <2>2. v.answer \cup {r} \in SUBSET Runs
    BY <1>2
  <2> QED
    BY <1>1, <1>2, <1>3, <2>1, <2>2
<1>6. CASE event = "success"
  <2>1. AfterEvent(v, s, event) = W(v.activeRun, v.current, {r}, {<<r, "assistant">>}, v.approvals)
    BY <1>6 DEF AfterEvent, PageRecord, W
  <2>2. {r} \in SUBSET Runs /\ \A m \in {<<r, "assistant">>} : m[1] = r
    OBVIOUS
  <2> QED
    BY <1>1, <1>2, <1>3, <2>1, <2>2
<1>7. CASE event = "failed" \/ (event = "approval" /\ stream[s].kind # "ask")
  <2>1. AfterEvent(v, s, event) = W(v.activeRun, v.current, {}, {}, v.approvals)
    BY <1>7 DEF AfterEvent, PageRecord, W
  <2> QED
    BY <1>1, <1>2, <1>3, <2>1
<1>8. CASE event = "approval" /\ stream[s].kind = "ask"
  <2> DEFINE rows == {a \in v.approvals : a.run # r} \cup {[run |-> r, status |-> "pending"]}
  <2>1. AfterEvent(v, s, event) = W(r, r, v.answer, {}, rows)
    BY <1>8 DEF AfterEvent, PageRecord, W
  <2>2. rows \in SUBSET ApprovalRows
    BY <1>1 DEF PageRecord
  <2> HIDE DEF rows
  <2> QED
    BY <1>1, <1>2, <1>3, <2>1, <2>2
<1>9. CASE event = "cancelled"
  <2>1. AfterEvent(v, s, event) = W(v.activeRun, v.current, v.answer, {}, v.approvals)
    BY <1>9 DEF AfterEvent, PageRecord, W
  <2> QED
    BY <1>1, <1>2, <1>3, <2>1
<1> QED
  BY <1>4, <1>5, <1>6, <1>7, <1>8, <1>9 DEF Events

\* An event that is received: shown if its stream is current, passed over otherwise.
LEMMA EventStep ==
  ASSUME ViewInv, NEW s \in Streams, ReceiveEvent(s)
  PROVE  ViewInv' /\ Stays
<1> USE Kept
<1>a. UNCHANGED <<backend, loads, calls>> /\ SameThreads
  BY DEF ReceiveEvent
<1>1. /\ stream[s] \in StreamRecord /\ stream[s].wire # <<>> /\ stream[s].run # 0
      /\ stream[s].run \in Runs /\ stream[s].run \in MaybeRuns
      /\ ThreadOf(stream[s].run) = stream[s].thread \/ stream[s].run \in page.elsewhere
  BY ViewAssumption DEF ReceiveEvent, ViewInv, StreamsOfThread, StreamRecord, MaybeRuns, Runs
<1>2. /\ stream[s].wire \in Seq(Events) /\ stream[s].awaiting \in BOOLEAN /\ stream[s].told \in MaybeRuns
      /\ Head(stream[s].wire) \in Events /\ Tail(stream[s].wire) \in Seq(Events)
  <2>1. stream[s].wire \in Seq(Events) /\ stream[s].awaiting \in BOOLEAN /\ stream[s].told \in MaybeRuns
    BY <1>1 DEF StreamRecord
  <2> QED
    BY <1>1, <2>1
<1> DEFINE event == Head(stream[s].wire)
<1>3. PICK wire \in Seq(Events), told \in MaybeRuns, awaiting \in BOOLEAN :
        stream' = [stream EXCEPT ![s] = [stream[s] EXCEPT !.wire = wire, !.told = told, !.awaiting = awaiting]]
  <2> DEFINE told     == IF IsCurrent(s) /\ event \in {"started", "approval"} THEN stream[s].run
                         ELSE stream[s].told
             awaiting == stream[s].awaiting \/ (IsCurrent(s) /\ event = "approval" /\ stream[s].kind = "ask")
  <2>1. told \in MaybeRuns
    BY <1>1, <1>2
  <2>2. awaiting \in BOOLEAN
    BY <1>1, <1>2 DEF IsCurrent
  <2>3. stream' = [stream EXCEPT ![s] = [stream[s] EXCEPT !.wire = Tail(stream[s].wire), !.told = told,
                                                          !.awaiting = awaiting]]
    BY DEF ReceiveEvent
  <2> HIDE DEF told, awaiting
  <2> QED
    BY <1>2, <2>1, <2>2, <2>3
<1>4. /\ stream' \in [Streams -> StreamRecord]
      /\ \A x \in Streams : /\ stream'[x].run = 0 => stream'[x].wire = <<>>
                            /\ stream'[x].run # 0 => /\ stream'[x].run = stream[x].run
                                                     /\ stream'[x].thread = stream[x].thread
  <2> DEFINE new == [stream[s] EXCEPT !.wire = wire, !.told = told, !.awaiting = awaiting]
  <2>1. new \in StreamRecord /\ new.run = stream[s].run /\ new.thread = stream[s].thread
    BY <1>1, <1>2 DEF StreamRecord
  <2>2. stream' = [stream EXCEPT ![s] = new]
    BY <1>3
  <2> HIDE DEF new
  <2> QED
    BY <1>1, <2>1, <2>2 DEF ViewInv, StreamsOfThread
<1>5. CASE ~IsCurrent(s)
  <2>1. page' = page
    BY <1>5 DEF ReceiveEvent
  <2>2. ViewTypeOK'
    BY <1>a, <1>4, <2>1 DEF ViewInv, ViewTypeOK
  <2> QED
    BY <1>a, <1>4, <2>1, <2>2, Steady
<1>6. CASE IsCurrent(s)
  <2>1. page' = AfterEvent(page, s, event)
    BY <1>6 DEF ReceiveEvent
  <2> HIDE DEF event
  <2>2. /\ page' \in PageRecord /\ page'.open = page.open /\ page'.listed = page.listed
        /\ page'.elsewhere = page.elsewhere /\ page'.leftover = page.leftover
        /\ page.transcript \subseteq page'.transcript
        /\ \A m \in page'.transcript \ page.transcript : m[1] = stream[s].run
        /\ page'.answer \subseteq page.answer \cup {stream[s].run}
    <3>1. event \in Events
      BY <1>2 DEF event
    <3> QED
      BY <1>1, <2>1, <3>1, EventShown
  <2>3. ThreadOf(stream[s].run) = page.open \/ stream[s].run \in page.elsewhere
    BY <1>1, <1>6 DEF IsCurrent
  <2>4. ShownIsOfThread'
    BY <1>a, <2>2, <2>3 DEF ViewInv, ShownIsOfThread, ThreadOf
  <2>5. ViewTypeOK' /\ KnownMade'
    BY <1>a, <1>4, <2>2 DEF ViewInv, ViewTypeOK, KnownMade
  <2>6. LoadsOfThread' /\ StreamsOfThread'
    BY <1>a, <1>4, <2>2, LoadsSteady, StreamsSteady
  <2> QED
    BY <2>2, <2>4, <2>5, <2>6 DEF ViewInv, Stays
<1> QED
  BY <1>5, <1>6

\* A step that only changes what the page is doing and its approvals.
Controls(asking, busy, active, rows) ==
  page' = [page EXCEPT !.request = asking, !.busy = busy, !.activeRun = active, !.approvals = rows]

\* Such a step shows nothing else.
LEMMA ControlsOnly ==
  ASSUME page \in PageRecord, NEW asking \in 0..MaxStreams, NEW busy \in BOOLEAN, NEW active \in MaybeRuns,
         NEW rows \in SUBSET ApprovalRows, Controls(asking, busy, active, rows)
  PROVE  /\ page' \in PageRecord /\ page'.open = page.open /\ page'.listed = page.listed
         /\ page'.elsewhere = page.elsewhere /\ page'.leftover = page.leftover
         /\ page'.transcript = page.transcript /\ page'.answer = page.answer
  BY DEF PageRecord, Controls

\* The stream of a question or a decision is over, and the approvals are had again.
LEMMA EndSteps ==
  ASSUME ViewInv,
         \/ \E s \in Streams : AskEnds(s) \/ DecideEnds(s)
         \/ ServerRestores \/ RestoreAnswered \/ RestoreFails
  PROVE  ViewInv' /\ Stays
<1> USE Kept
<1>a. /\ 0 \in MaybeRuns /\ 0 \in 0..MaxStreams /\ page.request \in 0..MaxStreams /\ page.busy \in BOOLEAN
      /\ page.activeRun \in MaybeRuns /\ page.approvals \in SUBSET ApprovalRows
  BY ViewAssumption DEF MaybeRuns, PageRecord
<1>1. ASSUME NEW s \in Streams, StreamOver(s)
      PROVE  /\ stream' \in [Streams -> StreamRecord]
             /\ \A x \in Streams : /\ stream'[x].run = 0 => stream'[x].wire = <<>>
                                   /\ stream'[x].run # 0 => /\ stream'[x].run = stream[x].run
                                                            /\ stream'[x].thread = stream[x].thread
  <2> DEFINE new == [NoStream EXCEPT !.kind = "over"]
  <2>1. new \in StreamRecord /\ new.run = 0 /\ new.wire = <<>>
    <3>1. <<>> \in Seq(Events)
      OBVIOUS
    <3> QED
      BY <1>a, <3>1 DEF NoStream, StreamRecord
  <2>2. stream' = [stream EXCEPT ![s] = new]
    BY <1>1 DEF StreamOver
  <2> HIDE DEF new
  <2> QED
    BY <2>1, <2>2 DEF ViewInv, StreamsOfThread
<1>2. ASSUME NEW asking \in 0..MaxStreams, NEW busy \in BOOLEAN, NEW active \in MaybeRuns,
             NEW rows \in SUBSET ApprovalRows, Controls(asking, busy, active, rows),
             calls' \in SUBSET CallRecord, \A c \in calls' : c.listed \subseteq backend.made,
             UNCHANGED <<backend, loads>>,
             UNCHANGED stream \/ \E s \in Streams : StreamOver(s)
      PROVE  ViewInv' /\ Stays
  <2>1. /\ page' \in PageRecord /\ page'.open = page.open /\ page'.listed = page.listed
        /\ page'.elsewhere = page.elsewhere /\ page'.leftover = page.leftover
        /\ page'.transcript = page.transcript /\ page'.answer = page.answer
    BY <1>2, ControlsOnly
  <2>2. /\ stream' \in [Streams -> StreamRecord]
        /\ \A x \in Streams : /\ stream'[x].run = 0 => stream'[x].wire = <<>>
                              /\ stream'[x].run # 0 => /\ stream'[x].run = stream[x].run
                                                       /\ stream'[x].thread = stream[x].thread
    BY <1>1, <1>2
  <2>3. ViewTypeOK'
    BY <1>2, <2>1, <2>2 DEF ViewInv, ViewTypeOK
  <2> QED
    BY <1>2, <2>1, <2>2, <2>3, Steady
<1>3. ASSUME NEW s \in Streams, AskEnds(s) PROVE ViewInv' /\ Stays
  <2>1. CASE page.request # s
    <3>1. page' = [page EXCEPT !.busy = FALSE]
      BY <1>3, <2>1 DEF AskEnds, Finalized
    <3>2. Controls(page.request, FALSE, page.activeRun, page.approvals)
      BY <3>1 DEF Controls, PageRecord
    <3> QED
      BY <1>a, <1>2, <1>3, <3>2 DEF AskEnds
  <2>2. CASE page.request = s
    <3>1. PICK active \in MaybeRuns : active = IF stream[s].awaiting THEN page.activeRun ELSE 0
      BY <1>a
    <3>2. page' = [[page EXCEPT !.request = 0, !.activeRun = active] EXCEPT !.busy = FALSE]
      BY <1>3, <2>2, <3>1 DEF AskEnds, Finalized
    <3>3. Controls(0, FALSE, active, page.approvals)
      BY <3>2 DEF Controls, PageRecord
    <3> QED
      BY <1>a, <1>2, <1>3, <3>3 DEF AskEnds
  <2> QED
    BY <2>1, <2>2
<1>4. ASSUME NEW s \in Streams, DecideEnds(s) PROVE ViewInv' /\ Stays
  <2> DEFINE done == [Finalized(page, s) EXCEPT !.activeRun = 0]
  <2>1. PICK asking \in 0..MaxStreams : done = [page EXCEPT !.request = asking, !.activeRun = 0]
    <3>1. CASE page.request # s
      <4>1. done = [page EXCEPT !.activeRun = 0]
        BY <3>1 DEF Finalized
      <4>2. done = [page EXCEPT !.request = page.request, !.activeRun = 0]
        BY <4>1 DEF PageRecord
      <4> QED
        BY <1>a, <4>2
    <3>2. CASE page.request = s
      <4>1. done = [page EXCEPT !.request = 0, !.activeRun = 0]
        BY <3>2 DEF Finalized, PageRecord
      <4> QED
        BY <1>a, <4>1
    <3> QED
      BY <3>1, <3>2
  <2>d. page' = done \/ page' = [done EXCEPT !.busy = FALSE]
    BY <1>4 DEF DecideEnds
  <2> HIDE DEF done
  <2>2. PICK busy \in BOOLEAN : Controls(asking, busy, 0, page.approvals)
    <3>1. CASE page' = done
      <4>1. Controls(asking, page.busy, 0, page.approvals)
        BY <2>1, <3>1 DEF Controls, PageRecord
      <4> QED
        BY <1>a, <4>1
    <3>2. CASE page' = [done EXCEPT !.busy = FALSE]
      <4>1. Controls(asking, FALSE, 0, page.approvals)
        BY <2>1, <3>2 DEF Controls, PageRecord
      <4> QED
        BY <4>1
    <3> QED
      BY <2>d, <3>1, <3>2
  <2> DEFINE c == [Sent("restore") EXCEPT !.thread = stream[s].thread]
  <2>3. c \in CallRecord /\ c.listed = {}
    BY NewCall DEF StreamRecord, CallRecord
  <2>4. calls' \in {calls, calls \cup {c}} /\ StreamOver(s) /\ UNCHANGED <<backend, loads>>
    BY <1>4 DEF DecideEnds
  <2> HIDE DEF c
  <2>5. calls' \in SUBSET CallRecord /\ \A d \in calls' : d.listed \subseteq backend.made
    BY <2>3, <2>4
  <2> QED
    BY <1>a, <1>2, <2>2, <2>4, <2>5
<1>5. CASE ServerRestores
  <2>1. PICK c \in calls : calls' = (calls \ {c}) \cup {[c EXCEPT !.kind = "restored", !.rows = Approvals(c.thread)]}
    BY <1>5 DEF ServerRestores, Called, Replaces
  <2>2. Approvals(c.thread) \in SUBSET ApprovalRows
    <3>1. ASSUME NEW r \in Runs, backend.run[r].approval # "none"
          PROVE  [run |-> r, status |-> backend.run[r].approval] \in ApprovalRows
      BY <3>1 DEF RunRecord, ApprovalRows
    <3> QED
      BY <3>1 DEF Approvals
  <2> DEFINE d == [c EXCEPT !.kind = "restored", !.rows = Approvals(c.thread)]
  <2>3. d \in CallRecord /\ d.listed = c.listed
    BY <2>2 DEF CallRecord
  <2> HIDE DEF d
  <2>4. calls' = (calls \ {c}) \cup {d} /\ UNCHANGED <<backend, stream, loads, page>>
    BY <1>5, <2>1 DEF ServerRestores, d
  <2>5. Controls(page.request, page.busy, page.activeRun, page.approvals)
    BY <2>4 DEF Controls, PageRecord
  <2> QED
    BY <1>a, <1>2, <2>3, <2>4, <2>5
<1>6. CASE RestoreAnswered
  <2>1. PICK c \in calls : calls' = calls \ {c} /\ page' = [page EXCEPT !.approvals = c.rows, !.busy = FALSE]
    BY <1>6 DEF RestoreAnswered, Called, Replaces
  <2>2. Controls(page.request, FALSE, page.activeRun, c.rows) /\ c.rows \in SUBSET ApprovalRows
    BY <2>1 DEF Controls, PageRecord, CallRecord
  <2>3. calls' \subseteq calls /\ UNCHANGED <<backend, stream, loads>>
    BY <1>6, <2>1 DEF RestoreAnswered
  <2> QED
    BY <1>a, <1>2, <2>2, <2>3
<1>7. CASE RestoreFails
  <2>1. PICK c \in calls : calls' = calls \ {c} /\ page' = [page EXCEPT !.busy = FALSE]
    BY <1>7 DEF RestoreFails, Called, Replaces
  <2>2. Controls(page.request, FALSE, page.activeRun, page.approvals)
    BY <2>1 DEF Controls, PageRecord
  <2>3. calls' \subseteq calls /\ UNCHANGED <<backend, stream, loads>>
    BY <1>7, <2>1 DEF RestoreFails
  <2> QED
    BY <1>a, <1>2, <2>2, <2>3
<1> QED
  BY <1>3, <1>4, <1>5, <1>6, <1>7

\* A stream that is aborted tells of no other run.
LEMMA Aborted ==
  ASSUME ViewInv, NEW x, Aborts(x)
  PROVE  /\ stream' \in [Streams -> StreamRecord]
         /\ \A s \in Streams : /\ stream'[s].run = 0 => stream'[s].wire = <<>>
                               /\ stream'[s].run # 0 => /\ stream'[s].run = stream[s].run
                                                        /\ stream'[s].thread = stream[s].thread
<1> USE Kept
<1> DEFINE new(s) == [stream[s] EXCEPT !.state = "aborted", !.wire = <<>>]
<1>1. stream' = [s \in Streams |-> IF s = x /\ stream[s].state \in {"sent", "open", "closing"}
                                   THEN new(s) ELSE stream[s]]
  BY DEF Aborts
<1>2. ASSUME NEW s \in Streams
      PROVE  /\ new(s) \in StreamRecord /\ new(s).run = stream[s].run /\ new(s).thread = stream[s].thread
             /\ new(s).wire = <<>>
  <2>1. stream[s] \in StreamRecord /\ <<>> \in Seq(Events)
    OBVIOUS
  <2> QED
    BY <2>1 DEF StreamRecord
<1> HIDE DEF new
<1> QED
  BY <1>1, <1>2 DEF ViewInv, StreamsOfThread

\* A cancellation takes approvals away and ends a stream.
LEMMA CancelSteps ==
  ASSUME ViewInv, CancelTutor \/ ServerCancels \/ CancelAnswered \/ CancelFails
  PROVE  ViewInv' /\ Stays
<1> USE Kept
<1>a. /\ 0 \in MaybeRuns /\ page.request \in 0..MaxStreams /\ page.busy \in BOOLEAN
      /\ page.activeRun \in MaybeRuns /\ page.approvals \in SUBSET ApprovalRows
  BY ViewAssumption DEF MaybeRuns, PageRecord
<1>1. ASSUME NEW active \in MaybeRuns, page' = Cancelled(page, active)
      PROVE  /\ page' \in PageRecord /\ page'.open = page.open /\ page'.listed = page.listed
             /\ page'.elsewhere = page.elsewhere /\ page'.leftover = page.leftover
             /\ page'.transcript = page.transcript /\ page'.answer = page.answer
  <2> DEFINE rows == {a \in page.approvals : a.run # active}
  <2>1. page' = [page EXCEPT !.request = page.request, !.busy = page.busy, !.activeRun = 0, !.approvals = rows]
    BY <1>1 DEF Cancelled, PageRecord
  <2>2. rows \in SUBSET ApprovalRows
    BY <1>a
  <2> HIDE DEF rows
  <2> QED
    BY <1>a, <2>1, <2>2, ControlsOnly DEF Controls
<1>3. CASE CancelTutor
  <2>1. CASE page.request # 0 /\ stream[page.request].told = 0
    <3>1. page' = Cancelled(page, page.activeRun) /\ UNCHANGED <<backend, stream, loads, calls>>
      BY <1>3, <2>1 DEF CancelTutor
    <3>2. ViewTypeOK'
      BY <1>a, <1>1, <3>1 DEF ViewInv, ViewTypeOK
    <3> QED
      BY <1>a, <1>1, <3>1, <3>2, Steady
  <2>2. CASE ~(page.request # 0 /\ stream[page.request].told = 0)
    <3> DEFINE run == IF page.request = 0 THEN page.activeRun ELSE stream[page.request].told
               c   == [Sent("cancel") EXCEPT !.stream = page.request, !.active = page.activeRun, !.run = run]
    <3>1. run \in MaybeRuns
      <4>1. page.request # 0 => page.request \in Streams
        BY <1>a, ViewAssumption DEF Streams
      <4>2. page.request # 0 => stream[page.request].told \in MaybeRuns
        BY <4>1 DEF StreamRecord
      <4> QED
        BY <1>a, <4>2
    <3>2. c \in CallRecord /\ c.listed = {}
      <4> HIDE DEF run
      <4> QED
        BY <1>a, <3>1, NewCall DEF CallRecord
    <3>3. calls' = calls \cup {c} /\ UNCHANGED <<page, backend, stream, loads>>
      BY <1>3, <2>2 DEF CancelTutor
    <3> HIDE DEF c
    <3>4. ViewTypeOK'
      BY <3>2, <3>3 DEF ViewInv, ViewTypeOK
    <3> QED
      BY <3>2, <3>3, <3>4, Steady
  <2> QED
    BY <2>1, <2>2
<1>4. CASE ServerCancels
  <2>1. PICK c \in calls :
          /\ IF backend.run[c.run].status \in {"running", "awaiting"}
             THEN backend' = [backend EXCEPT !.run[c.run].status = "cancelling"] ELSE UNCHANGED backend
          /\ calls' = (calls \ {c}) \cup {[c EXCEPT !.kind = "cancelled"]}
    BY <1>4 DEF ServerCancels, Called, Replaces
  <2>2. UNCHANGED <<stream, loads, page>>
    BY <1>4 DEF ServerCancels
  <2> DEFINE d == [c EXCEPT !.kind = "cancelled"]
  <2>3. d \in CallRecord /\ d.listed = c.listed
    BY DEF CallRecord
  <2> HIDE DEF d
  <2>4. calls' = (calls \ {c}) \cup {d}
    BY <2>1 DEF d
  <2>5. /\ backend' \in [run : [Runs -> RunRecord], threads : SUBSET Threads, made : SUBSET Threads]
        /\ backend'.made = backend.made /\ backend'.threads = backend.threads /\ SameThreads
    <3>1. CASE UNCHANGED backend
      BY <3>1
    <3>2. CASE backend' = [backend EXCEPT !.run[c.run].status = "cancelling"]
      <4> DEFINE new == [backend.run[c.run] EXCEPT !.status = "cancelling"]
      <4>1. /\ backend'.run = [backend.run EXCEPT ![c.run] = new]
            /\ backend'.made = backend.made /\ backend'.threads = backend.threads
        BY <3>2
      <4>2. ASSUME c.run \in Runs PROVE new \in RunRecord /\ new.thread = backend.run[c.run].thread
        <5>1. backend.run[c.run] \in RunRecord
          BY <4>2
        <5> QED
          BY <5>1 DEF RunRecord
      <4> HIDE DEF new
      <4> QED
        BY <3>2, <4>1, <4>2 DEF SameThreads
    <3> QED
      BY <2>1, <3>1, <3>2
  <2>6. ViewTypeOK'
    BY <2>2, <2>3, <2>4, <2>5 DEF ViewInv, ViewTypeOK
  <2> QED
    BY <2>2, <2>3, <2>4, <2>5, <2>6, Steady
<1>5. CASE CancelAnswered
  <2>1. PICK c \in calls : page' = Cancelled(page, c.active) /\ Aborts(c.stream) /\ calls' = calls \ {c}
    BY <1>5 DEF CancelAnswered, Called, Replaces
  <2>2. UNCHANGED <<backend, loads>> /\ c.active \in MaybeRuns
    BY <1>5 DEF CancelAnswered, CallRecord
  <2>3. ViewTypeOK'
    BY <1>1, <2>1, <2>2, Aborted DEF ViewInv, ViewTypeOK
  <2> QED
    BY <1>1, <2>1, <2>2, <2>3, Aborted, Steady
<1>6. CASE CancelFails
  <2>1. PICK c \in calls : Aborts(c.stream) /\ calls' = calls \ {c}
    BY <1>6 DEF CancelFails, Called, Replaces
  <2>2. UNCHANGED <<backend, loads, page>>
    BY <1>6 DEF CancelFails
  <2>3. ViewTypeOK'
    BY <2>1, <2>2, Aborted DEF ViewInv, ViewTypeOK
  <2> QED
    BY <2>1, <2>2, <2>3, Aborted, Steady
<1> QED
  BY <1>3, <1>4, <1>5, <1>6

\* A change of the language clears the messages, and lists the conversations again; the first
\* one listed is opened under the answer of the one before.
LEMMA LanguageSteps ==
  ASSUME ViewInv, ChangeLanguage \/ ConversationsArrive \/ \E t \in Threads : FirstMade(t)
  PROVE  ViewInv' /\ Stays
<1> USE Kept
<1>a. /\ loads \in SUBSET LoadRecord /\ \A l \in loads : l.rows \in SUBSET RowsOf(l.kind)
      /\ \A l \in loads : l.kind = "conversations" => l.rows \subseteq backend.made /\ l.rows \subseteq Threads
      /\ backend.threads \subseteq backend.made
  BY DEF ViewInv, ViewTypeOK, KnownMade, RowsOf
<1>1. CASE ChangeLanguage
  <2>1. /\ Aborts(page.request) /\ page' = [page EXCEPT !.changes = @ + 1, !.transcript = {}]
        /\ loads' = Opened(page.open) \cup {Load("conversations", "none")} /\ UNCHANGED <<backend, calls>>
    BY <1>1 DEF ChangeLanguage
  <2>2. /\ page' \in PageRecord /\ page'.open = page.open /\ page'.listed = page.listed
        /\ page'.elsewhere = page.elsewhere /\ page'.leftover = page.leftover
        /\ page'.transcript = {} /\ page'.answer = page.answer /\ page'.changes # page.changes
    <3>1. PICK n \in Nat : n # page.changes /\ page' = [page EXCEPT !.changes = n, !.transcript = {}]
      <4>1. page.changes + 1 \in Nat /\ page.changes + 1 # page.changes
        BY DEF PageRecord
      <4> QED
        BY <2>1, <4>1
    <3> QED
      BY <3>1 DEF PageRecord
  <2>3. \A l \in loads' : /\ l \in LoadRecord /\ l.rows = {}
                          /\ l.kind = "messages" => l.thread = page.open
    <3>1. /\ Load("conversations", "none") \in LoadRecord /\ Load("conversations", "none").rows = {}
          /\ Load("conversations", "none").kind = "conversations"
      BY DEF Load, LoadRecord
    <3>2. \A l \in Opened(page.open) : l \in LoadRecord /\ l.rows = {} /\ l.thread = page.open
      BY TwoLists
    <3> QED
      BY <2>1, <3>1, <3>2
  <2>4. ViewTypeOK' /\ KnownMade'
    BY <1>a, <2>1, <2>2, <2>3, Aborted DEF ViewInv, ViewTypeOK, KnownMade
  <2>5. LoadsOfThread'
    BY <2>2, <2>3 DEF LoadsOfThread
  <2>6. StreamsOfThread' /\ ShownIsOfThread'
    BY <2>1, <2>2, Aborted, StreamsSteady, PageSteady
  <2> QED
    BY <2>2, <2>4, <2>5, <2>6 DEF ViewInv, Stays
<1>2. ASSUME NEW t \in Threads, FirstMade(t) PROVE ViewInv' /\ Stays
  <2>1. PICK l \in loads : l.kind = "conversations" /\ loads' = (loads \ {l}) \cup {[l EXCEPT !.rows = {t}]}
    BY <1>2 DEF FirstMade, Awaited
  <2>2. UNCHANGED <<stream, calls, page>> /\ Makes(t)
    BY <1>2 DEF FirstMade
  <2>3. /\ backend' \in [run : [Runs -> RunRecord], threads : SUBSET Threads, made : SUBSET Threads]
        /\ SameThreads /\ backend'.made = backend.made \cup {t} /\ backend'.threads \subseteq backend'.made
    BY <2>2, Made
  <2>4. PICK k \in LoadRecord : k.kind = "conversations" /\ k.rows = {t} /\ loads' = (loads \ {l}) \cup {k}
    <3>1. [l EXCEPT !.rows = {t}] \in LoadRecord
      BY <1>a, <2>1 DEF LoadRecord
    <3>2. [l EXCEPT !.rows = {t}].kind = "conversations" /\ [l EXCEPT !.rows = {t}].rows = {t}
      BY <1>a, <2>1 DEF LoadRecord
    <3> QED
      BY <2>1, <3>1, <3>2
  <2>5. ViewTypeOK'
    BY <1>a, <2>2, <2>3, <2>4 DEF ViewInv, ViewTypeOK, RowsOf
  <2>6. KnownMade'
    BY <1>a, <2>2, <2>3, <2>4 DEF ViewInv, KnownMade
  <2>7. LoadsOfThread'
    <3>1. {x \in loads' : x.kind = "messages"} \subseteq loads
      BY <2>4
    <3>2. ASSUME NEW x \in loads, x.kind = "messages", NEW m \in x.rows
          PROVE  backend'.run[m[1]].thread = page.open
      <4>1. m \in MessageRows /\ m[1] \in Runs /\ ThreadOf(m[1]) = page.open
        BY <1>a, <3>2 DEF ViewInv, LoadsOfThread, RowsOf, MessageRows
      <4> QED
        BY <2>3, <4>1, ViewAssumption DEF SameThreads, ThreadOf, Threads
    <3> QED
      BY <2>2, <3>1, <3>2 DEF ViewInv, LoadsOfThread, ThreadOf
  <2>8. StreamsOfThread' /\ ShownIsOfThread'
    BY <2>2, <2>3, StreamsSteady, PageSteady
  <2> QED
    BY <2>2, <2>5, <2>6, <2>7, <2>8 DEF ViewInv, Stays
<1>3. CASE ConversationsArrive
  <2>1. PICK l \in loads : \E t \in l.rows :
          /\ l.kind = "conversations" /\ UNCHANGED <<backend, stream, calls>>
          /\ page' = IF t = page.open THEN [page EXCEPT !.listed = l.rows]
                     ELSE [page EXCEPT !.listed = l.rows, !.open = t, !.transcript = {}, !.leftover = page.answer]
          /\ loads' = IF t = page.open THEN loads \ {l} ELSE Opened(t)
    BY <1>3 DEF ConversationsArrive, Awaited
  <2>b. PICK t \in l.rows :
          /\ page' = IF t = page.open THEN [page EXCEPT !.listed = l.rows]
                     ELSE [page EXCEPT !.listed = l.rows, !.open = t, !.transcript = {}, !.leftover = page.answer]
          /\ loads' = IF t = page.open THEN loads \ {l} ELSE Opened(t)
    BY <2>1
  <2>2. l.rows \subseteq backend.made /\ l.rows \subseteq Threads /\ t \in Threads
    BY <1>a, <2>1
  <2>3. CASE t = page.open
    <3>1. page' = [page EXCEPT !.listed = l.rows] /\ loads' = loads \ {l}
      BY <2>b, <2>3
    <3>2. /\ page' \in PageRecord /\ page'.open = page.open /\ page'.listed = l.rows
          /\ page'.elsewhere = page.elsewhere /\ page'.leftover = page.leftover
          /\ page'.transcript = page.transcript /\ page'.answer = page.answer
      BY <2>2, <3>1 DEF PageRecord
    <3>3. ViewTypeOK' /\ KnownMade'
      BY <1>a, <2>1, <2>2, <3>1, <3>2 DEF ViewInv, ViewTypeOK, KnownMade
    <3>4. LoadsOfThread' /\ StreamsOfThread' /\ ShownIsOfThread'
      BY <2>1, <3>1, <3>2, LoadsSteady, StreamsSteady, PageSteady
    <3> QED
      BY <3>2, <3>3, <3>4 DEF ViewInv, Stays
  <2>4. CASE t # page.open
    <3>1. /\ page' = [page EXCEPT !.listed = l.rows, !.open = t, !.transcript = {}, !.leftover = page.answer]
          /\ loads' = Opened(t)
      BY <2>b, <2>4
    <3>2. /\ page' \in PageRecord /\ page'.open = t /\ page'.listed = l.rows /\ page'.transcript = {}
          /\ page'.elsewhere = page.elsewhere /\ page'.answer = page'.leftover
      BY <2>2, <3>1 DEF PageRecord
    <3>3. /\ loads' \in SUBSET LoadRecord /\ \A x \in loads' : x.rows \in SUBSET RowsOf(x.kind)
          /\ \A x \in loads' : x.kind = "conversations" => x.rows \subseteq backend.made
          /\ LoadsOfThread'
      BY <2>2, <3>1, <3>2, OpenedLoads
    <3>4. ViewTypeOK' /\ KnownMade'
      BY <1>a, <2>1, <2>2, <3>2, <3>3 DEF ViewInv, ViewTypeOK, KnownMade
    <3>5. StreamsOfThread'
      BY <2>1, <3>2, StreamsSteady
    <3>6. ShownIsOfThread'
      BY <3>2 DEF ShownIsOfThread
    <3> QED
      BY <2>4, <3>2, <3>3, <3>4, <3>5, <3>6 DEF ViewInv, Stays
  <2> QED
    BY <2>3, <2>4
<1> QED
  BY <1>1, <1>2, <1>3

\* Every step of the page, of its streams and of the server keeps the invariant, and takes
\* away nothing that is shown.
LEMMA ViewInductive == ViewInv /\ [ViewNext]_viewVars => ViewInv' /\ Stays
<1> SUFFICES ASSUME ViewInv, [ViewNext]_viewVars PROVE ViewInv' /\ Stays
  OBVIOUS
<1>1. CASE ViewNext
  BY <1>1, OpenSteps, RequestSent, ListSteps, StreamOpens, ServerAnswers, ServerTells, EventStep, EndSteps,
     CancelSteps, LanguageSteps DEF ViewNext
<1>2. CASE UNCHANGED viewVars
  BY <1>2 DEF viewVars, ViewInv, ViewTypeOK, KnownMade, LoadsOfThread, StreamsOfThread, ShownIsOfThread,
              ThreadOf, Stays
<1> QED
  BY <1>1, <1>2

\* The invariant of the page holds in every reachable state, for any conversations and bounds.
THEOREM ViewAlways == ViewSpec => []ViewInv
<1>1. ViewInv /\ [ViewNext]_viewVars => ViewInv'
  BY ViewInductive
<1> QED
  BY <1>1, ViewInitially, PTL DEF ViewSpec

\* Whatever arrives late, the page shows messages and answers of the open conversation only,
\* but for runs that were decided in another one, and for the answer that stays when another
\* conversation is opened without a reset: by the handler that replaces the last one, and by
\* the list of conversations after a change of the language.
THEOREM ShownAlwaysOfThread == ViewSpec => []ShownIsOfThread
<1>1. ViewInv => ShownIsOfThread
  BY DEF ViewInv
<1> QED
  BY <1>1, ViewAlways, PTL

\* A message that is shown stays, as a message or in the current turn, while its conversation
\* is open, the language stays and no deletion is under way.
THEOREM ShownAlwaysStays == ViewSpec => ShownStays
<1> DEFINE Kind == page'.open = page.open /\ page'.changes = page.changes /\ Called({"deleted"}) = {}
                     => \A m \in Shown(page) : m \in Shown(page') \/ m[1] = page'.current
<1>1. Stays => Kind
  BY DEF Stays, Shown
<1>2. ViewInv /\ [ViewNext]_viewVars => [Kind]_viewVars
  BY <1>1, ViewInductive
<1> QED
  BY <1>2, ViewAlways, PTL DEF ViewSpec, ShownStays

=============================================================================
