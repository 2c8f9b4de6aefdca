-------------------------------- MODULE Sessions --------------------------------
(* The sessions of one user: refresh tokens handed out by logins, the record that *)
(* Redis keeps of the latest, the table of revoked tokens and the cache of it     *)
(* that each instance refuses tokens by; and the calls that save the user's row   *)
(* whole beside the one that blocks or unblocks the account.                      *)
(*   src/internal/service/system/{jwtSvc,userSvc}.go                              *)
(*   src/internal/controller/system/{userCtrl,refreshTokenCtrl}.go                *)
(*   src/internal/core/{jwt_blacklist,other}.go                                   *)
EXTENDS Naturals, FiniteSets

CONSTANTS Instances,   \* server processes
          Requests,    \* requests in progress
          NoToken,     \* no token
          MaxTime,     \* bound: the clock
          MaxCalls,    \* bound: calls begun
          MaxFaults    \* bound: errors of Redis and the database, and restarts

ASSUME SessionAssumption == /\ MaxTime \in Nat /\ MaxCalls \in Nat /\ MaxFaults \in Nat
                            /\ NoToken \notin Nat

VARIABLES now,         \* the present second
          recorded,    \* Redis: the token under the user's UUID
          listed,      \* jwt_blacklists
          refused,     \* instance -> BlackCache
          issued,      \* tokens that logins have returned
          row,         \* the user's row: [active, password]
          req,         \* request -> what it does
          calls,
          faults,
          forgotten,   \* tokens whose record went without their being listed
          blind,       \* instances that could not load the table
          decided,     \* the row as the last decisions about it left it
          overlapped   \* a row was saved that had changed since it was read

sessionVars == <<now, recorded, listed, refused, issued, row, req, calls, faults, forgotten,
                 blind, decided, overlapped>>

\* A refresh token carries its user and its expiry in seconds: logins of one second
\* return the same one.
Tokens == 0..MaxTime
Idle == [pc |-> "idle"]
Rows == [active : BOOLEAN, password : 0..MaxCalls]

SessionTypeOK ==
    /\ now \in Tokens
    /\ recorded \in Tokens \cup {NoToken}
    /\ listed \subseteq Tokens
    /\ refused \in [Instances -> SUBSET Tokens]
    /\ issued \subseteq Tokens
    /\ row \in Rows
    /\ req \in [Requests -> {Idle} \cup
          [pc : {"get", "set"}, at : Instances, token : Tokens, old : Tokens \cup {NoToken}] \cup
          [pc : {"list", "revoke"}, at : Instances, token : Tokens, old : Tokens] \cup
          [pc : {"cache"}, at : Instances, token : Tokens, old : Tokens, back : BOOLEAN] \cup
          [pc : {"save"}, was : Rows, row : Rows] \cup
          [pc : {"status", "forget"}, active : BOOLEAN]]
    /\ calls \in 0..MaxCalls
    /\ faults \in 0..MaxFaults
    /\ forgotten \subseteq Tokens
    /\ blind \subseteq Instances
    /\ decided \in Rows
    /\ overlapped \in BOOLEAN

SessionInit ==
    /\ now = 0
    /\ recorded = NoToken
    /\ listed = {}
    /\ refused = [i \in Instances |-> {}]
    /\ issued = {}
    /\ row = [active |-> TRUE, password |-> 0]
    /\ req = [q \in Requests |-> Idle]
    /\ calls = 0
    /\ faults = 0
    /\ forgotten = {}
    /\ blind = {}
    /\ decided = row
    /\ overlapped = FALSE

tokens == <<recorded, listed, refused, issued, forgotten, blind>>
user == <<row, decided, overlapped>>

Tick == /\ now < MaxTime
        /\ now' = now + 1
        /\ UNCHANGED <<tokens, user, req, calls, faults>>

Call(q, c) ==
    /\ req[q] = Idle
    /\ calls < MaxCalls
    /\ calls' = calls + 1
    /\ req' = [req EXCEPT ![q] = c]

Goto(q, pc) == req' = [req EXCEPT ![q].pc = pc]
End(q) == req' = [req EXCEPT ![q] = Idle]

Fault == faults < MaxFaults /\ faults' = faults + 1

\* A record that is removed or written over without its token being listed.
Dropped == IF recorded \in issued \ listed THEN {recorded} ELSE {}

-----------------------------------------------------------------------------
(* Logging in: PhoneLogin, TokenNext, IssueLoginTokens.                        *)

Login(q, i) ==
    /\ row.active
    /\ Call(q, [pc |-> "get", at |-> i, token |-> now, old |-> NoToken])
    /\ UNCHANGED <<now, tokens, user, faults>>

\* Faulty: the former token is not listed.
GetRedisJWT_Replaces(q) ==
    /\ req[q].pc = "get"
    /\ req' = [req EXCEPT ![q] = [@ EXCEPT !.pc = "set", !.old = recorded]]
    /\ UNCHANGED <<now, tokens, user, calls, faults>>

GetRedisJWT(q) ==
    /\ req[q].pc = "get"
    /\ req' = [req EXCEPT ![q] =
          IF recorded = NoToken THEN [@ EXCEPT !.pc = "set"]
          ELSE [@ EXCEPT !.pc = "list", !.old = recorded]]
    /\ UNCHANGED <<now, tokens, user, calls, faults>>

\* Faulty: the table is written after the cache, and its error ignored.
CreateJwtBlacklist_Ignored(q) ==
    /\ req[q].pc \in {"list", "revoke"}
    /\ listed' \in {listed, listed \cup {req[q].old}}
    /\ req' = [req EXCEPT ![q] = [pc |-> "cache", at |-> @.at, token |-> @.token,
                                  old |-> @.old, back |-> @.pc = "list"]]
    /\ UNCHANGED <<now, recorded, refused, issued, forgotten, blind, user, calls, faults>>

\* CreateJwtBlacklist, the first half of JoinInBlacklist; of a login or a logout.
CreateJwtBlacklist(q) ==
    /\ req[q].pc \in {"list", "revoke"}
    /\ listed' = listed \cup {req[q].old}
    /\ req' = [req EXCEPT ![q] = [pc |-> "cache", at |-> @.at, token |-> @.token,
                                  old |-> @.old, back |-> @.pc = "list"]]
    /\ UNCHANGED <<now, recorded, refused, issued, forgotten, blind, user, calls, faults>>

\* BlackCache.SetDefault: the instance of the request, and no other.
SetBlackCache(q) ==
    LET c == req[q] IN
    /\ c.pc = "cache"
    /\ refused' = [refused EXCEPT ![c.at] = @ \cup {c.old}]
    /\ req' = [req EXCEPT ![q] =
          IF c.back THEN [pc |-> "set", at |-> c.at, token |-> c.token, old |-> c.old] ELSE Idle]
    /\ UNCHANGED <<now, recorded, listed, issued, forgotten, blind, user, calls, faults>>

Record(c) ==
    /\ recorded' = c.token
    /\ forgotten' = IF recorded \in {c.old, c.token} THEN forgotten ELSE forgotten \cup Dropped

\* SetRedisJWT; the response carries the token.
SetRedisJWT(q) ==
    /\ req[q].pc = "set"
    /\ Record(req[q])
    /\ issued' = issued \cup {req[q].token}
    /\ End(q)
    /\ UNCHANGED <<now, listed, refused, blind, user, calls, faults>>

\* An error of Redis or of the database ends a login; SET may have been carried out.
LoginError(q) ==
    /\ req[q].pc \in {"get", "set", "list"}
    /\ Fault
    /\ End(q)
    /\ \/ UNCHANGED <<recorded, forgotten>>
       \/ req[q].pc = "set" /\ Record(req[q])
    /\ UNCHANGED <<now, listed, refused, issued, blind, user, calls>>

-----------------------------------------------------------------------------
(* Logging out, and being blocked.                                             *)

\* Redis.Del; its error is logged.  The token is that of the cookie.
Logout(q, i, t) ==
    /\ t \in issued
    /\ \/ recorded' = NoToken /\ forgotten' = forgotten \cup (Dropped \ {t}) /\ UNCHANGED faults
       \/ Fault /\ UNCHANGED <<recorded, forgotten>>
    /\ Call(q, [pc |-> "revoke", at |-> i, token |-> t, old |-> t])
    /\ UNCHANGED <<now, listed, refused, issued, blind, user>>

\* The token cannot be listed: logged.
LogoutError(q) ==
    /\ req[q].pc = "revoke"
    /\ Fault
    /\ End(q)
    /\ forgotten' = forgotten \cup {req[q].old}
    /\ UNCHANGED <<now, recorded, listed, refused, issued, blind, user, calls>>

\* applyUserStatus reads the user; a status that is already set ends it.
ReadForStatus(q, active) ==
    /\ row.active # active
    /\ Call(q, [pc |-> "status", active |-> active])
    /\ UNCHANGED <<now, tokens, user, faults>>

\* UpdateUserStatus writes the columns of the status only.
UpdateUserStatus(q) ==
    LET c == req[q] IN
    /\ c.pc = "status"
    /\ row' = [row EXCEPT !.active = c.active]
    /\ decided' = [decided EXCEPT !.active = c.active]
    /\ Goto(q, "forget")
    /\ UNCHANGED <<now, tokens, overlapped, calls, faults>>

\* Redis.Del, whichever the new status is; the token itself is not listed.
ForgetSession(q) ==
    /\ req[q].pc = "forget"
    /\ \/ recorded' = NoToken /\ forgotten' = forgotten \cup Dropped /\ UNCHANGED faults
       \/ Fault /\ UNCHANGED <<recorded, forgotten>>
    /\ End(q)
    /\ UNCHANGED <<now, listed, refused, issued, blind, user, calls>>

-----------------------------------------------------------------------------
(* Calls that save the whole row.                                              *)

\* ChangePassword, ChangePhone and UpdateProfile read the row.
ReadForSave(q, password) ==
    /\ Call(q, [pc |-> "save", was |-> row, row |-> [row EXCEPT !.password = password]])
    /\ UNCHANGED <<now, tokens, user, faults>>

\* Save writes every column, those of the status included.
SaveUser(q) ==
    LET c == req[q] IN
    /\ c.pc = "save"
    /\ row' = c.row
    /\ decided' = IF c.row.password = c.was.password THEN decided
                  ELSE [decided EXCEPT !.password = c.row.password]
    /\ overlapped' = (overlapped \/ row # c.was)
    /\ End(q)
    /\ UNCHANGED <<now, tokens, calls, faults>>

-----------------------------------------------------------------------------
(* Instances.                                                                  *)

\* LoadJWTBlacklistWithRepository at start-up: OtherInit has made an empty cache, and
\* an error leaves it empty.
Restart(i) ==
    /\ Fault
    /\ \/ refused' = [refused EXCEPT ![i] = listed] /\ blind' = blind \ {i}
       \/ refused' = [refused EXCEPT ![i] = {}] /\ blind' = blind \cup {i}
    /\ req' = [q \in Requests |-> IF req[q].pc \in {"get", "list", "revoke", "cache", "set"} /\ req[q].at = i
                                  THEN Idle ELSE req[q]]
    /\ forgotten' = forgotten \cup
          {req[q].old : q \in {p \in Requests : req[p].pc = "revoke" /\ req[p].at = i}}
    /\ UNCHANGED <<now, recorded, listed, issued, user, calls>>

\* RefreshToken: IsInBlacklist, then the user as he is now.
Accepts(i, t) == t \in issued /\ t \notin refused[i] /\ row.active

SessionNext ==
    \/ Tick
    \/ \E q \in Requests :
        \/ \E i \in Instances : Login(q, i) \/ \E t \in Tokens : Logout(q, i, t)
        \/ GetRedisJWT(q) \/ CreateJwtBlacklist(q) \/ SetBlackCache(q) \/ SetRedisJWT(q)
        \/ LoginError(q) \/ LogoutError(q)
        \/ \E active \in BOOLEAN : ReadForStatus(q, active)
        \/ UpdateUserStatus(q) \/ ForgetSession(q)
        \/ \E password \in {row.password, calls + 1} : ReadForSave(q, password)
        \/ SaveUser(q)
    \/ \E i \in Instances : Restart(i)

SessionSpec == SessionInit /\ [][SessionNext]_sessionVars

-----------------------------------------------------------------------------
(* Properties.                                                                 *)

\* JoinInBlacklist, LoadJWTBlacklistWithRepository: a token that an instance refuses
\* although the account is active is refused there ever after, through restarts too,
\* unless the instance could not read the table.
RefusedStaysRefused ==
    [][\A i \in Instances, t \in issued :
         row.active /\ ~Accepts(i, t) => ~Accepts(i, t)' \/ i \in blind']_sessionVars

\* IssueLoginTokens: of the tokens returned, only the recorded one is not listed;
\* but for those whose record a logout of another session, a change of the status or
\* a login at the same time has removed or written over.
OthersAreListed ==
    issued \ listed \subseteq {recorded} \cup forgotten \cup
        {req[q].old : q \in {p \in Requests : req[p].pc = "revoke"}}

\* UpdateUserStatus, ChangePassword: the row is as the last decisions left it, unless
\* a call saved the row it had read before one of them.
StatusIsDecided == row # decided => overlapped
====
