---------------------------- MODULE AuthSessions ----------------------------
(***************************************************************************)
(* Cookie sessions of one account: families of rotating refresh tokens in  *)
(* PostgreSQL (auth/service.py, repo/sessions.py, cli.py), the delivery of *)
(* their cookies (router.py, auth_middleware.py), and the tabs of a browser *)
(* that renew, sign in and sign out (frontend/lib/api/client.ts).          *)
(*                                                                         *)
(* Every command locks the user row before it reads anything it decides    *)
(* on, so lock is a mutex of the account.  A call is a request at the      *)
(* server; it goes on when its tab is reloaded or gives up.                *)
(***************************************************************************)
EXTENDS Naturals, FiniteSets

CONSTANTS
    Tabs,
    Calls,          \* requests the server may be working on at once
    NoTab, NoCall,
    MaxFamilies,    \* bound: families ever started
    MaxTokens,      \* bound: tokens ever issued
    MaxFaults       \* bound: lost replies, abandoned calls, reloads in mid-call

ASSUME SessionBounds == {MaxFamilies, MaxTokens, MaxFaults} \subseteq Nat
ASSUME NobodyAssumption == NoTab \notin Tabs /\ NoCall \notin Calls

VARIABLES
    account,    \* users.status, "none" before create-user
    family,     \* auth_sessions
    token,      \* auth_refresh_tokens
    lock,       \* the call that holds the row lock of the user
    call,       \* the requests at the server
    cookie,     \* ros_refresh and ros_access of the browser
    webLock,    \* the tab that holds restaurantos-session-mutation
    tab,        \* each tab: waiting for the lock, its operation, failedRefresh
    replayed,   \* ghost: families that saw a consumed token again
    faults

vars == <<account, family, token, lock, call, cookie, webLock, tab, replayed, faults>>
store == <<account, family, token, replayed>>
browser == <<cookie, webLock, tab>>

Families == 1 .. MaxFamilies
Tokens == 1 .. MaxTokens

Family == [exists: BOOLEAN, expired: BOOLEAN,
           revoked: {"no", "logout", "refresh_replay", "user_disabled"}]
NoFamily == [exists |-> FALSE, expired |-> FALSE, revoked |-> "no"]

\* A token of family 0 was never issued or is deleted with its family.
Token == [family: 0 .. MaxFamilies, consumed: BOOLEAN, successor: 0 .. MaxTokens]
NoToken == [family |-> 0, consumed |-> FALSE, successor |-> 0]

Call == [phase: {"free", "sent", "known", "locked", "answered"}, tab: Tabs \cup {NoTab},
         op: {"refresh", "login", "logout"}, token: 0 .. MaxTokens,
         family: 0 .. MaxFamilies,
         verdict: {"none", "deny", "rotate", "replay", "login", "logout", "error"}]
FreeCall == [phase |-> "free", tab |-> NoTab, op |-> "refresh", token |-> 0,
             family |-> 0, verdict |-> "none"]

Tab == [phase: {"idle", "waiting", "recheck", "calling"},
        op: {"refresh", "login", "logout"}, failed: BOOLEAN]
NewTab == [phase |-> "idle", op |-> "refresh", failed |-> FALSE]
NoCookie == [refresh |-> 0, access |-> 0, fresh |-> FALSE]

Fault == faults < MaxFaults /\ faults' = faults + 1

\* Mutant: revocation is not looked at.
ValidUnlessExpired(f) == account = "active" /\ family[f].exists /\ ~family[f].expired

\* session_valid.
Valid(f) ==
    /\ account = "active"
    /\ family[f].exists /\ family[f].revoked = "no" /\ ~family[f].expired

TokensOf(f) == {t \in Tokens : token[t].family = f}

\* Tokens and families are drawn in order and never again.
NextToken(t) == token[t] = NoToken /\ \A u \in 1 .. t - 1 : token[u] # NoToken
NextFamily(f) == family[f] = NoFamily /\ \A g \in 1 .. f - 1 : family[g] # NoFamily

\* Operations under way that may still issue a token.
Pending ==
    Cardinality({t \in Tabs : /\ tab[t].phase # "idle" /\ tab[t].op # "logout"
                              /\ \A c \in Calls : call[c].tab # t})
    + Cardinality({c \in Calls : call[c].phase \in {"sent", "known", "locked"}
                                /\ call[c].op # "logout"})

\* Bound: what is under way can be issued.
Room(op) ==
    /\ op # "logout" => Pending < Cardinality({t \in Tokens : token[t] = NoToken})
    /\ op = "login" => Pending < Cardinality({f \in Families : family[f] = NoFamily})

\* get_current_principal: the access token is checked against the database.
Authorized == cookie.access # 0 /\ cookie.fresh /\ Valid(cookie.access)

-----------------------------------------------------------------------------
(* Browser *)

\* The tab asks for the lock of the session.
Want(t, op) ==
    /\ tab[t].phase = "idle"
    /\ Room(op)
    /\ tab' = [tab EXCEPT ![t].phase = "waiting", ![t].op = op]
    /\ UNCHANGED <<store, lock, call, cookie, webLock, faults>>

\* A request was answered 401.  A tab whose renewal failed does not try again.
WantRenewal(t) == ~tab[t].failed /\ ~Authorized /\ Want(t, "refresh")

SignIn(t) == Want(t, "login")

SignOut(t) == (cookie.refresh # 0 \/ cookie.access # 0) /\ Want(t, "logout")

\* Mutant: operations of several tabs are not serialized.
AcquireAnyway(t) ==
    /\ tab[t].phase = "waiting"
    /\ webLock' = t
    /\ tab' = [tab EXCEPT ![t].phase = IF tab[t].op = "refresh" THEN "recheck" ELSE "calling"]
    /\ UNCHANGED <<store, lock, call, cookie, faults>>

\* serialized: the Web Lock of the session.
Acquire(t) ==
    /\ tab[t].phase = "waiting"
    /\ webLock = NoTab
    /\ webLock' = t
    /\ tab' = [tab EXCEPT ![t].phase = IF tab[t].op = "refresh" THEN "recheck" ELSE "calling"]
    /\ UNCHANGED <<store, lock, call, cookie, faults>>

\* /auth/me under the lock: another tab may have renewed the session meanwhile.
Recheck(t) ==
    /\ tab[t].phase = "recheck"
    /\ IF Authorized
       THEN tab' = [tab EXCEPT ![t].phase = "idle"] /\ webLock' = NoTab
       ELSE tab' = [tab EXCEPT ![t].phase = "calling"] /\ UNCHANGED webLock
    /\ UNCHANGED <<store, lock, call, cookie, faults>>

\* /auth/me cannot tell: the renewal fails before it uses the token.
RecheckFails(t) ==
    /\ tab[t].phase = "recheck"
    /\ Fault
    /\ tab' = [tab EXCEPT ![t].phase = "idle"]
    /\ webLock' = NoTab
    /\ UNCHANGED <<store, lock, call, cookie>>

\* The request leaves with the cookies of the moment.
Send(t, c) ==
    /\ tab[t].phase = "calling"
    /\ call[c] = FreeCall
    /\ \A d \in Calls : call[d].tab # t
    /\ call' = [call EXCEPT ![c] =
                  [FreeCall EXCEPT !.phase = "sent", !.tab = t, !.op = tab[t].op,
                                   !.token = cookie.refresh, !.family = cookie.access]]
    /\ UNCHANGED <<store, lock, browser, faults>>

\* Tabs that are told of a new identity or of its end load their page again.
Broadcast == [u \in Tabs |-> NewTab]

\* auth_error_handler: a refused refresh clears the cookies, an error keeps them.
Clears(c) == c.verdict \in {"deny", "replay"} /\ c.op = "refresh"

\* Cookies after the reply.
CookieAfter(c) ==
    CASE c.verdict \in {"rotate", "login"} ->
           [refresh |-> c.token, access |-> c.family, fresh |-> TRUE]
      [] c.verdict = "logout" \/ Clears(c) -> NoCookie
      [] OTHER -> cookie

\* The lock is released, however the operation ends.
WebLockAfter(t, ok) == NoTab

\* The tab receives the reply and ends its operation.  A refused refresh leads to
\* the login page, a failed one is remembered as long as the page is.
Deliver(c) ==
    /\ call[c].phase = "answered" /\ call[c].tab # NoTab
    /\ LET t == call[c].tab
           ok == call[c].verdict \in {"rotate", "login", "logout"}
       IN /\ webLock' = WebLockAfter(t, ok)
          /\ tab' = IF ok /\ call[c].op # "refresh" THEN Broadcast
                    ELSE [tab EXCEPT ![t].phase = "idle", ![t].failed =
                            IF call[c].op = "refresh" THEN call[c].verdict = "error" ELSE @]
    /\ cookie' = CookieAfter(call[c])
    /\ call' = [call EXCEPT ![c] = FreeCall]
    /\ UNCHANGED <<store, lock, faults>>

\* The reply does not reach the tab: the network loses it, or it is discarded at
\* the delivery deadline and the tab is told 503.
LoseReply(c) ==
    /\ call[c].phase = "answered" /\ call[c].tab # NoTab
    /\ call[c].verdict # "error"
    /\ Fault
    /\ call' = [call EXCEPT ![c].verdict = "error"]
    /\ UNCHANGED <<store, lock, browser>>

\* The page is loaded again: memory and lock are gone, a call in progress is not.
Reload(t) ==
    /\ tab[t] # NewTab
    /\ IF \E c \in Calls : call[c].tab = t THEN Fault ELSE UNCHANGED faults
    /\ tab' = [tab EXCEPT ![t] = NewTab]
    /\ webLock' = IF webLock = t THEN NoTab ELSE webLock
    /\ call' = [c \in Calls |-> IF call[c].tab = t THEN [call[c] EXCEPT !.tab = NoTab]
                                ELSE call[c]]
    /\ UNCHANGED <<store, lock, cookie>>

\* The access token runs out.
AccessExpires ==
    /\ cookie.fresh
    /\ cookie' = [cookie EXCEPT !.fresh = FALSE]
    /\ UNCHANGED <<store, lock, call, webLock, tab, faults>>

-----------------------------------------------------------------------------
(* Server *)

\* The family is read without a lock: token_identity, or decode_access.
Identify(c) ==
    /\ call[c].phase = "sent" /\ call[c].op # "login"
    /\ LET t == call[c].token
           known == IF t # 0 /\ token[t].family # 0 THEN token[t].family
                    ELSE IF call[c].op = "logout" THEN call[c].family ELSE 0
       IN call' = [call EXCEPT ![c] =
            IF known # 0 THEN [@ EXCEPT !.phase = "known", !.family = known]
            ELSE [@ EXCEPT !.phase = "answered",
                           !.verdict = IF call[c].op = "logout" THEN "logout" ELSE "deny"]]
    /\ UNCHANGED <<store, lock, browser, faults>>

\* Mutant: decisions are made without the row lock.
LockedByNone(c) == TRUE

LockedBy(c) == lock = NoCall

\* What refresh_session decides under the lock.
RefreshVerdict(t, f) ==
    IF ~Valid(f) \/ token[t].family # f THEN "deny"
    ELSE IF token[t].consumed THEN "replay" ELSE "rotate"

\* What login decides under the lock.
LoginVerdict(password) == IF password /\ account = "active" THEN "login" ELSE "deny"

\* The user row is locked and the state read that the verdict depends on.
Lock(c) ==
    /\ \/ call[c].phase = "known"
       \/ call[c].phase = "sent" /\ call[c].op = "login"
    /\ LockedBy(c)
    /\ lock' = c
    /\ \E password \in BOOLEAN :
         /\ call[c].op # "login" => password
         /\ call' = [call EXCEPT ![c].phase = "locked", ![c].verdict =
              CASE call[c].op = "login" -> LoginVerdict(password)
                [] call[c].op = "logout" -> "logout"
                [] call[c].op = "refresh" -> RefreshVerdict(call[c].token, call[c].family)]
    /\ UNCHANGED <<store, browser, faults>>

\* Mutant: the revocation is rolled back by the error that reports it.
ReplayRevokesNot(f) == UNCHANGED family

\* A replay ends the family, and is committed before it is reported.
ReplayRevokes(f) == family' = [family EXCEPT ![f].revoked = "refresh_replay"]

\* login starts a family with its first token.
StartFamily(f, new) ==
    /\ family' = [family EXCEPT ![f].exists = TRUE]
    /\ token' = [token EXCEPT ![new].family = f]
    /\ UNCHANGED replayed

\* logout ends the family, unless it has ended or is gone.
EndFamily(f) ==
    /\ family' = [family EXCEPT ![f].revoked =
                    IF @ = "no" /\ family[f].exists THEN "logout" ELSE @]
    /\ UNCHANGED <<token, replayed>>

\* Mutant: the consumed token is not linked to its successor.
RotateUnlinked(f, old, new) ==
    /\ token' = [token EXCEPT ![old].consumed = TRUE, ![new].family = f]
    /\ UNCHANGED <<family, replayed>>

\* refresh_session consumes the token and issues its successor.
Rotate(f, old, new) ==
    /\ token' = [token EXCEPT ![old].consumed = TRUE, ![old].successor = new,
                              ![new].family = f]
    /\ UNCHANGED <<family, replayed>>

\* The call knows the family and the token it answers, unless nobody waits for it.
Reply(c, f, t) ==
    call' = [call EXCEPT ![c] =
               IF @.tab = NoTab THEN FreeCall
               ELSE [@ EXCEPT !.phase = "answered", !.family = f, !.token = t]]

\* The transaction commits.
Commit(c) ==
    /\ call[c].phase = "locked"
    /\ lock' = IF lock = c THEN NoCall ELSE lock
    /\ LET v == call[c].verdict
           f == call[c].family
           t == call[c].token
       IN \/ v = "deny" /\ Reply(c, f, t) /\ UNCHANGED <<family, token, replayed>>
          \/ v = "logout" /\ Reply(c, f, t) /\ EndFamily(f)
          \/ /\ v = "replay"
             /\ ReplayRevokes(f)
             /\ replayed' = replayed \cup {f}
             /\ Reply(c, f, t) /\ UNCHANGED token
          \/ /\ v = "rotate"
             /\ \E new \in Tokens : NextToken(new) /\ Rotate(f, t, new) /\ Reply(c, f, new)
          \/ /\ v = "login"
             /\ \E g \in Families, new \in Tokens :
                  /\ NextFamily(g) /\ NextToken(new)
                  /\ StartFamily(g, new) /\ Reply(c, g, new)
    /\ UNCHANGED <<account, browser, faults>>

\* The deadline, a cancellation or PostgreSQL ends the call before it commits.
Abandon(c) ==
    /\ call[c].phase \in {"sent", "known", "locked"}
    /\ Fault
    /\ lock' = IF lock = c THEN NoCall ELSE lock
    /\ call' = [call EXCEPT ![c] = IF @.tab = NoTab THEN FreeCall
                                   ELSE [@ EXCEPT !.phase = "answered", !.verdict = "error"]]
    /\ UNCHANGED <<store, browser>>

\* An answer that nobody waits for.
Drop(c) ==
    /\ call[c].phase = "answered" /\ call[c].tab = NoTab
    /\ call' = [call EXCEPT ![c] = FreeCall]
    /\ UNCHANGED <<store, lock, browser, faults>>

-----------------------------------------------------------------------------
(* Operator commands and time *)

CreateUser ==
    /\ account = "none"
    /\ account' = "active"
    /\ UNCHANGED <<family, token, replayed, lock, call, browser, faults>>

\* disable-user takes the user row first, as every command does.
DisableUser ==
    /\ account = "active"
    /\ lock = NoCall
    /\ account' = "disabled"
    /\ family' = [f \in Families |->
          IF family[f].exists /\ family[f].revoked = "no"
          THEN [family[f] EXCEPT !.revoked = "user_disabled"] ELSE family[f]]
    /\ UNCHANGED <<token, replayed, lock, call, browser, faults>>

FamilyExpires(f) ==
    /\ family[f].exists /\ ~family[f].expired
    /\ family' = [family EXCEPT ![f].expired = TRUE]
    /\ UNCHANGED <<account, token, replayed, lock, call, browser, faults>>

\* cleanup deletes expired families that nobody has locked; tokens cascade.
Cleanup(f) ==
    /\ family[f].exists /\ family[f].expired
    /\ \A c \in Calls : lock = c => call[c].family # f
    /\ family' = [family EXCEPT ![f].exists = FALSE]
    /\ token' = [t \in Tokens |->
          IF token[t].family = f THEN [token[t] EXCEPT !.family = 0, !.consumed = TRUE]
          ELSE token[t]]
    /\ UNCHANGED <<account, replayed, lock, call, browser, faults>>

-----------------------------------------------------------------------------
Init ==
    /\ account = "none"
    /\ family = [f \in Families |-> NoFamily]
    /\ token = [t \in Tokens |-> NoToken]
    /\ lock = NoCall
    /\ call = [c \in Calls |-> FreeCall]
    /\ cookie = NoCookie
    /\ webLock = NoTab
    /\ tab = [t \in Tabs |-> NewTab]
    /\ replayed = {}
    /\ faults = 0

TabStep(t) == Acquire(t) \/ Recheck(t) \/ \E c \in Calls : Send(t, c)

CallStep(c) == Identify(c) \/ Lock(c) \/ Commit(c) \/ Drop(c) \/ Deliver(c)

OperatorStep ==
    \/ CreateUser \/ DisableUser
    \/ \E f \in Families : FamilyExpires(f) \/ Cleanup(f)

Next ==
    \/ \E t \in Tabs : \/ WantRenewal(t) \/ SignIn(t) \/ SignOut(t)
                       \/ TabStep(t) \/ Reload(t) \/ RecheckFails(t)
    \/ \E c \in Calls : CallStep(c) \/ LoseReply(c) \/ Abandon(c)
    \/ AccessExpires
    \/ OperatorStep

Spec == Init /\ [][Next]_vars

-----------------------------------------------------------------------------
(* Properties *)

\* Every variable keeps its type, and only a call at its transaction has the lock.
SessionsTypeOK ==
    /\ account \in {"none", "active", "disabled"}
    /\ family \in [Families -> Family] /\ token \in [Tokens -> Token]
    /\ call \in [Calls -> Call] /\ tab \in [Tabs -> Tab]
    /\ cookie \in [refresh: 0 .. MaxTokens, access: 0 .. MaxFamilies, fresh: BOOLEAN]
    /\ webLock \in Tabs \cup {NoTab} /\ replayed \subseteq Families
    /\ lock # NoCall => call[lock].phase = "locked"

\* The tokens of a family are one chain that ends in its only unconsumed token,
\* however many tabs, reloads and late calls rotate it (uq_auth_refresh_current).
OneCurrentToken ==
    \A f \in Families :
        family[f].exists =>
            /\ Cardinality({t \in TokensOf(f) : ~token[t].consumed}) = 1
            /\ \A t \in TokensOf(f) :
                 token[t].consumed => token[t].successor \in TokensOf(f)

\* A family in which a consumed token came back is over (refresh_session: the
\* revocation must commit before the failure is surfaced).
ReplayEndsFamily == \A f \in replayed : ~Valid(f)

\* No session of a disabled account is usable, not even one whose login was
\* verified while the account was being disabled.
DisabledHasNoSession ==
    account = "disabled" => \A f \in Families : family[f].exists => family[f].revoked # "no"

\* Without faults, tabs that renew, sign in and sign out side by side never make
\* one another's token look replayed (renewSession, the Web Lock and the recheck).
TabsDoNotReplay == faults = 0 => replayed = {}

\* Every family is one chain of tokens.
TokensChain ==
    /\ SessionsTypeOK
    /\ OneCurrentToken

\* A session ends when it has to, after a replay or with its account, and tabs that
\* work side by side do not end it by mistake.
SessionsEndForCause ==
    /\ ReplayEndsFamily
    /\ DisabledHasNoSession
    /\ TabsDoNotReplay

\* A family that was ended, by a logout, a replay or the operator, issues no token,
\* consumes none, and keeps its reason, whatever calls were already on their way.
EndedFamilyIsFrozen ==
    [][\A f \in Families :
          family[f].exists /\ family[f].revoked # "no" /\ family'[f].exists =>
            /\ TokensOf(f)' = TokensOf(f)
            /\ \A t \in TokensOf(f) : token'[t] = token[t]
            /\ family'[f].revoked = family[f].revoked]_vars

\* No renewal presents a consumed token again (client.ts: "Never let another
\* request automatically replay that token after this attempt finishes").
NoAutomaticReplay == replayed = {}

=============================================================================
