--------------------------- MODULE BrowserProofs ---------------------------
(***************************************************************************)
(* Theorems about the browser and what it relies on: the sessions that its *)
(* tabs share (AuthSessions) and the inventory page (InventoryScreen), for *)
(* every number of tabs, calls, families, tokens, rows, pages and payloads.*)
(*                                                                         *)
(* The server's side of sessions rests on SInv: the row lock is a mutex,   *)
(* what a call decided under it stays true until it commits, tokens lie in *)
(* families that exist, and a replayed family never loses its revocation.  *)
(* That tabs do not make one another's token look replayed rests on BInv:  *)
(* without faults the holder of the Web Lock has the only call, and the    *)
(* cookie, or the reply on its way, is the token the family waits for.     *)
(* What the page shows and sends rests on ScreenInv: a key is of one       *)
(* submission, and a load that counts is of the page and after the save.   *)
(* That late answers stay out rests on LateInv: one load of a view counts, *)
(* none once access is lost, and it reads no older rows than are shown.    *)
(***************************************************************************)
EXTENDS AuthSessions, InventoryScreen, FiniteSetTheorems, TLAPS

(***************************************************************************)
(* Sessions                                                                *)
(***************************************************************************)

\* The row lock of the user is held by the one call that is at its transaction.
LockOwned ==
    /\ lock \in Calls \cup {NoCall}
    /\ \A c \in Calls : call[c].phase = "locked" => lock = c

\* A call that goes on to the lock has a family, and a refresh has its token.
CallsNamed ==
    \A c \in Calls : call[c].phase \in {"known", "locked"} =>
        /\ call[c].op # "login" => call[c].family \in Families
        /\ call[c].op = "refresh" => call[c].token \in Tokens

\* What a verdict is about is still so when the call commits.
Holds(c) ==
    LET f == call[c].family
        t == call[c].token
    IN /\ call[c].verdict \in {"rotate", "replay"} =>
            /\ f \in Families /\ t \in Tokens
            /\ account = "active" /\ family[f].exists /\ family[f].revoked = "no"
            /\ token[t].family = f
            /\ token[t].consumed <=> call[c].verdict = "replay"
       /\ call[c].verdict = "login" => account = "active"
       /\ call[c].verdict = "logout" => f \in Families

VerdictsHold == \A c \in Calls : call[c].phase = "locked" => Holds(c)

\* Tokens are deleted with their family.
TokensPlaced == \A t \in Tokens : token[t].family # 0 => family[token[t].family].exists

\* OneCurrentToken without counting.
Chains ==
    \A f \in Families : family[f].exists =>
        /\ \E t \in TokensOf(f) : ~token[t].consumed
        /\ \A t, u \in TokensOf(f) : ~token[t].consumed /\ ~token[u].consumed => t = u
        /\ \A t \in TokensOf(f) : token[t].consumed => token[t].successor \in TokensOf(f)

\* A replayed family stays revoked, also when cleanup deletes it.
ReplaysRevoked == \A f \in replayed : family[f].revoked # "no"

\* A token that its family would still rotate; tokens of no family are not asked for.
Unspent(x) == x # 0 /\ token[x].family # 0 => ~token[x].consumed

\* A tab past the lock of the session holds it, and so does a tab with a call.
WebLockHeld ==
    /\ \A t \in Tabs : tab[t].phase \in {"recheck", "calling"} => webLock = t
    /\ \A c \in Calls : call[c].phase # "free" /\ call[c].tab # NoTab =>
          /\ webLock = call[c].tab
          /\ tab[call[c].tab].phase = "calling"
    /\ \A c, d \in Calls : call[c].tab = call[d].tab /\ call[c].tab # NoTab => c = d

\* The call that the browser waits for; the token that its next renewal presents is
\* the cookie's until the answer brings another.
Awaited(c) ==
    /\ call[c].tab # NoTab
    /\ call[c].verdict \notin {"replay", "error"}
    /\ call[c].phase # "answered" /\ call[c].op = "refresh" => call[c].token = cookie.refresh
    /\ call[c].phase = "answered" =>
          Unspent(IF call[c].verdict \in {"rotate", "login"} THEN call[c].token
                  ELSE cookie.refresh)

Calm ==
    /\ replayed = {}
    /\ \A c \in Calls : IF call[c].phase = "free" THEN call[c].tab = NoTab ELSE Awaited(c)
    /\ (\A c \in Calls : call[c].phase # "answered") => Unspent(cookie.refresh)

BInv ==
    /\ faults \in Nat
    /\ WebLockHeld
    /\ faults = 0 => Calm

SInv ==
    /\ SessionsTypeOK
    /\ LockOwned
    /\ CallsNamed
    /\ VerdictsHold
    /\ TokensPlaced
    /\ Chains
    /\ ReplaysRevoked
    /\ DisabledHasNoSession

-----------------------------------------------------------------------------
(* Types *)

\* Families and tokens are numbered from 1; 0 stands for none.
LEMMA Numbering ==
    /\ MaxTokens \in Nat /\ MaxFamilies \in Nat /\ MaxFaults \in Nat
    /\ Tokens \subseteq 0 .. MaxTokens /\ 0 \in 0 .. MaxTokens /\ 0 \notin Tokens
    /\ Families \subseteq 0 .. MaxFamilies /\ 0 \in 0 .. MaxFamilies /\ 0 \notin Families
    /\ \A t \in 0 .. MaxTokens : t # 0 => t \in Tokens
    /\ \A f \in 0 .. MaxFamilies : f # 0 => f \in Families
  BY SessionBounds DEF Tokens, Families

\* The constant records have their types.
LEMMA Blanks ==
    /\ NoFamily \in Family /\ NoToken \in Token /\ FreeCall \in Call /\ NewTab \in Tab
    /\ NoCookie \in [refresh: 0 .. MaxTokens, access: 0 .. MaxFamilies, fresh: BOOLEAN]
    /\ NoFamily.exists = FALSE /\ NoFamily.revoked = "no" /\ NoToken.family = 0
    /\ NoToken.consumed = FALSE
    /\ FreeCall.phase = "free" /\ FreeCall.tab = NoTab /\ NewTab.phase = "idle"
    /\ FreeCall.verdict = "none" /\ NoCookie.refresh = 0
  BY Numbering DEF NoFamily, Family, NoToken, Token, FreeCall, Call, NewTab, Tab, NoCookie

\* A browser that never signed in satisfies the invariant.
LEMMA InitSInv == Init => SInv
  BY Blanks
  DEF Init, SInv, SessionsTypeOK, LockOwned, CallsNamed, VerdictsHold, TokensPlaced, Chains,
      ReplaysRevoked, DisabledHasNoSession

\* The holder of the lock is a call at its transaction.
LEMMA LockOwnedAt ==
  ASSUME SInv PROVE lock # NoCall => lock \in Calls /\ call[lock].phase = "locked"
  BY DEF SInv, SessionsTypeOK, LockOwned

-----------------------------------------------------------------------------
(* Steps that leave the store alone *)

\* Calls that are at the lock or on their way there go on unchanged, or they leave;
\* the row lock is released when its holder leaves.
LEMMA QuietStep ==
  ASSUME SInv, UNCHANGED store, SessionsTypeOK',
         lock' = lock \/ lock' = NoCall,
         \A c \in Calls : call'[c].phase \in {"known", "locked"} =>
             /\ call[c].phase = call'[c].phase /\ call[c].op = call'[c].op
             /\ call[c].token = call'[c].token /\ call[c].family = call'[c].family
             /\ call[c].verdict = call'[c].verdict
             /\ lock' = lock \/ lock # c
  PROVE  SInv'
  <1> USE DEF SInv, store
  <1>1. LockOwned'
    BY DEF LockOwned
  <1>2. CallsNamed'
    BY DEF CallsNamed
  <1>3. VerdictsHold'
    BY DEF VerdictsHold, Holds
  <1>4. TokensPlaced' /\ Chains' /\ ReplaysRevoked' /\ DisabledHasNoSession'
    BY DEF TokensPlaced, Chains, TokensOf, ReplaysRevoked, DisabledHasNoSession
  <1> QED
    BY <1>1, <1>2, <1>3, <1>4

\* Steps of a tab that reach no call.
LEMMA TabSInv ==
  ASSUME SInv, NEW t \in Tabs,
         \/ WantRenewal(t) \/ SignIn(t) \/ SignOut(t)
         \/ Acquire(t) \/ Recheck(t) \/ RecheckFails(t)
  PROVE  SInv'
  <1> USE DEF SInv, SessionsTypeOK, store
  <1>1. /\ UNCHANGED store /\ UNCHANGED <<lock, call>>
    BY DEF WantRenewal, SignIn, SignOut, Want, Acquire, Recheck, RecheckFails
  <1>2. CASE Acquire(t) \/ Recheck(t) \/ RecheckFails(t)
    BY <1>1, <1>2, QuietStep DEF Acquire, Recheck, RecheckFails, Tab
  <1>3. CASE WantRenewal(t) \/ SignIn(t) \/ SignOut(t)
    BY <1>1, <1>3, QuietStep DEF WantRenewal, SignIn, SignOut, Want, Tab
  <1> QED
    BY <1>2, <1>3

\* A request leaves with the cookies of the moment.
LEMMA SendSInv ==
  ASSUME SInv, NEW t \in Tabs, NEW c \in Calls, Send(t, c) PROVE SInv'
  <1> DEFINE x == [FreeCall EXCEPT !.phase = "sent", !.tab = t, !.op = tab[t].op,
                                   !.token = cookie.refresh, !.family = cookie.access]
  <1>1. x \in Call /\ x.phase = "sent"
    BY Numbering DEF SInv, SessionsTypeOK, FreeCall, Call, Tab
  <1>2. /\ call' = [call EXCEPT ![c] = x]
        /\ UNCHANGED store /\ UNCHANGED <<lock, cookie, tab, webLock>>
        /\ call[c].phase = "free"
    BY Blanks DEF Send, browser
  <1> HIDE DEF x
  <1>3. SessionsTypeOK'
    BY <1>1, <1>2 DEF SInv, SessionsTypeOK, store
  <1> QED
    BY <1>1, <1>2, <1>3, QuietStep DEF SInv, SessionsTypeOK

\* A call whose answer is delivered, lost or dropped is past its transaction.
LEMMA AnswerSInv ==
  ASSUME SInv, NEW c \in Calls, Deliver(c) \/ LoseReply(c) \/ Drop(c)
  PROVE  SInv'
  <1> USE DEF SInv, SessionsTypeOK
  <1>1. PICK x \in Call : /\ call' = [call EXCEPT ![c] = x]
                          /\ x.phase \in {"free", "answered"}
    <2>1. CASE LoseReply(c)
      <3> DEFINE y == [call[c] EXCEPT !.verdict = "error"]
      <3>1. y \in Call /\ y.phase = "answered" /\ call' = [call EXCEPT ![c] = y]
        BY <2>1 DEF LoseReply, Call
      <3> QED
        BY <3>1
    <2>2. CASE Deliver(c) \/ Drop(c)
      BY <2>2, Blanks DEF Deliver, Drop
    <2> QED
      BY <2>1, <2>2
  <1>2. call[c].phase = "answered" /\ UNCHANGED store /\ UNCHANGED lock
    BY DEF Deliver, LoseReply, Drop, store
  <1>3. CookieAfter(call[c])
          \in [refresh: 0 .. MaxTokens, access: 0 .. MaxFamilies, fresh: BOOLEAN]
    BY Blanks DEF CookieAfter, Call
  <1>4. /\ cookie' \in [refresh: 0 .. MaxTokens, access: 0 .. MaxFamilies, fresh: BOOLEAN]
        /\ webLock' \in Tabs \cup {NoTab} /\ tab' \in [Tabs -> Tab]
    <2>1. CASE Deliver(c)
      <3>1. cookie' = CookieAfter(call[c]) /\ webLock' = NoTab
        BY <2>1 DEF Deliver, WebLockAfter
      <3>2. Broadcast \in [Tabs -> Tab]
        BY Blanks DEF Broadcast
      <3> DEFINE t == call[c].tab
                 refused == IF call[c].op = "refresh" THEN call[c].verdict = "error"
                           ELSE tab[t].failed
                 y == [tab[t] EXCEPT !.phase = "idle", !.failed = refused]
      <3>3. t \in Tabs
        BY <2>1 DEF Deliver, Call
      <3>4. refused \in BOOLEAN
        BY <3>3 DEF Tab
      <3>5. tab' = Broadcast \/ tab' = [tab EXCEPT ![t] = y]
        BY <2>1 DEF Deliver
      <3> HIDE DEF refused, t
      <3>6. y \in Tab
        BY <3>3, <3>4 DEF Tab
      <3> HIDE DEF y
      <3>7. tab' \in [Tabs -> Tab]
        BY <3>2, <3>3, <3>5, <3>6
      <3> QED
        BY <1>3, <3>1, <3>7
    <2>2. CASE LoseReply(c) \/ Drop(c)
      BY <2>2 DEF LoseReply, Drop, browser
    <2> QED
      BY <2>1, <2>2
  <1>5. SessionsTypeOK'
    BY <1>1, <1>2, <1>4 DEF store
  <1> QED
    BY <1>1, <1>2, <1>5, QuietStep

\* A tab that is loaded again leaves its call to go on without it.
LEMMA ReloadSInv == ASSUME SInv, NEW t \in Tabs, Reload(t) PROVE SInv'
  <1> USE DEF SInv, SessionsTypeOK
  <1>1. ASSUME NEW c \in Calls
        PROVE  /\ call'[c] \in Call
               /\ call'[c].phase = call[c].phase /\ call'[c].op = call[c].op
               /\ call'[c].token = call[c].token /\ call'[c].family = call[c].family
               /\ call'[c].verdict = call[c].verdict
    BY SMTT(30) DEF Reload, Call
  <1>2. call' \in [Calls -> Call]
    BY <1>1 DEF Reload
  <1>3. /\ UNCHANGED store /\ UNCHANGED <<lock, cookie>>
        /\ tab' \in [Tabs -> Tab] /\ webLock' \in Tabs \cup {NoTab}
    BY Blanks DEF Reload
  <1>4. SessionsTypeOK'
    BY <1>1, <1>2, <1>3, LockOwnedAt DEF store
  <1> QED
    BY <1>1, <1>3, <1>4, QuietStep

\* A call that ends before it commits releases the row lock.
LEMMA AbandonSInv == ASSUME SInv, NEW c \in Calls, Abandon(c) PROVE SInv'
  <1> USE DEF SInv, SessionsTypeOK
  <1>1. PICK x \in Call : /\ call' = [call EXCEPT ![c] = x]
                          /\ x.phase \in {"free", "answered"}
    <2> DEFINE y == IF call[c].tab = NoTab THEN FreeCall
                    ELSE [call[c] EXCEPT !.phase = "answered", !.verdict = "error"]
    <2>1. y \in Call /\ y.phase \in {"free", "answered"}
      BY ZenonT(40), Blanks DEF Call
    <2>2. call' = [call EXCEPT ![c] = y]
      BY DEF Abandon
    <2> HIDE DEF y
    <2> QED
      BY <2>1, <2>2
  <1>2. /\ UNCHANGED store /\ UNCHANGED <<cookie, tab, webLock>>
        /\ lock' = IF lock = c THEN NoCall ELSE lock
    BY DEF Abandon, browser
  <1>3. SessionsTypeOK'
    BY <1>1, <1>2, LockOwnedAt DEF store
  <1> QED
    BY <1>1, <1>2, <1>3, QuietStep

-----------------------------------------------------------------------------
(* Steps of the server *)

\* token_identity and decode_access name an existing family, or end the call.
LEMMA IdentifySInv == ASSUME SInv, NEW c \in Calls, Identify(c) PROVE SInv'
  <1> DEFINE t == call[c].token
             known == IF t # 0 /\ token[t].family # 0 THEN token[t].family
                      ELSE IF call[c].op = "logout" THEN call[c].family ELSE 0
             y == [call[c] EXCEPT !.phase = "known", !.family = known]
             z == [call[c] EXCEPT !.phase = "answered",
                     !.verdict = IF call[c].op = "logout" THEN "logout" ELSE "deny"]
  <1>1. /\ call[c] \in Call /\ call[c].phase = "sent" /\ call[c].op # "login"
        /\ UNCHANGED store /\ UNCHANGED <<lock, cookie, tab, webLock>>
    BY DEF Identify, SInv, SessionsTypeOK, browser
  <1>2. /\ known \in 0 .. MaxFamilies
        /\ known # 0 /\ call[c].op = "refresh" => t \in Tokens
    <2>1. /\ t \in 0 .. MaxTokens /\ call[c].family \in 0 .. MaxFamilies
          /\ call[c].op = "refresh" => call[c].op # "logout"
      BY <1>1 DEF Call
    <2>2. t # 0 => t \in Tokens /\ token[t].family \in 0 .. MaxFamilies
      BY <2>1, Numbering DEF SInv, SessionsTypeOK, Token
    <2>3. 0 \in 0 .. MaxFamilies
      BY Numbering
    <2>4. known \in 0 .. MaxFamilies
      BY <2>1, <2>2, <2>3
    <2>5. known # 0 /\ call[c].op = "refresh" => t # 0
      BY <2>1
    <2> QED
      BY <2>2, <2>4, <2>5
  <1>3. call' = [call EXCEPT ![c] = IF known # 0 THEN y ELSE z]
    BY DEF Identify
  <1> HIDE DEF known
  <1>4. /\ y \in Call /\ y.phase = "known" /\ y.op = call[c].op
        /\ y.token = t /\ y.family = known
    BY <1>1, <1>2 DEF Call
  <1>5. z \in Call /\ z.phase = "answered"
    BY <1>1 DEF Call
  <1> HIDE DEF y, z
  <1>6. SessionsTypeOK'
    BY <1>1, <1>3, <1>4, <1>5 DEF SInv, SessionsTypeOK, store
  <1>7. CASE known = 0
    BY <1>1, <1>3, <1>5, <1>6, <1>7, QuietStep DEF SInv, SessionsTypeOK
  <1>8. CASE known # 0
    <2>1. call' = [call EXCEPT ![c] = y] /\ known \in Families
      BY <1>2, <1>3, <1>8, Numbering
    <2>2. LockOwned' /\ CallsNamed' /\ VerdictsHold'
      <3>1. /\ call'[c] = y /\ \A d \in Calls : d # c => call'[d] = call[d]
            /\ lock' = lock
        BY <1>1, <2>1 DEF SInv, SessionsTypeOK
      <3>2. LockOwned'
        BY <1>4, <3>1 DEF SInv, LockOwned
      <3>3. CallsNamed'
        BY <1>2, <1>4, <1>8, <2>1, <3>1 DEF SInv, CallsNamed
      <3>4. VerdictsHold'
        BY <1>1, <1>4, <3>1 DEF SInv, VerdictsHold, Holds, store
      <3> QED
        BY <3>2, <3>3, <3>4
    <2>3. TokensPlaced' /\ Chains' /\ ReplaysRevoked' /\ DisabledHasNoSession'
      BY <1>1 DEF SInv, store, TokensPlaced, Chains, TokensOf, ReplaysRevoked,
                  DisabledHasNoSession
    <2> QED
      BY <1>6, <2>2, <2>3 DEF SInv
  <1> QED
    BY <1>7, <1>8

\* Under the lock of the user row the verdict is about the state it is read from.
LEMMA LockSInv == ASSUME SInv, NEW c \in Calls, Lock(c) PROVE SInv'
  <1>1. PICK password \in BOOLEAN :
          /\ call[c].op # "login" => password
          /\ call' = [call EXCEPT ![c].phase = "locked", ![c].verdict =
               CASE call[c].op = "login" -> LoginVerdict(password)
                 [] call[c].op = "logout" -> "logout"
                 [] call[c].op = "refresh" -> RefreshVerdict(call[c].token, call[c].family)]
    BY DEF Lock
  <1> DEFINE v == CASE call[c].op = "login" -> LoginVerdict(password)
                    [] call[c].op = "logout" -> "logout"
                    [] call[c].op = "refresh" ->
                         RefreshVerdict(call[c].token, call[c].family)
             y == [call[c] EXCEPT !.phase = "locked", !.verdict = v]
  <1>2. /\ call[c] \in Call /\ lock = NoCall /\ lock' = c
        /\ UNCHANGED store /\ UNCHANGED <<cookie, tab, webLock>>
        /\ \/ call[c].phase = "known"
           \/ call[c].phase = "sent" /\ call[c].op = "login"
        /\ call' = [call EXCEPT ![c] = y]
    <2>1. call' = [call EXCEPT ![c].phase = "locked", ![c].verdict = v]
      BY <1>1
    <2> HIDE DEF v
    <2>2. call' = [call EXCEPT ![c] = y]
      BY <2>1 DEF SInv, SessionsTypeOK
    <2> QED
      BY <2>2 DEF Lock, LockedBy, SInv, SessionsTypeOK, browser
  <1>3. /\ call[c].op # "login" => call[c].family \in Families
        /\ call[c].op = "refresh" => call[c].token \in Tokens
        /\ call[c].op \in {"login", "logout", "refresh"}
    BY <1>2 DEF SInv, CallsNamed, Call
  <1>4. /\ v \in {"deny", "rotate", "replay", "login", "logout"}
        /\ v \in {"rotate", "replay"} =>
             /\ call[c].op = "refresh"
             /\ account = "active" /\ family[call[c].family].exists
             /\ family[call[c].family].revoked = "no"
             /\ token[call[c].token].family = call[c].family
             /\ token[call[c].token].consumed <=> v = "replay"
        /\ v = "login" => account = "active"
        /\ v = "logout" => call[c].op = "logout"
    BY <1>3 DEF LoginVerdict, RefreshVerdict, Valid
  <1> HIDE DEF v
  <1>5. /\ y \in Call /\ y.phase = "locked" /\ y.verdict = v
        /\ y.op = call[c].op /\ y.token = call[c].token /\ y.family = call[c].family
    BY <1>2, <1>4 DEF Call
  <1> HIDE DEF y
  <1>6. \A d \in Calls : d # c => call'[d] = call[d] /\ call[d].phase # "locked"
    BY <1>2, NobodyAssumption DEF SInv, SessionsTypeOK, LockOwned
  <1>7. call'[c] = y
    BY <1>2 DEF SInv, SessionsTypeOK
  <1>8. SessionsTypeOK'
    BY <1>2, <1>5, <1>7 DEF SInv, SessionsTypeOK, store
  <1>9. LockOwned'
    BY <1>2, <1>6 DEF LockOwned
  <1>10. CallsNamed'
    BY <1>3, <1>5, <1>6, <1>7 DEF SInv, CallsNamed
  <1>11. VerdictsHold'
    BY <1>2, <1>3, <1>4, <1>5, <1>6, <1>7 DEF VerdictsHold, Holds, store
  <1>12. TokensPlaced' /\ Chains' /\ ReplaysRevoked' /\ DisabledHasNoSession'
    BY <1>2 DEF SInv, store, TokensPlaced, Chains, TokensOf, ReplaysRevoked,
                DisabledHasNoSession
  <1> QED
    BY <1>8, <1>9, <1>10, <1>11, <1>12 DEF SInv

\* A commit frees the lock and answers; what is left to show is about the store.
LEMMA CommitCalls ==
  ASSUME SInv, NEW c \in Calls, call[c].phase = "locked",
         lock' = IF lock = c THEN NoCall ELSE lock,
         NEW f \in 0 .. MaxFamilies, NEW t \in 0 .. MaxTokens, Reply(c, f, t)
  PROVE  /\ call' \in [Calls -> Call] /\ lock = c /\ lock' = NoCall
         /\ call'[c].phase \in {"free", "answered"}
         /\ \A d \in Calls : d # c => call'[d] = call[d] /\ call[d].phase # "locked"
         /\ LockOwned' /\ CallsNamed' /\ VerdictsHold'
  <1> USE DEF SInv, SessionsTypeOK
  <1> DEFINE y == IF call[c].tab = NoTab THEN FreeCall
                  ELSE [call[c] EXCEPT !.phase = "answered", !.family = f, !.token = t]
  <1>1. y \in Call /\ y.phase \in {"free", "answered"}
    BY ZenonT(40), Blanks DEF Call
  <1>2. call' = [call EXCEPT ![c] = y]
    BY DEF Reply
  <1> HIDE DEF y
  <1>3. lock = c /\ lock' = NoCall
    BY DEF LockOwned
  <1>4. \A d \in Calls : d # c => call'[d] = call[d] /\ call[d].phase # "locked"
    BY <1>2, <1>3 DEF LockOwned
  <1>5. call' \in [Calls -> Call] /\ call'[c] = y
    BY <1>1, <1>2
  <1>6. LockOwned' /\ CallsNamed' /\ VerdictsHold'
    BY <1>1, <1>3, <1>4, <1>5 DEF LockOwned, CallsNamed, VerdictsHold
  <1> QED
    BY <1>1, <1>3, <1>4, <1>5, <1>6

\* A transaction that writes nothing.
LEMMA DenySInv ==
  ASSUME SInv, NEW c \in Calls, call[c].phase = "locked",
         lock' = IF lock = c THEN NoCall ELSE lock,
         Reply(c, call[c].family, call[c].token),
         UNCHANGED store, UNCHANGED browser
  PROVE  SInv'
  <1>1. call[c].family \in 0 .. MaxFamilies /\ call[c].token \in 0 .. MaxTokens
    BY DEF SInv, SessionsTypeOK, Call
  <1>2. /\ call' \in [Calls -> Call] /\ lock' = NoCall
        /\ LockOwned' /\ CallsNamed' /\ VerdictsHold'
    BY <1>1, CommitCalls
  <1>3. TokensPlaced' /\ Chains' /\ ReplaysRevoked' /\ DisabledHasNoSession'
    BY DEF SInv, store, TokensPlaced, Chains, TokensOf, ReplaysRevoked, DisabledHasNoSession
  <1>4. SessionsTypeOK'
    BY <1>2 DEF SInv, SessionsTypeOK, store, browser
  <1> QED
    BY <1>2, <1>3, <1>4 DEF SInv

\* A family that is revoked, by a logout or by a replay, keeps its tokens.
LEMMA RevokeSInv ==
  ASSUME SInv, NEW c \in Calls, call[c].phase = "locked",
         lock' = IF lock = c THEN NoCall ELSE lock,
         Reply(c, call[c].family, call[c].token), call[c].family \in Families,
         NEW r \in {"no", "logout", "refresh_replay", "user_disabled"},
         family[call[c].family].revoked # "no" => r # "no",
         family' = [family EXCEPT ![call[c].family].revoked = r],
         replayed' = replayed \/ (r # "no" /\ replayed' = replayed \cup {call[c].family}),
         UNCHANGED <<account, token>>, UNCHANGED browser
  PROVE  SInv'
  <1> DEFINE f == call[c].family
  <1>1. f \in 0 .. MaxFamilies /\ call[c].token \in 0 .. MaxTokens
    BY DEF SInv, SessionsTypeOK, Call
  <1>2. /\ call' \in [Calls -> Call] /\ lock' = NoCall
        /\ LockOwned' /\ CallsNamed' /\ VerdictsHold'
    BY <1>1, CommitCalls
  <1>3. /\ family' \in [Families -> Family]
        /\ \A g \in Families : /\ family'[g].exists = family[g].exists
                               /\ family'[g].revoked = IF g = f THEN r ELSE family[g].revoked
    BY DEF SInv, SessionsTypeOK, Family
  <1>4. SessionsTypeOK'
    BY <1>2, <1>3 DEF SInv, SessionsTypeOK, browser
  <1>5. TokensPlaced'
    BY <1>3, Numbering DEF SInv, SessionsTypeOK, TokensPlaced, Token
  <1>6. Chains'
    BY <1>3 DEF SInv, Chains, TokensOf
  <1>7. ReplaysRevoked' /\ DisabledHasNoSession'
    BY <1>3 DEF SInv, SessionsTypeOK, ReplaysRevoked, DisabledHasNoSession
  <1> QED
    BY <1>2, <1>4, <1>5, <1>6, <1>7 DEF SInv

\* A rotation consumes the one unconsumed token of its family and links it to the next.
LEMMA RotateSInv ==
  ASSUME SInv, NEW c \in Calls, call[c].phase = "locked", call[c].verdict = "rotate",
         lock' = IF lock = c THEN NoCall ELSE lock,
         NEW new \in Tokens, NextToken(new), Rotate(call[c].family, call[c].token, new),
         Reply(c, call[c].family, new),
         UNCHANGED account, UNCHANGED browser
  PROVE  SInv'
  <1>0. PICK f, old : f = call[c].family /\ old = call[c].token
    OBVIOUS
  <1>1. /\ f \in Families /\ old \in Tokens /\ token[old].family = f
        /\ ~token[old].consumed /\ family[f].exists
    BY <1>0 DEF SInv, VerdictsHold, Holds
  <1>2. /\ token[new].family = 0 /\ ~token[new].consumed /\ f # 0 /\ new # old
        /\ f \in 0 .. MaxFamilies /\ new \in 0 .. MaxTokens
    BY <1>1, Blanks, Numbering DEF NextToken
  <1>3. /\ call' \in [Calls -> Call] /\ lock' = NoCall
        /\ LockOwned' /\ CallsNamed' /\ VerdictsHold'
    BY <1>0, <1>2, CommitCalls
  <1>4. /\ token' = [token EXCEPT ![old].consumed = TRUE, ![old].successor = new,
                                  ![new].family = f]
        /\ UNCHANGED <<family, replayed>>
    BY <1>0 DEF Rotate
  <1>5. /\ token' \in [Tokens -> Token]
        /\ token'[new].family = f /\ ~token'[new].consumed
        /\ token'[old].family = f /\ token'[old].consumed /\ token'[old].successor = new
        /\ \A t \in Tokens : t # old /\ t # new => token'[t] = token[t]
    <2> DEFINE o == [token[old] EXCEPT !.consumed = TRUE, !.successor = new]
               n == [token[new] EXCEPT !.family = f]
    <2>1. token[old] \in Token /\ token[new] \in Token /\ token \in [Tokens -> Token]
      BY <1>1 DEF SInv, SessionsTypeOK
    <2>2. o \in Token /\ o.family = f /\ o.consumed /\ o.successor = new
      BY <1>1, <1>2, <2>1 DEF Token
    <2>3. n \in Token /\ n.family = f /\ ~n.consumed
      BY <1>2, <2>1 DEF Token
    <2>4. token' = [token EXCEPT ![old] = o, ![new] = n]
      BY <1>1, <1>2, <1>4, <2>1
    <2> HIDE DEF o, n
    <2>5. /\ token' \in [Tokens -> Token] /\ token'[old] = o /\ token'[new] = n
          /\ \A t \in Tokens : t # old /\ t # new => token'[t] = token[t]
      BY <1>1, <1>2, <2>1, <2>2, <2>3, <2>4
    <2> QED
      BY <2>2, <2>3, <2>5
  <1>6. /\ TokensOf(f)' = TokensOf(f) \cup {new}
        /\ \A g \in Families : g # f => TokensOf(g)' = TokensOf(g)
    <2>1. \A t \in Tokens : token'[t].family = IF t = new THEN f ELSE token[t].family
      BY <1>1, <1>5
    <2>2. TokensOf(f)' = TokensOf(f) \cup {new}
      BY <1>2, <2>1 DEF TokensOf
    <2>3. ASSUME NEW g \in Families, g # f PROVE TokensOf(g)' = TokensOf(g)
      <3>1. g # 0
        BY Numbering
      <3> QED
        BY <1>2, <2>1, <2>3, <3>1 DEF TokensOf
    <2> QED
      BY <2>2, <2>3
  <1>7. SessionsTypeOK'
    BY <1>3, <1>4, <1>5 DEF SInv, SessionsTypeOK, browser
  <1>8. TokensPlaced'
    BY <1>1, <1>2, <1>4, <1>5 DEF SInv, TokensPlaced
  <1>9. Chains'
    <2>1. ASSUME NEW g \in Families, g # f, family[g].exists
          PROVE  /\ \E t \in TokensOf(g)' : ~token'[t].consumed
                 /\ \A t, u \in TokensOf(g)' : ~token'[t].consumed /\ ~token'[u].consumed
                                               => t = u
                 /\ \A t \in TokensOf(g)' : token'[t].consumed
                                            => token'[t].successor \in TokensOf(g)'
      <3>1. \A t \in TokensOf(g) : t \in Tokens /\ t # old /\ t # new
        BY <1>1, <1>2, <2>1, Numbering DEF TokensOf
      <3> QED
        BY <1>5, <1>6, <2>1, <3>1 DEF SInv, Chains
    <2>2. /\ \E t \in TokensOf(f)' : ~token'[t].consumed
          /\ \A t, u \in TokensOf(f)' : ~token'[t].consumed /\ ~token'[u].consumed => t = u
          /\ \A t \in TokensOf(f)' : token'[t].consumed => token'[t].successor \in TokensOf(f)'
      <3>1. old \in TokensOf(f) /\ TokensOf(f) \subseteq Tokens
        BY <1>1 DEF TokensOf
      <3>2. /\ \A t \in TokensOf(f) : ~token[t].consumed => t = old
            /\ \A t \in TokensOf(f) : token[t].consumed => token[t].successor \in TokensOf(f)
        BY <1>1, <3>1 DEF SInv, Chains
      <3>3. \A t \in TokensOf(f)' : ~token'[t].consumed => t = new
        BY <1>5, <1>6, <3>1, <3>2
      <3>4. \A t \in TokensOf(f)' : token'[t].consumed => token'[t].successor \in TokensOf(f)'
        BY <1>5, <1>6, <3>1, <3>2
      <3> QED
        BY <1>5, <1>6, <3>3, <3>4
    <2>3. ASSUME NEW g \in Families, family'[g].exists
          PROVE  /\ \E t \in TokensOf(g)' : ~token'[t].consumed
                 /\ \A t, u \in TokensOf(g)' : ~token'[t].consumed /\ ~token'[u].consumed
                                               => t = u
                 /\ \A t \in TokensOf(g)' : token'[t].consumed
                                            => token'[t].successor \in TokensOf(g)'
      <3>1. CASE g = f
        BY <2>2, <3>1
      <3>2. CASE g # f
        BY <1>4, <2>1, <2>3, <3>2
      <3> QED
        BY <3>1, <3>2
    <2> QED
      BY <2>3 DEF Chains
  <1>10. ReplaysRevoked' /\ DisabledHasNoSession'
    BY <1>4 DEF SInv, ReplaysRevoked, DisabledHasNoSession
  <1> QED
    BY <1>3, <1>7, <1>8, <1>9, <1>10 DEF SInv

\* A login starts a family that never existed with a token that was never issued.
LEMMA LoginSInv ==
  ASSUME SInv, NEW c \in Calls, call[c].phase = "locked", call[c].verdict = "login",
         lock' = IF lock = c THEN NoCall ELSE lock,
         NEW g \in Families, NEW new \in Tokens, NextFamily(g), NextToken(new),
         StartFamily(g, new), Reply(c, g, new),
         UNCHANGED account, UNCHANGED browser
  PROVE  SInv'
  <1>1. /\ account = "active"
        /\ ~family[g].exists /\ family[g].revoked = "no"
        /\ token[new].family = 0 /\ ~token[new].consumed /\ g # 0
        /\ g \in 0 .. MaxFamilies /\ new \in 0 .. MaxTokens
    BY Blanks, Numbering DEF NextToken, NextFamily, SInv, VerdictsHold, Holds
  <1>2. /\ call' \in [Calls -> Call] /\ lock' = NoCall
        /\ LockOwned' /\ CallsNamed' /\ VerdictsHold'
    BY <1>1, CommitCalls
  <1>3. /\ token' \in [Tokens -> Token] /\ family' \in [Families -> Family]
        /\ token'[new].family = g /\ ~token'[new].consumed
        /\ \A t \in Tokens : t # new => token'[t] = token[t]
        /\ family'[g].exists /\ \A f \in Families : f # g => family'[f] = family[f]
        /\ family'[g].revoked = "no"
        /\ UNCHANGED replayed
    BY ZenonT(40), <1>1 DEF StartFamily, SInv, SessionsTypeOK, Token, Family
  <1>4. TokensOf(g) = {}
    BY <1>1 DEF SInv, TokensPlaced, TokensOf
  <1>5. /\ TokensOf(g)' = {new}
        /\ \A f \in Families : f # g => TokensOf(f)' = TokensOf(f)
        /\ \A f \in Families : new \notin TokensOf(f)
    <2>1. \A t \in Tokens : token'[t].family = IF t = new THEN g ELSE token[t].family
      BY <1>3
    <2>2. TokensOf(g)' = {new}
      BY <1>4, <2>1 DEF TokensOf
    <2>3. ASSUME NEW f \in Families
          PROVE  new \notin TokensOf(f) /\ (f # g => TokensOf(f)' = TokensOf(f))
      <3>1. f # 0
        BY Numbering
      <3> QED
        BY <1>1, <2>1, <3>1 DEF TokensOf
    <2> QED
      BY <2>2, <2>3
  <1>6. SessionsTypeOK'
    BY <1>2, <1>3 DEF SInv, SessionsTypeOK, browser
  <1>7. TokensPlaced'
    BY <1>1, <1>3, Numbering DEF SInv, SessionsTypeOK, TokensPlaced, Token
  <1>8. Chains'
    <2>1. ASSUME NEW f \in Families, f # g, family[f].exists
          PROVE  /\ \E t \in TokensOf(f)' : ~token'[t].consumed
                 /\ \A t, u \in TokensOf(f)' : ~token'[t].consumed /\ ~token'[u].consumed
                                               => t = u
                 /\ \A t \in TokensOf(f)' : token'[t].consumed
                                            => token'[t].successor \in TokensOf(f)'
      <3>1. \A t \in TokensOf(f) : t \in Tokens /\ t # new
        BY <1>5 DEF TokensOf
      <3> QED
        BY <1>3, <1>5, <2>1, <3>1 DEF SInv, Chains
    <2> QED
      BY <1>3, <1>5, <2>1 DEF Chains
  <1>9. ReplaysRevoked' /\ DisabledHasNoSession'
    BY <1>1, <1>3 DEF SInv, SessionsTypeOK, ReplaysRevoked, DisabledHasNoSession
  <1> QED
    BY <1>2, <1>6, <1>7, <1>8, <1>9 DEF SInv

\* Whatever a call decided, its commit keeps the invariant.
LEMMA CommitSInv == ASSUME SInv, NEW c \in Calls, Commit(c) PROVE SInv'
  <1> DEFINE f == call[c].family
             t == call[c].token
  <1>1. /\ call[c].phase = "locked" /\ lock' = IF lock = c THEN NoCall ELSE lock
        /\ UNCHANGED account /\ UNCHANGED browser
    BY DEF Commit
  <1>2. CASE call[c].verdict = "deny" /\ Reply(c, f, t) /\ UNCHANGED <<family, token, replayed>>
    BY <1>1, <1>2, DenySInv DEF store
  <1>3. CASE call[c].verdict = "logout" /\ Reply(c, f, t) /\ EndFamily(f)
    <2> DEFINE r == IF family[f].revoked = "no" /\ family[f].exists THEN "logout"
                    ELSE family[f].revoked
    <2>1. f \in Families /\ family[f] \in Family
      BY <1>1, <1>3 DEF SInv, SessionsTypeOK, VerdictsHold, Holds
    <2>2. /\ r \in {"no", "logout", "refresh_replay", "user_disabled"}
          /\ family[f].revoked # "no" => r # "no"
      BY <2>1 DEF Family
    <2>3. family' = [family EXCEPT ![f].revoked = r] /\ UNCHANGED <<token, replayed>>
      BY <1>3, <2>1 DEF EndFamily
    <2> HIDE DEF r
    <2> QED
      BY <1>1, <1>3, <2>1, <2>2, <2>3, RevokeSInv
  <1>4. CASE /\ call[c].verdict = "replay" /\ ReplayRevokes(f)
             /\ replayed' = replayed \cup {f} /\ Reply(c, f, t) /\ UNCHANGED token
    <2>1. f \in Families
      BY <1>1, <1>4 DEF SInv, VerdictsHold, Holds
    <2>2. family' = [family EXCEPT ![f].revoked = "refresh_replay"]
      BY <1>4 DEF ReplayRevokes
    <2> QED
      BY <1>1, <1>4, <2>1, <2>2, RevokeSInv
  <1>5. CASE /\ call[c].verdict = "rotate"
             /\ \E new \in Tokens : NextToken(new) /\ Rotate(f, t, new) /\ Reply(c, f, new)
    BY <1>1, <1>5, RotateSInv
  <1>6. CASE /\ call[c].verdict = "login"
             /\ \E g \in Families, new \in Tokens :
                  /\ NextFamily(g) /\ NextToken(new)
                  /\ StartFamily(g, new) /\ Reply(c, g, new)
    BY <1>1, <1>6, LoginSInv
  <1> QED
    BY <1>2, <1>3, <1>4, <1>5, <1>6 DEF Commit

\* Operator commands and the end of a family.
LEMMA OperatorSInv == ASSUME SInv, OperatorStep PROVE SInv'
  <1> USE DEF SInv
  <1>1. UNCHANGED <<lock, call, cookie, webLock, tab>>
    BY DEF OperatorStep, CreateUser, DisableUser, FamilyExpires, Cleanup, browser
  <1>2. LockOwned' /\ CallsNamed'
    BY <1>1 DEF LockOwned, CallsNamed
  <1>3. CASE CreateUser
    <2>1. UNCHANGED <<family, token, replayed>> /\ account = "none" /\ account' = "active"
      BY <1>3 DEF CreateUser
    <2>2. SessionsTypeOK'
      BY <1>1, <2>1 DEF SessionsTypeOK
    <2>3. VerdictsHold' /\ TokensPlaced' /\ Chains' /\ ReplaysRevoked' /\ DisabledHasNoSession'
      BY <1>1, <2>1 DEF VerdictsHold, Holds, TokensPlaced, Chains, TokensOf, ReplaysRevoked,
                        DisabledHasNoSession
    <2> QED
      BY <1>2, <2>2, <2>3
  <1>4. CASE DisableUser
    <2>1. /\ UNCHANGED <<token, replayed>> /\ account' = "disabled" /\ lock = NoCall
          /\ family' = [g \in Families |->
                IF family[g].exists /\ family[g].revoked = "no"
                THEN [family[g] EXCEPT !.revoked = "user_disabled"] ELSE family[g]]
      BY <1>4 DEF DisableUser
    <2>2. /\ family' \in [Families -> Family]
          /\ \A g \in Families : /\ family'[g].exists = family[g].exists
                                 /\ family[g].revoked # "no" => family'[g].revoked # "no"
                                 /\ family[g].exists => family'[g].revoked # "no"
      BY <2>1 DEF SessionsTypeOK, Family
    <2>3. SessionsTypeOK'
      BY <1>1, <2>1, <2>2 DEF SessionsTypeOK
    <2>4. \A c \in Calls : call[c].phase # "locked"
      BY <2>1, NobodyAssumption DEF LockOwned
    <2>5. VerdictsHold'
      BY <1>1, <2>4 DEF VerdictsHold
    <2>6. TokensPlaced'
      BY <2>1, <2>2, Numbering DEF SessionsTypeOK, TokensPlaced, Token
    <2>7. Chains'
      BY <2>1, <2>2 DEF Chains, TokensOf
    <2>8. ReplaysRevoked' /\ DisabledHasNoSession'
      BY <2>1, <2>2 DEF SessionsTypeOK, ReplaysRevoked, DisabledHasNoSession
    <2> QED
      BY <1>2, <2>3, <2>5, <2>6, <2>7, <2>8
  <1>5. ASSUME NEW f \in Families, FamilyExpires(f) PROVE SInv'
    <2>1. /\ UNCHANGED <<account, token, replayed>>
          /\ family' = [family EXCEPT ![f].expired = TRUE]
      BY <1>5 DEF FamilyExpires
    <2>2. /\ family' \in [Families -> Family]
          /\ \A g \in Families : /\ family'[g].exists = family[g].exists
                                 /\ family'[g].revoked = family[g].revoked
      BY <2>1 DEF SessionsTypeOK, Family
    <2>3. SessionsTypeOK'
      BY <1>1, <2>1, <2>2 DEF SessionsTypeOK
    <2>4. VerdictsHold'
      BY <1>1, <2>1, <2>2 DEF VerdictsHold, Holds
    <2>5. TokensPlaced'
      BY <2>1, <2>2, Numbering DEF SessionsTypeOK, TokensPlaced, Token
    <2>6. Chains'
      BY <2>1, <2>2 DEF Chains, TokensOf
    <2>7. ReplaysRevoked' /\ DisabledHasNoSession'
      BY <2>1, <2>2 DEF SessionsTypeOK, ReplaysRevoked, DisabledHasNoSession
    <2> QED
      BY <1>2, <2>3, <2>4, <2>5, <2>6, <2>7
  <1>6. ASSUME NEW f \in Families, Cleanup(f) PROVE SInv'
    <2>1. /\ UNCHANGED <<account, replayed>>
          /\ \A c \in Calls : lock = c => call[c].family # f
          /\ family' = [family EXCEPT ![f].exists = FALSE]
          /\ token' = [t \in Tokens |->
                IF token[t].family = f
                THEN [token[t] EXCEPT !.family = 0, !.consumed = TRUE] ELSE token[t]]
      BY <1>6 DEF Cleanup
    <2>2. /\ family' \in [Families -> Family]
          /\ ~family'[f].exists
          /\ \A g \in Families : /\ g # f => family'[g] = family[g]
                                 /\ family'[g].revoked = family[g].revoked
      BY <2>1 DEF SessionsTypeOK, Family
    <2>3. /\ token' \in [Tokens -> Token]
          /\ \A t \in Tokens : /\ token[t].family = f => token'[t].family = 0
                               /\ token[t].family # f => token'[t] = token[t]
      <3> DEFINE gone(t) == [token[t] EXCEPT !.family = 0, !.consumed = TRUE]
      <3>1. 0 \in 0 .. MaxFamilies
        BY Numbering
      <3>2. ASSUME NEW t \in Tokens
            PROVE  gone(t) \in Token /\ gone(t).family = 0 /\ token[t] \in Token
        BY <3>1 DEF SessionsTypeOK, Token
      <3>3. token' = [t \in Tokens |-> IF token[t].family = f THEN gone(t) ELSE token[t]]
        BY <2>1
      <3> HIDE DEF gone
      <3> QED
        BY <3>2, <3>3
    <2>4. SessionsTypeOK'
      BY <1>1, <2>1, <2>2, <2>3 DEF SessionsTypeOK
    <2>5. VerdictsHold'
      <3> SUFFICES ASSUME NEW c \in Calls, call[c].phase = "locked" PROVE Holds(c)'
        BY <1>1 DEF VerdictsHold
      <3>1. Holds(c) /\ call[c].family # f /\ call'[c] = call[c]
        BY <1>1, <2>1 DEF LockOwned, VerdictsHold
      <3> QED
        BY ZenonT(40), <2>1, <2>2, <2>3, <3>1 DEF Holds
    <2>6. TokensPlaced'
      BY <2>2, <2>3, Numbering DEF SessionsTypeOK, TokensPlaced, Token
    <2>7. ASSUME NEW g \in Families, g # f PROVE TokensOf(g)' = TokensOf(g)
      <3>1. g # 0
        BY Numbering
      <3> QED
        BY <2>3, <2>7, <3>1 DEF TokensOf
    <2>8. \A g \in Families, t \in Tokens : g # f /\ t \in TokensOf(g) => token'[t] = token[t]
      BY <2>3 DEF TokensOf
    <2>9. \A g \in Families : TokensOf(g) \subseteq Tokens
      BY DEF TokensOf
    <2>10. Chains'
      <3> SUFFICES ASSUME NEW g \in Families, family'[g].exists
                   PROVE  /\ \E t \in TokensOf(g)' : ~token'[t].consumed
                          /\ \A t, u \in TokensOf(g)' :
                               ~token'[t].consumed /\ ~token'[u].consumed => t = u
                          /\ \A t \in TokensOf(g)' : token'[t].consumed
                                => token'[t].successor \in TokensOf(g)'
        BY DEF Chains
      <3>1. g # f /\ family[g].exists
        BY <2>2
      <3> QED
        BY <2>7, <2>8, <2>9, <3>1 DEF Chains
    <2>11. ReplaysRevoked' /\ DisabledHasNoSession'
      BY <2>1, <2>2 DEF SessionsTypeOK, ReplaysRevoked, DisabledHasNoSession
    <2> QED
      BY <1>2, <2>4, <2>5, <2>6, <2>10, <2>11
  <1> QED
    BY <1>3, <1>4, <1>5, <1>6 DEF OperatorStep

\* Every step keeps the invariant of the server.
LEMMA NextSInv == ASSUME SInv, [Next]_vars PROVE SInv'
  <1>1. CASE UNCHANGED vars
    BY <1>1, QuietStep DEF vars, store, SInv, SessionsTypeOK
  <1>2. ASSUME NEW t \in Tabs,
               \/ WantRenewal(t) \/ SignIn(t) \/ SignOut(t)
               \/ TabStep(t) \/ Reload(t) \/ RecheckFails(t)
        PROVE  SInv'
    BY <1>2, TabSInv, SendSInv, ReloadSInv DEF TabStep
  <1>3. ASSUME NEW c \in Calls, CallStep(c) \/ LoseReply(c) \/ Abandon(c) PROVE SInv'
    BY <1>3, IdentifySInv, LockSInv, CommitSInv, AnswerSInv, AbandonSInv DEF CallStep
  <1>4. CASE AccessExpires
    BY <1>4, QuietStep DEF AccessExpires, SInv, SessionsTypeOK, store
  <1>5. CASE OperatorStep
    BY <1>5, OperatorSInv
  <1> QED
    BY <1>1, <1>2, <1>3, <1>4, <1>5 DEF Next

-----------------------------------------------------------------------------
(* The browser *)

\* Nothing happened yet.
LEMMA InitBInv == Init => BInv
  BY Blanks, NobodyAssumption
  DEF Init, BInv, WebLockHeld, Calm, Awaited, Unspent, FreeCall, NewTab, NoCookie

\* Two tabs never have a call at the server at once.
LEMMA OneCall ==
  ASSUME SInv, BInv, faults = 0, NEW c \in Calls, NEW d \in Calls,
         call[c].phase # "free", call[d].phase # "free"
  PROVE  c = d
  BY DEF BInv, WebLockHeld, Calm, Awaited

\* A tab asks for the lock, gets it, or finds the session renewed.
LEMMA TabBInv ==
  ASSUME SInv, BInv, NEW t \in Tabs,
         WantRenewal(t) \/ SignIn(t) \/ SignOut(t) \/ Acquire(t) \/ Recheck(t) \/ RecheckFails(t)
  PROVE  BInv'
  <1> USE NobodyAssumption DEF BInv, SInv, SessionsTypeOK
  <1>1. /\ UNCHANGED <<store, lock, call, cookie>>
        /\ faults' = faults \/ faults' = faults + 1
    BY DEF WantRenewal, SignIn, SignOut, Want, Acquire, Recheck, RecheckFails, Fault
  <1>2. faults' \in Nat /\ (faults' = 0 => faults = 0)
    BY <1>1
  <1>3. faults' = 0 => Calm'
    BY <1>1, <1>2 DEF Calm, Awaited, Unspent, store
  <1>4. CASE WantRenewal(t) \/ SignIn(t) \/ SignOut(t)
    <2>1. \A u \in Tabs : /\ u # t => tab'[u] = tab[u]
                          /\ tab[t].phase = "idle" /\ tab'[t].phase = "waiting"
      BY <1>4 DEF WantRenewal, SignIn, SignOut, Want, Tab
    <2>2. UNCHANGED <<call, webLock>>
      BY <1>4 DEF WantRenewal, SignIn, SignOut, Want
    <2>3. \A c \in Calls : call[c].tab # NoTab => call[c].tab \in Tabs
      BY DEF Call
    <2>4. WebLockHeld'
      BY <2>1, <2>2, <2>3 DEF WebLockHeld
    <2> QED
      BY <1>2, <1>3, <2>4
  <1>5. CASE Acquire(t) \/ Recheck(t) \/ RecheckFails(t)
    <2>1. /\ \A u \in Tabs : u # t => tab'[u] = tab[u]
          /\ \/ tab[t].phase = "waiting" /\ webLock = NoTab /\ webLock' = t
             \/ /\ tab[t].phase = "recheck"
                /\ \/ tab'[t].phase = "idle" /\ webLock' = NoTab
                   \/ tab'[t].phase = "calling" /\ webLock' = webLock
      BY <1>5 DEF Acquire, Recheck, RecheckFails, Tab
    <2>2. \A c \in Calls : call[c].tab # NoTab => call[c].tab \in Tabs
      BY DEF Call
    <2>3. \A c \in Calls : call[c].phase # "free" => call[c].tab = NoTab
      BY <2>1, <2>2 DEF WebLockHeld
    <2>4. \A u \in Tabs : u # t => tab[u].phase \notin {"recheck", "calling"}
      BY <2>1 DEF WebLockHeld
    <2>5. tab'[t].phase \in {"recheck", "calling"} => webLock' = t
      BY <2>1 DEF WebLockHeld
    <2>6. WebLockHeld'
      BY <1>1, <2>1, <2>3, <2>4, <2>5 DEF WebLockHeld
    <2> QED
      BY <1>2, <1>3, <2>6
  <1> QED
    BY <1>4, <1>5

\* The holder of the lock sends the only request, with the cookie of the moment.
LEMMA SendBInv ==
  ASSUME SInv, BInv, NEW t \in Tabs, NEW c \in Calls, Send(t, c) PROVE BInv'
  <1> USE NobodyAssumption DEF BInv, SInv, SessionsTypeOK
  <1> DEFINE x == [FreeCall EXCEPT !.phase = "sent", !.tab = t, !.op = tab[t].op,
                                   !.token = cookie.refresh, !.family = cookie.access]
  <1>1. /\ call' = [call EXCEPT ![c] = x] /\ call[c].phase = "free"
        /\ \A d \in Calls : call[d].tab # t
        /\ tab[t].phase = "calling" /\ webLock = t
        /\ UNCHANGED store /\ UNCHANGED <<cookie, tab, webLock, faults>>
    BY Blanks DEF Send, browser, WebLockHeld
  <1>2. /\ x.phase = "sent" /\ x.tab = t /\ x.token = cookie.refresh
        /\ x.verdict = "none"
    BY DEF FreeCall
  <1> HIDE DEF x
  <1>3. call'[c] = x /\ \A d \in Calls : d # c => call'[d] = call[d]
    BY <1>1
  <1>4. WebLockHeld'
    BY <1>1, <1>2, <1>3 DEF WebLockHeld
  <1>5. ASSUME faults = 0 PROVE Calm'
    <2>1. \A d \in Calls : call[d].phase = "free" /\ call[d].tab = NoTab
      BY <1>1, <1>5 DEF Calm, Awaited, WebLockHeld
    <2>2. Unspent(cookie.refresh)
      BY <1>5, <2>1 DEF Calm
    <2> QED
      BY <1>1, <1>2, <1>3, <1>5, <2>1, <2>2 DEF Calm, Awaited, Unspent, store
  <1> QED
    BY <1>1, <1>4, <1>5

\* The answer ends the operation of the tab, and brings the token it issued.
LEMMA DeliverBInv == ASSUME SInv, BInv, NEW c \in Calls, Deliver(c) PROVE BInv'
  <1> USE NobodyAssumption DEF BInv, SInv, SessionsTypeOK
  <1> DEFINE t == call[c].tab
  <1>1. /\ call[c].phase = "answered" /\ t \in Tabs /\ t # NoTab
        /\ webLock = t /\ webLock' = NoTab
        /\ cookie' = CookieAfter(call[c])
        /\ call' = [call EXCEPT ![c] = FreeCall]
        /\ UNCHANGED store /\ UNCHANGED faults
    BY DEF Deliver, WebLockHeld, WebLockAfter, Call
  <1>2. /\ call'[c] = FreeCall /\ call'[c].phase = "free" /\ call'[c].tab = NoTab
        /\ \A d \in Calls : d # c => call'[d] = call[d]
    BY <1>1, Blanks
  <1>3. \A u \in Tabs : tab'[u].phase \notin {"recheck", "calling"}
    <2>1. \A u \in Tabs : u # t => tab[u].phase \notin {"recheck", "calling"}
      BY <1>1 DEF WebLockHeld
    <2>2. CASE tab' = Broadcast
      BY <2>2, Blanks DEF Broadcast
    <2>3. CASE tab' # Broadcast
      <3>1. \E y : tab' = [tab EXCEPT ![t] = y] /\ y.phase = "idle"
        <4> DEFINE refused == IF call[c].op = "refresh" THEN call[c].verdict = "error"
                             ELSE tab[t].failed
                   y == [tab[t] EXCEPT !.phase = "idle", !.failed = refused]
        <4>1. tab' = [tab EXCEPT ![t] = y]
          BY <1>1, <2>3 DEF Deliver
        <4>2. tab[t] \in Tab
          BY <1>1
        <4> HIDE DEF refused
        <4>3. y.phase = "idle"
          BY <4>2 DEF Tab
        <4> QED
          BY <4>1, <4>3
      <3> QED
        BY <1>1, <2>1, <3>1
    <2> QED
      BY <2>2, <2>3
  <1>4. \A d \in Calls : d # c /\ call[d].phase # "free" => call[d].tab = NoTab
    BY <1>1 DEF WebLockHeld
  <1>5. WebLockHeld'
    BY <1>1, <1>2, <1>3, <1>4 DEF WebLockHeld
  <1>6. ASSUME faults = 0 PROVE Calm'
    <2>1. \A d \in Calls : d # c => call[d].phase = "free" /\ call[d].tab = NoTab
      BY <1>1, <1>4, <1>6 DEF Calm, Awaited
    <2>2. Unspent(cookie'.refresh)
      <3>1. Awaited(c)
        BY <1>1, <1>6 DEF Calm
      <3> QED
        BY <1>1, <3>1, Blanks DEF Awaited, CookieAfter, Unspent
    <2> QED
      BY <1>1, <1>2, <1>6, <2>1, <2>2 DEF Calm, Unspent, store
  <1> QED
    BY <1>1, <1>5, <1>6

\* A lost reply and an abandoned call are faults, and keep their tab.
LEMMA FaultBInv ==
  ASSUME SInv, BInv, NEW c \in Calls, LoseReply(c) \/ Abandon(c) PROVE BInv'
  <1> USE NobodyAssumption DEF BInv, SInv, SessionsTypeOK
  <1>1. faults' \in Nat /\ faults' # 0 /\ UNCHANGED <<webLock, tab>>
    BY DEF LoseReply, Abandon, Fault, browser
  <1>2. PICK y : /\ call' = [call EXCEPT ![c] = y] /\ call[c].phase # "free"
                 /\ y.tab = call[c].tab
    <2>1. CASE LoseReply(c)
      <3> DEFINE y == [call[c] EXCEPT !.verdict = "error"]
      <3>1. y.tab = call[c].tab /\ call' = [call EXCEPT ![c] = y] /\ call[c].phase # "free"
        BY <2>1 DEF LoseReply, Call
      <3> QED
        BY <3>1
    <2>2. CASE Abandon(c)
      <3> DEFINE y == IF call[c].tab = NoTab THEN FreeCall
                      ELSE [call[c] EXCEPT !.phase = "answered", !.verdict = "error"]
      <3>1. y.tab = call[c].tab
        BY Blanks DEF Call
      <3>2. call' = [call EXCEPT ![c] = y] /\ call[c].phase # "free"
        BY <2>2 DEF Abandon
      <3> QED
        BY <3>1, <3>2
    <2> QED
      BY <2>1, <2>2
  <1>3. \A d \in Calls : call'[d].tab = call[d].tab /\ (d # c => call'[d] = call[d])
    BY <1>2
  <1>4. WebLockHeld'
    BY <1>1, <1>2, <1>3 DEF WebLockHeld
  <1> QED
    BY <1>1, <1>4

\* A reload is a fault unless the tab has no call; then nothing at the server moves.
LEMMA ReloadBInv == ASSUME SInv, BInv, NEW t \in Tabs, Reload(t) PROVE BInv'
  <1> USE NobodyAssumption DEF BInv, SInv, SessionsTypeOK
  <1>1. /\ tab' = [tab EXCEPT ![t] = NewTab] /\ tab'[t].phase = "idle"
        /\ webLock' = IF webLock = t THEN NoTab ELSE webLock
        /\ UNCHANGED store /\ UNCHANGED cookie
        /\ faults' \in Nat /\ (faults' = 0 => faults = 0)
    BY Blanks DEF Reload, Fault
  <1>2. \A c \in Calls : /\ call[c].tab = t => call'[c].tab = NoTab
                         /\ call[c].tab # t => call'[c] = call[c]
                         /\ call'[c].phase = call[c].phase
    BY DEF Reload, Call
  <1>3. WebLockHeld'
    <2>1. \A u \in Tabs : u # t => tab'[u] = tab[u]
      BY <1>1
    <2>2. \A u \in Tabs : tab'[u].phase \in {"recheck", "calling"} => webLock' = u
      BY <1>1, <2>1 DEF WebLockHeld
    <2>3. \A c \in Calls : call'[c].tab # NoTab =>
            call'[c] = call[c] /\ call[c].tab # t /\ call[c].tab \in Tabs
      BY <1>2 DEF Call
    <2> QED
      BY <1>1, <1>2, <2>1, <2>2, <2>3 DEF WebLockHeld
  <1>4. ASSUME faults' = 0 PROVE Calm'
    <2>1. \A c \in Calls : call[c].tab # t
      BY <1>4 DEF Reload, Fault
    <2>2. \A c \in Calls : call'[c] = call[c]
      BY <1>2, <2>1
    <2> QED
      BY <1>1, <1>4, <2>2 DEF Calm, Awaited, Unspent, store
  <1> QED
    BY <1>1, <1>3, <1>4

\* Time and the operator change no token that a family still waits for.
LEMMA OutsideBInv == ASSUME SInv, BInv, AccessExpires \/ OperatorStep PROVE BInv'
  <1> USE DEF BInv, SInv, SessionsTypeOK
  <1>1. /\ UNCHANGED <<call, webLock, tab, faults, replayed>> /\ cookie'.refresh = cookie.refresh
    BY DEF AccessExpires, OperatorStep, CreateUser, DisableUser, FamilyExpires, Cleanup,
           browser, store
  <1>2. \A x \in 0 .. MaxTokens : Unspent(x) => Unspent(x)'
    <2> SUFFICES ASSUME NEW x \in 0 .. MaxTokens, x # 0, Unspent(x) PROVE Unspent(x)'
      BY DEF Unspent
    <2>1. x \in Tokens
      BY Numbering
    <2>2. token'[x] = token[x] \/ token'[x].family = 0
      <3>1. ASSUME NEW f \in Families, Cleanup(f)
            PROVE  token'[x] = token[x] \/ token'[x].family = 0
        BY <2>1, <3>1 DEF Cleanup, Token
      <3> QED
        BY <3>1 DEF AccessExpires, OperatorStep, CreateUser, DisableUser, FamilyExpires, store
    <2> QED
      BY <2>2 DEF Unspent
  <1>3. /\ cookie.refresh \in 0 .. MaxTokens
        /\ \A c \in Calls : call[c].token \in 0 .. MaxTokens
    BY DEF Call
  <1>4. WebLockHeld'
    BY <1>1 DEF WebLockHeld
  <1>5. ASSUME faults = 0 PROVE Calm'
    <2>1. \A c \in Calls : Awaited(c) => Awaited(c)'
      BY <1>1, <1>2, <1>3 DEF Awaited
    <2>2. Unspent(cookie.refresh) => Unspent(cookie.refresh)'
      BY <1>1, <1>2, <1>3 DEF Unspent
    <2> QED
      BY <1>1, <1>5, <2>1, <2>2 DEF Calm
  <1> QED
    BY <1>1, <1>4, <1>5

\* A call of the browser goes on at the server.
LEMMA CallGoesOn ==
  ASSUME SInv, BInv, NEW c \in Calls, call[c].phase # "free",
         NEW y, call' = [call EXCEPT ![c] = y],
         y.tab = call[c].tab \/ (call[c].tab = NoTab /\ y.tab = NoTab),
         UNCHANGED browser, UNCHANGED faults,
         faults = 0 =>
            /\ replayed' = {}
            /\ y.phase = "free" => y.tab = NoTab
            /\ y.phase # "free" => Awaited(c)'
            /\ y.phase # "answered" => Unspent(cookie.refresh)'
  PROVE  BInv'
  <1> USE DEF BInv, SInv, SessionsTypeOK
  <1>1. /\ call'[c] = y /\ \A d \in Calls : d # c => call'[d] = call[d]
        /\ UNCHANGED <<webLock, tab, cookie>>
    BY DEF browser
  <1>2. WebLockHeld'
    BY <1>1 DEF WebLockHeld
  <1>3. ASSUME faults = 0 PROVE Calm'
    <2>1. \A d \in Calls : d # c => call'[d].phase = "free" /\ call'[d].tab = NoTab
      BY <1>1, <1>3, OneCall DEF Calm
    <2>2. IF call'[c].phase = "free" THEN call'[c].tab = NoTab ELSE Awaited(c)'
      BY <1>1, <1>3
    <2>3. (\A d \in Calls : call'[d].phase # "answered") => Unspent(cookie.refresh)'
      BY <1>1, <1>3
    <2> QED
      BY <1>3, <2>1, <2>2, <2>3 DEF Calm
  <1> QED
    BY <1>2, <1>3

\* Without faults the token of an answer or of the cookie waits to be rotated.
LEMMA CookieUnspent ==
  ASSUME SInv, BInv, faults = 0, NEW c \in Calls, call[c].phase # "free",
         call[c].phase # "answered"
  PROVE  /\ Unspent(cookie.refresh) /\ Awaited(c) /\ replayed = {}
         /\ call[c].op = "refresh" => call[c].token = cookie.refresh
  <1>1. \A d \in Calls : call[d].phase # "answered"
    BY OneCall DEF BInv, Calm, Awaited
  <1> QED
    BY <1>1 DEF BInv, Calm, Awaited

\* Identify, the lock, and dropping an answer that nobody waits for.
LEMMA ServerBInv ==
  ASSUME SInv, BInv, NEW c \in Calls, Identify(c) \/ Lock(c) \/ Drop(c) PROVE BInv'
  <1>1. UNCHANGED store /\ UNCHANGED browser /\ UNCHANGED faults /\ call[c].phase # "free"
    BY DEF Identify, Lock, Drop
  <1>2. call[c] \in Call /\ call \in [Calls -> Call]
    BY DEF SInv, SessionsTypeOK
  <1>3. /\ UNCHANGED <<replayed, token, cookie>>
        /\ Unspent(cookie.refresh) => Unspent(cookie.refresh)'
    BY <1>1 DEF store, browser, Unspent
  <1>4. CASE Identify(c)
    <2>1. PICK y : /\ call' = [call EXCEPT ![c] = y]
                   /\ y.tab = call[c].tab /\ y.op = call[c].op /\ y.token = call[c].token
                   /\ y.phase \in {"known", "answered"}
                   /\ y.phase = "known" => y.verdict = call[c].verdict
                   /\ y.phase = "answered" => y.verdict \in {"deny", "logout"}
      <3> DEFINE t == call[c].token
                 known == IF t # 0 /\ token[t].family # 0 THEN token[t].family
                          ELSE IF call[c].op = "logout" THEN call[c].family ELSE 0
                 a == [call[c] EXCEPT !.phase = "known", !.family = known]
                 b == [call[c] EXCEPT !.phase = "answered",
                         !.verdict = IF call[c].op = "logout" THEN "logout" ELSE "deny"]
      <3>1. call' = [call EXCEPT ![c] = IF known # 0 THEN a ELSE b]
        BY <1>4 DEF Identify
      <3> HIDE DEF known
      <3>2. /\ a.tab = call[c].tab /\ a.op = call[c].op /\ a.token = call[c].token
            /\ a.phase = "known" /\ a.verdict = call[c].verdict
        BY <1>2 DEF Call
      <3>3. /\ b.tab = call[c].tab /\ b.op = call[c].op /\ b.token = call[c].token
            /\ b.phase = "answered" /\ b.verdict \in {"deny", "logout"}
        BY <1>2 DEF Call
      <3> HIDE DEF a, b
      <3>4. CASE known # 0
        BY <3>1, <3>2, <3>4
      <3>5. CASE known = 0
        BY <3>1, <3>3, <3>5
      <3> QED
        BY <3>4, <3>5
    <2>2. call'[c] = y /\ call[c].phase # "answered"
      BY <1>2, <1>4, <2>1 DEF Identify
    <2>3. ASSUME faults = 0
          PROVE  replayed' = {} /\ Awaited(c)' /\ Unspent(cookie.refresh)'
      BY <1>1, <1>3, <2>1, <2>2, <2>3, CookieUnspent DEF Awaited
    <2> QED
      BY <1>1, <2>1, <2>3, CallGoesOn
  <1>5. CASE Lock(c)
    <2>1. PICK password \in BOOLEAN :
            call' = [call EXCEPT ![c].phase = "locked", ![c].verdict =
               CASE call[c].op = "login" -> LoginVerdict(password)
                 [] call[c].op = "logout" -> "logout"
                 [] call[c].op = "refresh" -> RefreshVerdict(call[c].token, call[c].family)]
      BY <1>5 DEF Lock
    <2> DEFINE v == CASE call[c].op = "login" -> LoginVerdict(password)
                      [] call[c].op = "logout" -> "logout"
                      [] call[c].op = "refresh" ->
                           RefreshVerdict(call[c].token, call[c].family)
               y == [call[c] EXCEPT !.phase = "locked", !.verdict = v]
    <2>2. call' = [call EXCEPT ![c].phase = "locked", ![c].verdict = v]
      BY <2>1
    <2>3. call[c].op \in {"login", "logout", "refresh"}
      BY <1>2 DEF Call
    <2>4. /\ v # "error"
          /\ v = "replay" =>
               /\ call[c].op = "refresh"
               /\ token[call[c].token].family = call[c].family
               /\ token[call[c].token].consumed
      BY <2>3 DEF LoginVerdict, RefreshVerdict
    <2> HIDE DEF v
    <2>5. call' = [call EXCEPT ![c] = y]
      BY <1>2, <2>2
    <2>6. /\ y.tab = call[c].tab /\ y.op = call[c].op /\ y.token = call[c].token
          /\ y.phase = "locked" /\ y.verdict = v
      BY <1>2 DEF Call
    <2> HIDE DEF y
    <2>7. /\ call'[c] = y /\ call[c].phase # "answered"
          /\ call[c].op = "refresh" => call[c].phase = "known"
      BY <1>2, <1>5, <2>5 DEF Lock
    <2>8. ASSUME faults = 0
          PROVE  replayed' = {} /\ Awaited(c)' /\ Unspent(cookie.refresh)'
      <3>1. /\ Unspent(cookie.refresh) /\ Awaited(c) /\ replayed = {}
            /\ call[c].op = "refresh" => call[c].token = cookie.refresh
        BY <1>1, <2>7, <2>8, CookieUnspent
      <3>2. v # "replay"
        <4> SUFFICES ASSUME v = "replay" PROVE FALSE
          OBVIOUS
        <4>1. call[c].op = "refresh" /\ call[c].token \in Tokens /\ call[c].family \in Families
          BY <2>4, <2>7 DEF SInv, CallsNamed
        <4> QED
          BY <2>4, <3>1, <4>1, Numbering DEF Unspent
      <3> QED
        BY <1>3, <2>4, <2>6, <2>7, <3>1, <3>2 DEF Awaited
    <2> QED
      BY <1>1, <2>5, <2>6, <2>8, CallGoesOn
  <1>6. CASE Drop(c)
    <2>1. call[c].tab = NoTab /\ call' = [call EXCEPT ![c] = FreeCall]
      BY <1>6 DEF Drop
    <2>2. faults # 0
      BY <1>1, <2>1 DEF BInv, Calm, Awaited
    <2> QED
      BY <1>1, <2>1, <2>2, Blanks, CallGoesOn
  <1> QED
    BY <1>4, <1>5, <1>6

\* A commit answers with the token it issued, and consumes none but the cookie's.
LEMMA CommitBInv == ASSUME SInv, BInv, NEW c \in Calls, Commit(c) PROVE BInv'
  <1>1. /\ call[c].phase = "locked" /\ UNCHANGED browser /\ UNCHANGED faults
        /\ call[c] \in Call /\ call \in [Calls -> Call]
    BY DEF Commit, SInv, SessionsTypeOK
  <1>2. ASSUME NEW f, NEW t, Reply(c, f, t),
               faults = 0 =>
                  /\ UNCHANGED replayed
                  /\ call[c].verdict \in {"rotate", "login"} => ~token'[t].consumed
                  /\ call[c].verdict \notin {"rotate", "login"} => Unspent(cookie.refresh)'
        PROVE  BInv'
    <2> DEFINE y == IF call[c].tab = NoTab THEN FreeCall
                    ELSE [call[c] EXCEPT !.phase = "answered", !.family = f, !.token = t]
    <2>1. call' = [call EXCEPT ![c] = y]
      BY <1>2 DEF Reply
    <2>2. /\ call[c].tab = NoTab => y.tab = NoTab
          /\ call[c].tab # NoTab => /\ y.phase = "answered" /\ y.token = t
                                    /\ y.tab = call[c].tab /\ y.verdict = call[c].verdict
      BY <1>1, Blanks DEF Call
    <2> HIDE DEF y
    <2>3. call'[c] = y
      BY <1>1, <2>1
    <2>4. ASSUME faults = 0
          PROVE  replayed' = {} /\ Awaited(c)' /\ y.phase = "answered"
      <3>1. Awaited(c) /\ replayed = {} /\ call[c].tab # NoTab
        BY <1>1, <2>4, CookieUnspent DEF Awaited
      <3>2. /\ call'[c].phase = "answered" /\ call'[c].token = t
            /\ call'[c].tab = call[c].tab /\ call'[c].verdict = call[c].verdict
        BY <2>2, <2>3, <3>1
      <3> QED
        BY <1>1, <1>2, <2>2, <2>4, <3>1, <3>2 DEF Awaited, Unspent, browser
    <2> QED
      BY <1>1, <2>1, <2>2, <2>4, CallGoesOn
  <1>3. faults = 0 => Unspent(cookie.refresh) /\ call[c].verdict # "replay"
    BY <1>1, CookieUnspent DEF Awaited
  <1>4. ASSUME call[c].verdict \in {"deny", "logout", "replay"},
               Reply(c, call[c].family, call[c].token), UNCHANGED token,
               call[c].verdict # "replay" => UNCHANGED replayed
        PROVE  BInv'
    <2>1. faults = 0 => UNCHANGED replayed /\ Unspent(cookie.refresh)'
      BY <1>1, <1>3, <1>4 DEF Unspent, browser
    <2> QED
      BY <1>2, <1>4, <2>1
  <1>5. ASSUME NEW new \in Tokens, NextToken(new), call[c].verdict = "rotate",
               Rotate(call[c].family, call[c].token, new), Reply(c, call[c].family, new)
        PROVE  BInv'
    <2>1. /\ call[c].token \in Tokens /\ token[call[c].token].family = call[c].family
          /\ call[c].family \in Families
      BY <1>1, <1>5 DEF SInv, VerdictsHold, Holds
    <2>2. token[new] = NoToken /\ new # call[c].token
      BY <2>1, Blanks, Numbering, <1>5 DEF NextToken
    <2>3. ~token'[new].consumed /\ UNCHANGED replayed
      BY <1>5, <2>1, <2>2, Blanks DEF Rotate, SInv, SessionsTypeOK, Token
    <2> QED
      BY <1>2, <1>5, <2>3
  <1>6. ASSUME NEW g \in Families, NEW new \in Tokens, NextToken(new),
               call[c].verdict = "login", StartFamily(g, new), Reply(c, g, new)
        PROVE  BInv'
    <2>1. ~token'[new].consumed /\ UNCHANGED replayed
      BY <1>6, Blanks DEF NextToken, StartFamily, SInv, SessionsTypeOK, Token
    <2> QED
      BY <1>2, <1>6, <2>1
  <1> QED
    BY <1>4, <1>5, <1>6 DEF Commit, EndFamily

\* Every step keeps the invariant of the browser.
LEMMA NextBInv == ASSUME SInv, BInv, [Next]_vars PROVE BInv'
  <1>1. CASE UNCHANGED vars
    BY <1>1 DEF vars, BInv, WebLockHeld, Calm, Awaited, Unspent
  <1>2. ASSUME NEW t \in Tabs,
               \/ WantRenewal(t) \/ SignIn(t) \/ SignOut(t)
               \/ TabStep(t) \/ Reload(t) \/ RecheckFails(t)
        PROVE  BInv'
    BY <1>2, TabBInv, SendBInv, ReloadBInv DEF TabStep
  <1>3. ASSUME NEW c \in Calls, CallStep(c) \/ LoseReply(c) \/ Abandon(c) PROVE BInv'
    BY <1>3, ServerBInv, CommitBInv, DeliverBInv, FaultBInv DEF CallStep
  <1>4. CASE AccessExpires \/ OperatorStep
    BY <1>4, OutsideBInv
  <1> QED
    BY <1>1, <1>2, <1>3, <1>4 DEF Next

-----------------------------------------------------------------------------
(* Theorems *)

\* Every reachable state satisfies both invariants.
THEOREM SessionsInvariant == Spec => [](SInv /\ BInv)
  <1>1. Init => SInv /\ BInv
    BY InitSInv, InitBInv
  <1>2. SInv /\ BInv /\ [Next]_vars => (SInv /\ BInv)'
    BY NextSInv, NextBInv
  <1> QED
    BY <1>1, <1>2, PTL DEF Spec

\* The only unconsumed token of a family is one token.
LEMMA ChainsCount == Chains => OneCurrentToken
  <1> SUFFICES ASSUME Chains, NEW f \in Families, family[f].exists
               PROVE  Cardinality({t \in TokensOf(f) : ~token[t].consumed}) = 1
    BY DEF Chains, OneCurrentToken
  <1>1. PICK t \in TokensOf(f) : ~token[t].consumed
    BY DEF Chains
  <1>2. {u \in TokensOf(f) : ~token[u].consumed} = {t}
    BY <1>1 DEF Chains
  <1> QED
    BY <1>2, FS_Singleton

\* However many tabs, reloads and late calls rotate its tokens, every family that
\* exists is one chain that ends in its only unconsumed token (refresh_session and
\* uq_auth_refresh_current).
THEOREM FamiliesAreChains == Spec => []TokensChain
  <1>1. SInv => TokensChain
    BY ChainsCount DEF SInv, TokensChain
  <1> QED
    BY <1>1, SessionsInvariant, PTL

\* A replay ends its family for good, a disabled account has no session, and tabs that
\* work side by side without faults never make a token look replayed (refresh_session,
\* disable_user, renewSession under the Web Lock).
THEOREM SessionsEnd == Spec => []SessionsEndForCause
  <1>1. SInv /\ BInv => SessionsEndForCause
    BY DEF SInv, BInv, Calm, ReplaysRevoked, SessionsEndForCause, ReplayEndsFamily, Valid,
           TabsDoNotReplay
  <1> QED
    BY <1>1, SessionsInvariant, PTL

\* An ended family and its tokens, over one step.
Frozen(f) ==
    /\ TokensOf(f)' = TokensOf(f)
    /\ \A t \in TokensOf(f) : token'[t] = token[t]
    /\ family'[f].revoked = family[f].revoked

\* A commit changes the tokens of a family it holds valid, or of one it starts.
LEMMA CommitFreezes ==
  ASSUME SInv, NEW c \in Calls, Commit(c), NEW f \in Families,
         family[f].exists, family[f].revoked # "no"
  PROVE  Frozen(f)
  <1>1. /\ Holds(c) /\ family \in [Families -> Family] /\ token \in [Tokens -> Token]
    BY DEF SInv, SessionsTypeOK, VerdictsHold, Commit
  <1>2. CASE call[c].verdict = "deny"
    BY <1>2 DEF Commit, Frozen, TokensOf
  <1>3. CASE call[c].verdict = "logout"
    BY <1>1, <1>3 DEF Commit, EndFamily, Frozen, TokensOf, Family
  <1>4. CASE call[c].verdict = "replay"
    <2>1. f # call[c].family /\ UNCHANGED token /\ ReplayRevokes(call[c].family)
      BY <1>1, <1>4 DEF Holds, Commit
    <2> QED
      BY <1>1, <2>1 DEF ReplayRevokes, Frozen, TokensOf
  <1>5. CASE call[c].verdict = "rotate"
    <2>1. PICK new \in Tokens : NextToken(new) /\ Rotate(call[c].family, call[c].token, new)
      BY <1>5 DEF Commit
    <2>2. /\ f # call[c].family /\ call[c].token \in Tokens
          /\ token[call[c].token].family = call[c].family /\ token[new].family = 0
      BY <1>1, <1>5, <2>1, Blanks DEF Holds, NextToken
    <2>3. \A t \in Tokens : t # call[c].token /\ t # new => token'[t] = token[t]
      BY <1>1, <2>1 DEF Rotate
    <2>4. token'[call[c].token].family # f /\ token'[new].family # f
      <3>1. PICK old, g : old = call[c].token /\ g = call[c].family
        OBVIOUS
      <3>2. PICK u \in Token, w \in Token : u = token[old] /\ w = token[new]
        BY <1>1, <2>2, <3>1
      <3>3. PICK v : v = [u EXCEPT !.consumed = TRUE, !.successor = new]
        OBVIOUS
      <3>4. v.family = g
        BY <2>2, <3>1, <3>2, <3>3 DEF Token
      <3>5. old # new
        <4>1. g \in Families
          BY <1>1, <1>5, <3>1 DEF Holds
        <4> QED
          BY <2>2, <3>1, <4>1, Numbering
      <3>6. token'[old] = v /\ token'[new] = [w EXCEPT !.family = g]
        BY <1>1, <2>1, <2>2, <3>1, <3>2, <3>3, <3>5 DEF Rotate
      <3>7. [w EXCEPT !.family = g].family = g
        BY <3>2 DEF Token
      <3> QED
        BY <2>2, <3>1, <3>4, <3>6, <3>7
    <2> QED
      BY <2>1, <2>2, <2>3, <2>4, Numbering DEF Rotate, Frozen, TokensOf
  <1>6. CASE call[c].verdict = "login"
    <2>1. PICK g \in Families, new \in Tokens :
             NextFamily(g) /\ NextToken(new) /\ StartFamily(g, new)
      BY <1>6 DEF Commit
    <2>2. f # g /\ token[new].family = 0
      BY <2>1, Blanks DEF NextFamily, NextToken
    <2>3. /\ \A t \in Tokens : t # new => token'[t] = token[t]
          /\ token'[new].family = g /\ family'[f] = family[f]
      BY <1>1, <2>1, <2>2 DEF StartFamily, Token
    <2> QED
      BY <2>2, <2>3, Numbering DEF Frozen, TokensOf
  <1> QED
    BY <1>2, <1>3, <1>4, <1>5, <1>6 DEF Commit

\* The operator and time end families and delete expired ones.
LEMMA OperatorFreezes ==
  ASSUME SInv, OperatorStep, NEW f \in Families,
         family[f].exists, family[f].revoked # "no", family'[f].exists
  PROVE  Frozen(f)
  <1>1. family \in [Families -> Family] /\ token \in [Tokens -> Token]
    BY DEF SInv, SessionsTypeOK
  <1>2. CASE CreateUser
    BY <1>2 DEF CreateUser, Frozen, TokensOf
  <1>3. CASE DisableUser
    BY <1>1, <1>3 DEF DisableUser, Frozen, TokensOf
  <1>4. ASSUME NEW g \in Families, FamilyExpires(g) PROVE Frozen(f)
    BY <1>1, <1>4 DEF FamilyExpires, Frozen, TokensOf, Family
  <1>5. ASSUME NEW g \in Families, Cleanup(g) PROVE Frozen(f)
    <2>1. g # f
      BY <1>1, <1>5 DEF Cleanup, Family
    <2>2. /\ \A t \in Tokens : token[t].family # g => token'[t] = token[t]
          /\ \A t \in Tokens : token[t].family = g => token'[t].family = 0
          /\ family'[f] = family[f]
      BY <1>1, <1>5, <2>1 DEF Cleanup, Token
    <2> QED
      BY <2>1, <2>2, Numbering DEF Frozen, TokensOf
  <1> QED
    BY <1>2, <1>3, <1>4, <1>5 DEF OperatorStep

\* A family that was ended issues no token, consumes none and keeps its reason,
\* whatever calls were already on their way (refresh_session decides under the row
\* lock, and logout and disable_user leave ended families alone).
THEOREM EndedFamiliesStay == Spec => EndedFamilyIsFrozen
  <1>1. ASSUME SInv, [Next]_vars, NEW f \in Families,
               family[f].exists, family[f].revoked # "no", family'[f].exists
        PROVE  Frozen(f)
    <2>1. CASE UNCHANGED store
      BY <2>1 DEF store, Frozen, TokensOf
    <2>2. CASE UNCHANGED vars
      BY <2>1, <2>2 DEF vars, store
    <2>3. CASE OperatorStep
      BY <1>1, <2>3, OperatorFreezes
    <2>4. ASSUME NEW c \in Calls, Commit(c) PROVE Frozen(f)
      BY <1>1, <2>4, CommitFreezes
    <2>5. ASSUME NEW t \in Tabs,
                 \/ WantRenewal(t) \/ SignIn(t) \/ SignOut(t)
                 \/ TabStep(t) \/ Reload(t) \/ RecheckFails(t)
          PROVE  UNCHANGED store
      BY <2>5 DEF WantRenewal, SignIn, SignOut, Want, TabStep, Acquire, Recheck, Send,
                  Reload, RecheckFails
    <2>6. ASSUME NEW c \in Calls, \/ Identify(c) \/ Lock(c) \/ Drop(c) \/ Deliver(c)
                                  \/ LoseReply(c) \/ Abandon(c)
          PROVE  UNCHANGED store
      BY <2>6 DEF Identify, Lock, Drop, Deliver, LoseReply, Abandon
    <2>7. CASE AccessExpires
      BY <2>1, <2>7 DEF AccessExpires
    <2> QED
      BY <1>1, <2>1, <2>2, <2>3, <2>4, <2>5, <2>6, <2>7 DEF Next, CallStep
  <1>2. SInv /\ [Next]_vars =>
          [\A f \in Families :
             family[f].exists /\ family[f].revoked # "no" /\ family'[f].exists =>
               /\ TokensOf(f)' = TokensOf(f)
               /\ \A t \in TokensOf(f) : token'[t] = token[t]
               /\ family'[f].revoked = family[f].revoked]_vars
    BY <1>1 DEF Frozen
  <1> QED
    BY <1>2, SessionsInvariant, PTL DEF Spec, EndedFamilyIsFrozen

(***************************************************************************)
(* The inventory page                                                      *)
(***************************************************************************)

(* The inductive invariant of the page *)

Answers == {None, Denied} \cup Nat

Rows == {None} \cup Ingredients

Intent ==
    [phase: {"idle", "sent", "refetch", "history", "reload"},
     op: {"none", "post", "update", "recount"}, payload: {None} \cup Payloads, key: Nat,
     row: Rows, gen: Nat, answer: Answers]

\* What a command was answered is of the server's past, a recount's of after the last
\* save that was reported.
CommandSound ==
    /\ command \in Intent
    /\ version \in Nat /\ saved \in 0 .. version
    /\ command.answer \notin {None, Denied} => command.answer \in 0 .. version
    /\ command.op = "recount" /\ command.answer \notin {None, Denied} => saved <= command.answer
    /\ command.phase = "refetch" => command.answer \notin {None, Denied}
    /\ command.phase = "idle" => command.row = None

Post == [payload: Payloads, key: Nat, near: Nat, wide: Nat, live: BOOLEAN]

Movement == [key: Nat, near: Nat, wide: Nat]

\* A key is of one submission and its unchanged repetitions, and recorded once.
KeysSound ==
    /\ keys \in Nat /\ wide \in [Payloads -> Nat]
    /\ posts \subseteq Post /\ recorded \subseteq Movement
    /\ \A x \in posts \cup recorded : x.key \in 1 .. keys /\ x.near \in 1 .. keys
    /\ \A x, y \in posts \cup recorded : x.near = y.near => x.key = y.key
    /\ \A r, s \in recorded : r.key = s.key => r = s
    /\ pending # None => pending.key \in 1 .. keys
    /\ near # None =>
         /\ near.intent \in 1 .. keys
         /\ pending # None /\ pending.payload = near.payload
         /\ \A x \in posts \cup recorded : x.near = near.intent => x.key = pending.key

\* The POST that the page waits for is the one it sent last.
LiveSound ==
    /\ \A p \in posts : p.live =>
         command.phase = "sent" /\ command.op = "post" /\ command.answer = None
    /\ \A p, q \in posts : p.live /\ q.live => p = q

Load == [view: Views, gen: Nat, page: Pages, answer: Answers]

\* The load that counts is for the page that is shown, and not from before a save.
LoadsSound ==
    /\ generation \in [Views -> Nat] /\ page \in [Views -> Pages] /\ loads \subseteq Load
    /\ \A l \in loads :
         /\ l.gen <= generation[l.view]
         /\ l.gen = generation[l.view] => l.page = page[l.view]
         /\ l.view = Items /\ l.gen = generation[Items] /\ l.answer \notin {None, Denied}
              => saved <= l.answer
         /\ denied => l.view = Items /\ l.gen < generation[Items]

DataSound ==
    /\ data \in [Views -> {None} \cup [page: Pages, seen: Answers]]
    /\ AlertsMatchPage
    /\ denied => \A v \in AlertViews : data[v] = None

\* What a command reads again is of the row whose panel is open, or the panel is gone.
PanelsSound ==
    /\ editor \in Rows \cup {New} /\ selected \in Rows
    /\ historyItem \in Rows /\ history \in Rows
    /\ PanelsBelongToOneRow
    /\ denied => editor = None
    /\ command.row # None =>
         historyItem \in {None, command.row} /\ (command.op = "recount" => editor = None)

FlagsSound == access \in BOOLEAN /\ denied \in BOOLEAN /\ loading \in BOOLEAN

ScreenInv ==
    /\ CommandSound /\ KeysSound /\ LiveSound
    /\ LoadsSound /\ DataSound /\ PanelsSound /\ FlagsSound

-----------------------------------------------------------------------------
(* What an action leaves alone stays sound *)

LEMMA CommandStays ==
  ASSUME CommandSound, UNCHANGED <<command, version, saved>>
  PROVE  CommandSound'
  BY DEF CommandSound

\* The page gets a new command that nobody has answered, or none.
LEMMA CommandBegins ==
  ASSUME CommandSound, UNCHANGED <<version, saved>>, command' \in Intent,
         command'.answer = None, command' = Idle \/ command'.phase \in {"sent", "history"}
  PROVE  CommandSound'
  BY DEF CommandSound, Idle

LEMMA KeysStay ==
  ASSUME KeysSound, UNCHANGED <<keys, posts, recorded, pending, near, wide>>
  PROVE  KeysSound'
  BY DEF KeysSound

LEMMA LiveStays ==
  ASSUME LiveSound, UNCHANGED <<posts, command>>
  PROVE  LiveSound'
  BY DEF LiveSound

\* A command that waits for no POST may be replaced.
LEMMA LiveAlone ==
  ASSUME LiveSound, UNCHANGED posts,
         ~ (command.phase = "sent" /\ command.op = "post" /\ command.answer = None)
  PROVE  LiveSound'
  BY DEF LiveSound

LEMMA LoadsStay ==
  ASSUME LoadsSound, UNCHANGED <<generation, page, saved, denied>>, loads' \subseteq loads
  PROVE  LoadsSound'
  BY DEF LoadsSound

LEMMA DataStays ==
  ASSUME DataSound, UNCHANGED <<data, page, denied>>
  PROVE  DataSound'
  BY DEF DataSound, AlertsMatchPage

LEMMA PanelsStay ==
  ASSUME PanelsSound, UNCHANGED <<panels, denied>>,
         command'.row = None \/ (command'.row = command.row /\ command'.op = command.op)
  PROVE  PanelsSound'
  <1>1. UNCHANGED <<editor, selected, historyItem, history>>
    BY DEF panels
  <1>2. PanelsBelongToOneRow'
    BY <1>1 DEF PanelsSound, PanelsBelongToOneRow
  <1> QED
    BY <1>1, <1>2 DEF PanelsSound

LEMMA FlagsStay ==
  ASSUME FlagsSound, UNCHANGED <<access, denied, loading>>
  PROVE  FlagsSound'
  BY DEF FlagsSound

LEMMA IdleIntent ==
  /\ Idle \in Intent /\ Idle.answer = None /\ Idle.phase = "idle" /\ Idle.op = "none"
  /\ Idle.row = None
  BY DEF Idle, Intent, Answers, Rows

LEMMA ViewsAre ==
  /\ Items \in Views /\ Items \notin AlertViews
  /\ \A v \in Views : v # Items => v \in AlertViews
  BY ScreenBounds, ScreenNames DEF Views

-----------------------------------------------------------------------------
(* Loading *)

\* Views ask for their pages: what was asked before no longer counts for them.
LEMMA StartedSound ==
  ASSUME LoadsSound, NEW vs \in SUBSET Views, Started(vs), ~ denied', ~ denied,
         page' \in [Views -> Pages], \A v \in Views \ vs : page'[v] = page[v],
         saved' = saved \/ Items \in vs
  PROVE  LoadsSound'
  <1> DEFINE new == {[view |-> v, gen |-> generation[v] + 1, page |-> page'[v],
                      answer |-> None] : v \in vs}
  <1>1. /\ generation' = [v \in Views |-> generation[v] + (IF v \in vs THEN 1 ELSE 0)]
        /\ loads' = {l \in loads : l.view \in vs => l.view = Items} \cup new
    BY DEF Started
  <1>2. generation \in [Views -> Nat] /\ loads \subseteq Load
    BY DEF LoadsSound
  <1>3. /\ generation' \in [Views -> Nat]
        /\ \A v \in vs : generation'[v] = generation[v] + 1
        /\ \A v \in Views \ vs : generation'[v] = generation[v]
    BY <1>1, <1>2
  <1>4. ASSUME NEW l \in loads'
        PROVE  /\ l \in Load /\ l.gen <= generation'[l.view]
               /\ l.gen = generation'[l.view] => l.page = page'[l.view]
               /\ l.view = Items /\ l.gen = generation'[Items] /\ l.answer \notin {None, Denied}
                    => saved' <= l.answer
    <2>1. CASE l \in new
      <3>1. PICK v \in vs : l = [view |-> v, gen |-> generation[v] + 1, page |-> page'[v],
                                 answer |-> None]
        BY <2>1
      <3>2. v \in Views /\ generation[v] + 1 \in Nat /\ page'[v] \in Pages
        BY <1>2
      <3>3. l \in Load /\ l.view = v /\ l.gen = generation'[v] /\ l.page = page'[v]
            /\ l.answer = None
        BY <1>3, <3>1, <3>2 DEF Load, Answers
      <3> QED
        BY <1>3, <3>2, <3>3
    <2>2. CASE l \notin new
      <3>1. l \in loads /\ l \in Load /\ l.view \in Views /\ l.gen \in Nat
        BY <1>1, <1>2, <2>2 DEF Load
      <3>2. generation[l.view] \in Nat /\ l.gen <= generation[l.view]
        BY <1>2, <3>1 DEF LoadsSound
      <3>3. CASE l.view \in vs
        <4>1. l.gen < generation'[l.view]
          BY <1>3, <3>1, <3>2, <3>3
        <4>2. l.gen # generation'[l.view] /\ l.gen <= generation'[l.view]
          BY <1>3, <3>1, <4>1
        <4> QED
          BY <3>1, <4>2
      <3>4. CASE l.view \notin vs
        <4>1. generation'[l.view] = generation[l.view] /\ page'[l.view] = page[l.view]
          BY <1>3, <3>1, <3>4
        <4>2. l.gen = generation[l.view] => l.page = page[l.view]
          BY <3>1 DEF LoadsSound
        <4>3. l.view = Items /\ l.gen = generation'[Items] /\ l.answer \notin {None, Denied}
                => saved' <= l.answer
          BY <3>1, <3>4, <4>1 DEF LoadsSound
        <4> QED
          BY <3>1, <3>2, <4>1, <4>2, <4>3
      <3> QED
        BY <3>3, <3>4
    <2> QED
      BY <2>1, <2>2
  <1>5. loads' \subseteq Load
    BY <1>4
  <1> HIDE DEF new
  <1> QED
    BY <1>3, <1>4, <1>5 DEF LoadsSound

LEMMA RefreshStep ==
  ASSUME ScreenInv, NEW v \in Views, Refresh(v)
  PROVE  ScreenInv'
  <1>1. /\ ~ denied /\ UNCHANGED page /\ Started({v})
        /\ UNCHANGED <<access, version, recorded, posts, data, loading, panels, denied,
                       command, pending, keys, near, wide, saved>>
    BY DEF Refresh, server, intents
  <1>2. LoadsSound'
    BY <1>1, StartedSound DEF ScreenInv, LoadsSound
  <1> QED
    BY <1>1, <1>2, CommandStays, KeysStay, LiveStays, DataStays, PanelsStay, FlagsStay
       DEF ScreenInv

LEMMA ChangePageStep ==
  ASSUME ScreenInv, NEW v \in Views, NEW p \in Pages, ChangePage(v, p)
  PROVE  ScreenInv'
  <1>1. /\ ~ denied /\ page' = [page EXCEPT ![v] = p] /\ Started({v})
        /\ v = Items => editor = None /\ selected = None /\ ~ Locked
        /\ data' = IF v = Items THEN data ELSE [data EXCEPT ![v] = None]
        /\ loading' = (loading \/ v = Items)
        /\ historyItem' = IF v = Items THEN None ELSE historyItem
        /\ history' = IF v = Items THEN None ELSE history
        /\ UNCHANGED <<access, version, recorded, posts, editor, selected, denied, command,
                       pending, keys, near, wide, saved>>
    BY DEF ChangePage, server, intents
  <1>2. page \in [Views -> Pages] /\ page' \in [Views -> Pages]
        /\ \A w \in Views \ {v} : page'[w] = page[w]
    BY <1>1 DEF ScreenInv, LoadsSound
  <1>3. LoadsSound'
    BY <1>1, <1>2, StartedSound DEF ScreenInv
  <1>4. DataSound'
    <2>1. data \in [Views -> {None} \cup [page: Pages, seen: Answers]]
      BY DEF ScreenInv, DataSound
    <2>2. data' \in [Views -> {None} \cup [page: Pages, seen: Answers]]
      BY <1>1, <2>1
    <2>3. AlertsMatchPage'
      <3> SUFFICES ASSUME NEW w \in AlertViews, data'[w] # None
                   PROVE  data'[w].page = page'[w]
        BY DEF AlertsMatchPage
      <3>1. w \in Views /\ w # Items
        BY ViewsAre DEF Views
      <3>2. w # v
        BY <1>1, <2>1, <3>1
      <3>3. data'[w] = data[w] /\ page'[w] = page[w]
        BY <1>1, <1>2, <2>1, <3>1, <3>2
      <3> QED
        BY <3>3 DEF ScreenInv, DataSound, AlertsMatchPage
    <2> QED
      BY <1>1, <2>2, <2>3 DEF DataSound
  <1>5. PanelsSound'
    <2>1. PanelsBelongToOneRow'
      BY <1>1 DEF ScreenInv, PanelsSound, PanelsBelongToOneRow
    <2>2. command.row # None => historyItem' \in {None, command.row}
      BY <1>1 DEF ScreenInv, PanelsSound
    <2> QED
      BY <1>1, <2>1, <2>2 DEF ScreenInv, PanelsSound, Rows
  <1>6. FlagsSound'
    <2>1. loading' \in BOOLEAN
      <3>1. (loading \/ v = Items) \in BOOLEAN
        OBVIOUS
      <3> QED
        BY <1>1, <3>1, Zenon
    <2> QED
      BY <1>1, <2>1 DEF ScreenInv, FlagsSound
  <1> QED
    BY <1>1, <1>3, <1>4, <1>5, <1>6, CommandStays, KeysStay, LiveStays DEF ScreenInv

LEMMA ExpandStep ==
  ASSUME ScreenInv, Expand
  PROVE  ScreenInv'
  <1>1. /\ ~ denied /\ Past \in Views /\ UNCHANGED page
        /\ \/ loads' \subseteq loads /\ UNCHANGED generation
           \/ Started({Past})
        /\ UNCHANGED <<access, version, recorded, posts, data, loading, panels, denied,
                       command, pending, keys, near, wide, saved>>
    BY DEF Expand, Mounted, Views, server, intents
  <1>2. LoadsSound'
    <2>1. CASE Started({Past})
      BY <1>1, <2>1, StartedSound DEF ScreenInv, LoadsSound
    <2>2. CASE loads' \subseteq loads /\ UNCHANGED generation
      BY <1>1, <2>2, LoadsStay DEF ScreenInv
    <2> QED
      BY <1>1, <2>1, <2>2
  <1> QED
    BY <1>1, <1>2, CommandStays, KeysStay, LiveStays, DataStays, PanelsStay, FlagsStay
       DEF ScreenInv

LEMMA AnswerKnown ==
  ASSUME ScreenInv
  PROVE  Answer \in Answers /\ (Answer \notin {None, Denied} => Answer = version)
  BY DEF ScreenInv, CommandSound, Answer, Answers

LEMMA ServeLoadStep ==
  ASSUME ScreenInv, NEW l \in loads, ServeLoad(l)
  PROVE  ScreenInv'
  <1>1. PICK a : a = Answer
    OBVIOUS
  <1>2. /\ loads' = (loads \ {l}) \cup {[l EXCEPT !.answer = a]}
        /\ UNCHANGED <<access, version, recorded, posts, generation, page, data, loading, panels,
                       denied, command, pending, keys, near, wide, saved>>
    BY <1>1 DEF ServeLoad, server, intents
  <1>3. a \in Answers /\ (a \notin {None, Denied} => a = version)
        /\ saved \in Nat /\ version \in Nat /\ saved <= version
    BY <1>1, AnswerKnown DEF ScreenInv, CommandSound
  <1>4. PICK m : m = [l EXCEPT !.answer = a]
    OBVIOUS
  <1>5. /\ m \in Load /\ m.view = l.view /\ m.gen = l.gen /\ m.page = l.page /\ m.answer = a
    BY <1>3, <1>4 DEF ScreenInv, LoadsSound, Load
  <1>6. LoadsSound'
    <2>1. loads' \subseteq Load
      BY <1>2, <1>4, <1>5 DEF ScreenInv, LoadsSound
    <2>2. ASSUME NEW k \in loads'
          PROVE  /\ k.gen <= generation[k.view]
                 /\ k.gen = generation[k.view] => k.page = page[k.view]
                 /\ k.view = Items /\ k.gen = generation[Items] /\ k.answer \notin {None, Denied}
                      => saved <= k.answer
                 /\ denied => k.view = Items /\ k.gen < generation[Items]
      <3>1. CASE k = m
        BY <1>3, <1>5, <3>1 DEF ScreenInv, LoadsSound
      <3>2. CASE k \in loads
        BY <3>2 DEF ScreenInv, LoadsSound
      <3> QED
        BY <1>2, <1>4, <3>1, <3>2
    <2> QED
      BY <1>2, <2>1, <2>2 DEF ScreenInv, LoadsSound
  <1> QED
    BY <1>2, <1>6, CommandStays, KeysStay, LiveStays, DataStays, PanelsStay, FlagsStay
       DEF ScreenInv

\* Access is lost: nothing is shown, and no load counts any more.
LEMMA AccessLostSound ==
  ASSUME ScreenInv, AccessLost, UNCHANGED <<page, saved>>,
         loads' \subseteq {l \in loads : l.view = Items}
  PROVE  LoadsSound' /\ DataSound' /\ PanelsSound'
  <1>1. /\ denied' = TRUE /\ data' = [v \in Views |-> None]
        /\ generation' = [generation EXCEPT ![Items] = @ + 1]
        /\ editor' = None /\ selected' = None /\ historyItem' = None /\ history' = None
        /\ page' = page /\ saved' = saved
    BY DEF AccessLost
  <1>2. generation \in [Views -> Nat] /\ Items \in Views
    BY ViewsAre DEF ScreenInv, LoadsSound
  <1>3. generation' \in [Views -> Nat] /\ generation'[Items] = generation[Items] + 1
    BY <1>1, <1>2
  <1>4. LoadsSound'
    <2>1. ASSUME NEW l \in loads'
          PROVE  l \in loads /\ l.view = Items /\ l.gen < generation'[Items]
      <3>1. l \in loads /\ l.view = Items /\ l.gen <= generation[Items] /\ l.gen \in Nat
        BY DEF ScreenInv, LoadsSound, Load
      <3> QED
        BY <1>2, <1>3, <3>1
    <2>2. ASSUME NEW l \in loads' PROVE l.gen <= generation'[Items] /\ l.gen # generation'[Items]
      <3>1. l.gen \in Nat /\ l.gen < generation'[Items] /\ generation'[Items] \in Nat
        BY <1>2, <1>3, <2>1 DEF ScreenInv, LoadsSound, Load
      <3> QED
        BY <3>1
    <2>3. loads' \subseteq Load /\ page' \in [Views -> Pages]
      BY <1>1, <2>1 DEF ScreenInv, LoadsSound
    <2> QED
      BY <1>3, <2>1, <2>2, <2>3 DEF LoadsSound
  <1>5. DataSound'
    <2>1. data' \in [Views -> {None} \cup [page: Pages, seen: Answers]]
      BY <1>1
    <2>2. \A v \in Views : data'[v] = None
      BY <1>1
    <2> QED
      BY <2>1, <2>2 DEF DataSound, AlertsMatchPage, Views
  <1>6. PanelsSound'
    <2>1. PanelsBelongToOneRow'
      BY <1>1, ScreenNames DEF PanelsBelongToOneRow
    <2> QED
      BY <1>1, <2>1 DEF PanelsSound, Rows
  <1> QED
    BY <1>4, <1>5, <1>6

\* A command that reloads the table ends.
LEMMA ReloadEnds ==
  ASSUME ScreenInv, UNCHANGED <<version, saved, posts>>,
         (command' = Idle /\ command.phase = "reload") \/ command' = command
  PROVE  /\ CommandSound' /\ LiveSound'
         /\ command'.row = None \/ (command'.row = command.row /\ command'.op = command.op)
  <1>1. CASE command' = command
    BY <1>1, CommandStays, LiveStays DEF ScreenInv
  <1>2. CASE command' = Idle /\ command.phase = "reload"
    BY <1>2, IdleIntent, CommandBegins, LiveAlone DEF ScreenInv
  <1> QED
    BY <1>1, <1>2

LEMMA LoadArrivesStep ==
  ASSUME ScreenInv, NEW l \in loads, LoadArrives(l)
  PROVE  ScreenInv'
  <1>1. /\ l.answer # None /\ command' = IF Ends(l) THEN Idle ELSE command
        /\ UNCHANGED <<access, version, recorded, posts, page, pending, keys, near, wide, saved>>
    BY DEF LoadArrives, server, intents
  <1>2. /\ CommandSound' /\ LiveSound'
        /\ command'.row = None \/ (command'.row = command.row /\ command'.op = command.op)
    BY <1>1, ReloadEnds DEF Ends
  <1>3. KeysSound'
    BY <1>1, KeysStay DEF ScreenInv
  <1>4. CASE Current(l) /\ l.answer = Denied
    <2>1. /\ AccessLost /\ loads' \subseteq {m \in loads : m.view = Items}
          /\ UNCHANGED loading
      BY <1>4 DEF LoadArrives
    <2>2. LoadsSound' /\ DataSound' /\ PanelsSound'
      BY <1>1, <1>2, <2>1, AccessLostSound
    <2>3. FlagsSound'
      BY <1>1, <2>1 DEF ScreenInv, FlagsSound, AccessLost
    <2> QED
      BY <1>2, <1>3, <2>2, <2>3 DEF ScreenInv
  <1>5. CASE ~ (Current(l) /\ l.answer = Denied)
    <2>1. /\ data' = IF Current(l)
                     THEN [data EXCEPT ![l.view] = [page |-> l.page, seen |-> l.answer]]
                     ELSE data
          /\ loading' = (loading /\ ~(Current(l) /\ l.view = Items))
          /\ loads' = loads \ {l}
          /\ UNCHANGED <<generation, panels, denied>>
      BY <1>5 DEF LoadArrives
    <2>2. LoadsSound'
      BY <1>1, <2>1, LoadsStay DEF ScreenInv
    <2>3. PanelsSound'
      BY <1>2, <2>1, PanelsStay DEF ScreenInv
    <2>4. FlagsSound'
      <3>1. (loading /\ ~(Current(l) /\ l.view = Items)) \in BOOLEAN
        OBVIOUS
      <3>2. loading' \in BOOLEAN
        BY <2>1, <3>1, Zenon
      <3> QED
        BY <1>1, <2>1, <3>2 DEF ScreenInv, FlagsSound
    <2>5. DataSound'
      <3>1. CASE ~ Current(l)
        BY <1>1, <2>1, <3>1, DataStays DEF ScreenInv
      <3>2. CASE Current(l)
        <4>1. /\ l \in Load /\ l.gen = generation[l.view] /\ l.page = page[l.view]
              /\ denied => l.gen < generation[Items] /\ l.view = Items
          BY <3>2 DEF ScreenInv, LoadsSound, Current
        <4>2. PICK d : d = [page |-> l.page, seen |-> l.answer]
          OBVIOUS
        <4>3. d \in [page: Pages, seen: Answers] /\ d.page = page[l.view] /\ l.view \in Views
          BY <4>1, <4>2 DEF Load
        <4>4. ~ denied
          <5>1. generation[Items] \in Nat
            BY ViewsAre DEF ScreenInv, LoadsSound
          <5> QED
            BY <4>1, <5>1
        <4>5. data' = [data EXCEPT ![l.view] = d]
              /\ data \in [Views -> {None} \cup [page: Pages, seen: Answers]]
          BY <2>1, <3>2, <4>2 DEF ScreenInv, DataSound
        <4>6. data' \in [Views -> {None} \cup [page: Pages, seen: Answers]]
          BY <4>3, <4>5
        <4>7. AlertsMatchPage'
          <5> SUFFICES ASSUME NEW v \in AlertViews, data'[v] # None
                       PROVE  data'[v].page = page[v]
            BY <1>1 DEF AlertsMatchPage
          <5>1. v \in Views
            BY DEF Views
          <5>2. CASE v = l.view
            BY <4>3, <4>5, <5>1, <5>2
          <5>3. CASE v # l.view
            BY <4>5, <5>1, <5>3 DEF ScreenInv, DataSound, AlertsMatchPage
          <5> QED
            BY <5>2, <5>3
        <4> QED
          BY <2>1, <4>4, <4>6, <4>7 DEF DataSound
      <3> QED
        BY <3>1, <3>2
    <2> QED
      BY <1>2, <1>3, <2>2, <2>3, <2>4, <2>5 DEF ScreenInv
  <1> QED
    BY <1>4, <1>5

LEMMA LoadFailsStep ==
  ASSUME ScreenInv, NEW l \in loads, LoadFails(l)
  PROVE  ScreenInv'
  <1>1. /\ command' = IF Ends(l) THEN Idle ELSE command
        /\ loading' = (loading /\ ~(Current(l) /\ l.view = Items))
        /\ loads' \subseteq loads
        /\ UNCHANGED <<access, version, recorded, posts, generation, page, data, panels, denied,
                       pending, keys, near, wide, saved>>
    BY DEF LoadFails, server, intents
  <1>2. /\ CommandSound' /\ LiveSound'
        /\ command'.row = None \/ (command'.row = command.row /\ command'.op = command.op)
    BY <1>1, ReloadEnds DEF Ends
  <1>3. FlagsSound'
    <2>1. (loading /\ ~(Current(l) /\ l.view = Items)) \in BOOLEAN
      OBVIOUS
    <2>2. loading' \in BOOLEAN
      BY <1>1, <2>1, Zenon
    <2> QED
      BY <1>1, <2>2 DEF ScreenInv, FlagsSound
  <1>4. LoadsSound' /\ DataSound' /\ KeysSound' /\ PanelsSound'
    BY <1>1, <1>2, LoadsStay, DataStays, KeysStay, PanelsStay DEF ScreenInv
  <1> QED
    BY <1>2, <1>3, <1>4 DEF ScreenInv

-----------------------------------------------------------------------------
(* Forms and history *)

\* Only panels move.
LEMMA PanelsMove ==
  ASSUME ScreenInv, PanelsSound',
         UNCHANGED <<server, views, denied, command, pending, keys, intents>>
  PROVE  ScreenInv'
  <1>1. UNCHANGED <<access, version, recorded, posts, generation, page, data, loads, loading,
                    denied, command, pending, keys, near, wide, saved>>
    BY DEF server, views, intents
  <1> QED
    BY <1>1, CommandStays, KeysStay, LiveStays, LoadsStay, DataStays, FlagsStay DEF ScreenInv

LEMMA OpenNewStep == ASSUME ScreenInv, OpenNew PROVE ScreenInv'
  <1>1. /\ ~ denied /\ ~ Locked /\ selected = None /\ editor' = New
        /\ UNCHANGED <<server, views, selected, historyItem, history, denied, command, pending,
                       keys, intents>>
    BY DEF OpenNew
  <1>2. command.row = None
    BY <1>1 DEF Locked, Busy, ScreenInv, CommandSound
  <1>3. PanelsBelongToOneRow'
    BY <1>1, ScreenNames DEF ScreenInv, PanelsSound, PanelsBelongToOneRow
  <1>4. PanelsSound'
    BY <1>1, <1>2, <1>3 DEF ScreenInv, PanelsSound
  <1> QED
    BY <1>1, <1>4, PanelsMove

LEMMA OpenEditorStep ==
  ASSUME ScreenInv, NEW i \in Ingredients, OpenEditor(i)
  PROVE  ScreenInv'
  <1>1. /\ ~ denied /\ selected = None /\ editor \in {None, i} /\ ~ Locked
        /\ editor' = IF editor = i THEN None ELSE i
        /\ historyItem' = IF editor # i /\ historyItem # i THEN None ELSE historyItem
        /\ history' = IF editor # i /\ historyItem # i THEN None ELSE history
        /\ UNCHANGED <<server, views, selected, denied, command, pending, keys, intents>>
    BY DEF OpenEditor
  <1>2. command.phase = "idle" /\ command.row = None
    BY <1>1 DEF Locked, Busy, ScreenInv, CommandSound
  <1>3. PanelsBelongToOneRow'
    BY <1>1, ScreenNames DEF ScreenInv, PanelsSound, PanelsBelongToOneRow
  <1>4. PanelsSound'
    BY <1>1, <1>2, <1>3 DEF ScreenInv, PanelsSound, Rows
  <1> QED
    BY <1>1, <1>4, PanelsMove

LEMMA OpenStockStep ==
  ASSUME ScreenInv, NEW i \in Ingredients, OpenStock(i)
  PROVE  ScreenInv'
  <1>1. /\ ~ denied /\ editor = None /\ selected \in {None, i} /\ ~ Locked
        /\ selected' = IF selected = i THEN None ELSE i
        /\ historyItem' = IF selected # i /\ historyItem # i THEN None ELSE historyItem
        /\ history' = IF selected # i /\ historyItem # i THEN None ELSE history
        /\ UNCHANGED <<server, views, editor, denied, command, pending, keys, intents>>
    BY DEF OpenStock
  <1>2. command.phase = "idle" /\ command.row = None
    BY <1>1 DEF Locked, Busy, ScreenInv, CommandSound
  <1>3. PanelsBelongToOneRow'
    BY <1>1, ScreenNames DEF ScreenInv, PanelsSound, PanelsBelongToOneRow
  <1>4. PanelsSound'
    BY <1>1, <1>2, <1>3 DEF ScreenInv, PanelsSound, Rows
  <1> QED
    BY <1>1, <1>4, PanelsMove

LEMMA CloseEditorStep == ASSUME ScreenInv, CloseEditor PROVE ScreenInv'
  <1>1. /\ editor' = None
        /\ UNCHANGED <<server, views, selected, historyItem, history, denied, command, pending,
                       keys, intents>>
    BY DEF CloseEditor
  <1>2. PanelsBelongToOneRow'
    BY <1>1, ScreenNames DEF ScreenInv, PanelsSound, PanelsBelongToOneRow
  <1>3. PanelsSound'
    BY <1>1, <1>2 DEF ScreenInv, PanelsSound, Rows
  <1> QED
    BY <1>1, <1>3, PanelsMove

LEMMA OpenHistoryStep ==
  ASSUME ScreenInv, NEW i \in Ingredients, OpenHistory(i)
  PROVE  ScreenInv'
  <1>1. /\ ~ Locked /\ ~ denied /\ editor \in {None, i} /\ selected \in {None, i}
        /\ \/ historyItem' = None /\ history' = None /\ UNCHANGED command
           \/ /\ historyItem' = i /\ history' = None
              /\ command' = [Idle EXCEPT !.phase = "history", !.row = i]
        /\ UNCHANGED <<access, version, recorded, posts, generation, page, data, loads, loading,
                       editor, selected, denied, pending, keys, near, wide, saved>>
    BY DEF OpenHistory, server, intents
  <1>2. command.phase = "idle" /\ command.row = None
    BY <1>1 DEF Locked, Busy, ScreenInv, CommandSound
  <1>3. PanelsBelongToOneRow'
    BY <1>1, ScreenNames DEF ScreenInv, PanelsSound, PanelsBelongToOneRow
  <1>4. CASE historyItem' = None /\ history' = None /\ UNCHANGED command
    <2>1. PanelsSound'
      BY <1>1, <1>2, <1>3, <1>4 DEF ScreenInv, PanelsSound, Rows
    <2> QED
      BY <1>1, <1>4, <2>1, CommandStays, KeysStay, LiveStays, LoadsStay, DataStays, FlagsStay
         DEF ScreenInv
  <1>5. CASE /\ historyItem' = i /\ history' = None
             /\ command' = [Idle EXCEPT !.phase = "history", !.row = i]
    <2>1. /\ command' \in Intent /\ command'.answer = None /\ command'.phase = "history"
          /\ command'.row = i /\ command'.op = "none"
      BY <1>5 DEF Idle, Intent, Answers, Rows
    <2>2. PanelsSound'
      BY <1>1, <1>3, <1>5, <2>1 DEF ScreenInv, PanelsSound, Rows
    <2>3. CommandSound' /\ LiveSound'
      BY <1>1, <1>2, <2>1, CommandBegins, LiveAlone DEF ScreenInv
    <2> QED
      BY <1>1, <2>2, <2>3, KeysStay, LoadsStay, DataStays, FlagsStay DEF ScreenInv
  <1> QED
    BY <1>1, <1>4, <1>5

LEMMA HistoryArrivesStep == ASSUME ScreenInv, HistoryArrives PROVE ScreenInv'
  <1>1. /\ command.phase = "history" /\ history' \in {history, command.row}
        /\ command' = Idle
        /\ UNCHANGED <<access, version, recorded, posts, generation, page, data, loads, loading,
                       editor, selected, historyItem, denied, pending, keys, near, wide, saved>>
    BY DEF HistoryArrives, Movements, server, views, intents
  <1>2. CommandSound' /\ LiveSound'
    BY <1>1, IdleIntent, CommandBegins, LiveAlone DEF ScreenInv
  <1>3. /\ command.row \in Rows /\ (command.row # None => historyItem \in {None, command.row})
        /\ history \in Rows /\ PanelsBelongToOneRow
    BY DEF ScreenInv, PanelsSound, CommandSound, Intent
  <1>4. PanelsBelongToOneRow'
    BY <1>1, <1>3 DEF PanelsBelongToOneRow
  <1>5. PanelsSound'
    BY <1>1, <1>3, <1>4, IdleIntent DEF ScreenInv, PanelsSound, Rows
  <1> QED
    BY <1>1, <1>2, <1>5, KeysStay, LoadsStay, DataStays, FlagsStay DEF ScreenInv

-----------------------------------------------------------------------------
(* Saving *)

LEMMA SubmitStep ==
  ASSUME ScreenInv, NEW p \in Payloads, Submit(p)
  PROVE  ScreenInv'
  <1>1. PICK key, n, w : key = KeyFor(p) /\ n = NearOf(p) /\ w = WideOf(p)
    OBVIOUS
  <1>2. PICK x : x = [payload |-> p, key |-> key, near |-> n, wide |-> w, live |-> TRUE]
    OBVIOUS
  <1>3. /\ ~ Locked /\ ~ denied /\ keys' = keys + 1
        /\ pending' = [payload |-> p, key |-> key]
        /\ command' = [Idle EXCEPT !.phase = "sent", !.op = "post", !.payload = p, !.key = key,
                                   !.row = IF historyItem = selected THEN selected ELSE None]
        /\ posts' = posts \cup {x}
        /\ near' = [payload |-> p, intent |-> n]
        /\ wide' = [wide EXCEPT ![p] = w]
        /\ UNCHANGED <<access, version, recorded, generation, page, data, loads, loading,
                       panels, denied, saved>>
    BY <1>1, <1>2 DEF Submit
  <1>4. /\ keys \in Nat /\ wide \in [Payloads -> Nat]
        /\ posts \subseteq Post /\ recorded \subseteq Movement
    BY DEF ScreenInv, KeysSound
  <1>5. key \in 1 .. keys + 1 /\ n \in 1 .. keys + 1 /\ w \in Nat
    <2>1. key \in 1 .. keys + 1
      BY <1>1, <1>4 DEF KeyFor, ScreenInv, KeysSound
    <2>2. n \in 1 .. keys + 1
      BY <1>1, <1>4 DEF NearOf, ScreenInv, KeysSound
    <2>3. w \in Nat
      BY <1>1, <1>4 DEF WideOf
    <2> QED
      BY <2>1, <2>2, <2>3
  <1>6. /\ x \in Post /\ x.key = key /\ x.near = n /\ x.live = TRUE
    BY <1>2, <1>4, <1>5 DEF Post
  <1>7. \A y \in posts \cup recorded : y.near = n => y.key = key
    <2> SUFFICES ASSUME NEW y \in posts \cup recorded, y.near = n
                 PROVE  y.key = key
      OBVIOUS
    <2>1. y.near \in 1 .. keys
      BY DEF ScreenInv, KeysSound
    <2>2. n # keys + 1
      BY <1>4, <2>1
    <2>3. near # None /\ near.payload = p /\ n = near.intent
      BY <1>1, <2>2 DEF NearOf
    <2>4. pending # None /\ pending.payload = p /\ y.key = pending.key
      BY <2>3 DEF ScreenInv, KeysSound
    <2> QED
      BY <1>1, <2>4 DEF KeyFor
  <1>8. KeysSound'
    <2>1. keys' \in Nat /\ wide' \in [Payloads -> Nat]
      BY <1>3, <1>4, <1>5
    <2>2. posts' \subseteq Post /\ recorded' \subseteq Movement
      BY <1>3, <1>4, <1>6
    <2>3. \A y \in posts' \cup recorded' : y = x \/ y \in posts \cup recorded
      BY <1>3
    <2>4. ASSUME NEW y \in posts' \cup recorded'
          PROVE  y.key \in 1 .. keys' /\ y.near \in 1 .. keys'
      <3>1. CASE y = x
        BY <1>3, <1>5, <1>6, <3>1
      <3>2. CASE y # x
        <4>1. y.key \in 1 .. keys /\ y.near \in 1 .. keys
          BY <2>3, <3>2 DEF ScreenInv, KeysSound
        <4> QED
          BY <1>3, <1>4, <4>1
      <3> QED
        BY <3>1, <3>2
    <2>5. \A y, z \in posts' \cup recorded' : y.near = z.near => y.key = z.key
      BY <1>6, <1>7, <2>3 DEF ScreenInv, KeysSound
    <2>6. \A r, s \in recorded' : r.key = s.key => r = s
      BY <1>3 DEF ScreenInv, KeysSound
    <2>7. /\ pending'.key = key /\ pending'.payload = p
          /\ near'.intent = n /\ near'.payload = p
      BY <1>3
    <2>8. \A y \in posts' \cup recorded' : y.near = n => y.key = key
      BY <1>6, <1>7, <2>3
    <2>9. pending' # None
      <3>1. pending' \in [payload: Payloads, key: Nat]
        BY <1>3, <1>4, <1>5
      <3> QED
        BY <3>1, ScreenNames
    <2>10. key \in 1 .. keys' /\ n \in 1 .. keys'
      BY <1>3, <1>5
    <2> QED
      BY <2>1, <2>2, <2>4, <2>5, <2>6, <2>7, <2>8, <2>9, <2>10 DEF KeysSound
  <1>9. command.phase = "idle"
    BY <1>3 DEF Locked, Busy
  <1>10. /\ command' \in Intent /\ command'.answer = None /\ command'.phase = "sent"
         /\ command'.op = "post" /\ command'.row \in {None, historyItem}
    <2>1. PICK row : row = IF historyItem = selected THEN selected ELSE None
      OBVIOUS
    <2>2. command' = [phase |-> "sent", op |-> "post", payload |-> p, key |-> key, row |-> row,
                      gen |-> 0, answer |-> None]
      BY <1>3, <2>1 DEF Idle
    <2>3. key \in Nat /\ row \in Rows /\ row \in {None, historyItem}
      BY <1>4, <1>5, <2>1 DEF ScreenInv, PanelsSound, Rows
    <2> QED
      BY <2>2, <2>3 DEF Intent, Answers
  <1>11. CommandSound'
    BY <1>3, <1>10, CommandBegins DEF ScreenInv
  <1>12. LiveSound'
    <2>1. \A y \in posts : ~ y.live
      BY <1>9 DEF ScreenInv, LiveSound
    <2>2. \A y \in posts' : y.live => y = x
      BY <1>3, <2>1
    <2> QED
      BY <1>10, <2>2 DEF LiveSound
  <1>13. PanelsSound'
    <2>1. UNCHANGED <<editor, selected, historyItem, history>>
      BY <1>3 DEF panels
    <2>2. PanelsBelongToOneRow'
      BY <2>1 DEF ScreenInv, PanelsSound, PanelsBelongToOneRow
    <2> QED
      BY <1>3, <1>10, <2>1, <2>2 DEF ScreenInv, PanelsSound
  <1> QED
    BY <1>3, <1>8, <1>11, <1>12, <1>13, LoadsStay, DataStays, FlagsStay DEF ScreenInv

\* The server changes and answers no command, or the answer of the one that waits.
LEMMA CommandLater ==
  ASSUME CommandSound, UNCHANGED <<command, saved>>, version' \in {version, version + 1}
  PROVE  CommandSound'
  <1>1. version \in Nat /\ saved \in Nat /\ saved <= version
    BY DEF CommandSound
  <1>2. version' \in Nat /\ version <= version' /\ saved <= version'
    BY <1>1
  <1>3. command.answer \notin {None, Denied} => command.answer \in 0 .. version'
    BY <1>1, <1>2 DEF CommandSound
  <1> QED
    BY <1>1, <1>2, <1>3 DEF CommandSound

LEMMA CommandStep ==
  ASSUME ScreenInv, NEW op \in {"update", "recount"}, NEW row \in Rows, Command(op, row),
         op = "update" => row = None,
         row # None => editor = None /\ historyItem \in {None, row}
  PROVE  ScreenInv'
  <1>1. /\ ~ Locked /\ keys' = keys + 1
        /\ command' = [Idle EXCEPT !.phase = "sent", !.op = op, !.row = row]
        /\ near' = None
        /\ UNCHANGED <<access, version, recorded, posts, generation, page, data, loads, loading,
                       panels, denied, pending, wide, saved>>
    BY DEF Command, server
  <1>2. command.phase = "idle"
    BY <1>1 DEF Locked, Busy
  <1>3. /\ command' \in Intent /\ command'.answer = None /\ command'.phase = "sent"
        /\ command'.row = row
    BY <1>1 DEF Idle, Intent, Answers
  <1>4. KeysSound'
    <2>1. keys \in Nat /\ keys' \in Nat /\ \A k \in 1 .. keys : k \in 1 .. keys'
      BY <1>1 DEF ScreenInv, KeysSound
    <2>2. \A x \in posts \cup recorded : x.key \in 1 .. keys' /\ x.near \in 1 .. keys'
      BY <2>1 DEF ScreenInv, KeysSound
    <2>3. pending # None => pending.key \in 1 .. keys'
      BY <2>1 DEF ScreenInv, KeysSound
    <2> QED
      BY <1>1, <2>1, <2>2, <2>3 DEF ScreenInv, KeysSound
  <1>5. PanelsSound'
    <2>1. UNCHANGED <<editor, selected, historyItem, history>>
      BY <1>1 DEF panels
    <2>2. PanelsBelongToOneRow'
      BY <2>1 DEF ScreenInv, PanelsSound, PanelsBelongToOneRow
    <2> QED
      BY <1>1, <1>3, <2>1, <2>2 DEF ScreenInv, PanelsSound
  <1> QED
    BY <1>1, <1>2, <1>3, <1>4, <1>5, CommandBegins, LiveAlone, LoadsStay, DataStays, FlagsStay
       DEF ScreenInv

\* "Refresh count" asks for the rows of the page while the form of one of them is open.
LEMMA RecountStep == ASSUME ScreenInv, Recount PROVE ScreenInv'
  <1>1. selected \in Rows /\ selected # None /\ editor = None
        /\ historyItem \in {None, selected}
    BY DEF Recount, ScreenInv, PanelsSound, PanelsBelongToOneRow
  <1> QED
    BY <1>1, CommandStep DEF Recount

LEMMA UpdateStep == ASSUME ScreenInv, Update PROVE ScreenInv'
  BY CommandStep DEF Update, Rows

LEMMA ServePostStep ==
  ASSUME ScreenInv, NEW p \in posts, ServePost(p)
  PROVE  ScreenInv'
  <1>1. PICK a : a = Answer
    OBVIOUS
  <1>2. /\ posts' = posts \ {p}
        /\ UNCHANGED <<access, generation, page, data, loads, loading, panels, denied, pending,
                       keys, near, wide, saved>>
    BY DEF ServePost, views, intents
  <1>3. /\ a \in Answers /\ (a \notin {None, Denied} => a = version)
        /\ version \in Nat /\ saved \in Nat /\ saved <= version /\ command \in Intent
    BY <1>1, AnswerKnown DEF ScreenInv, CommandSound
  <1>4. PICK v : v = version'
    OBVIOUS
  <1>5. \E b \in Answers :
          /\ b \notin {None, Denied} => b = v
          /\ v \in {version, version + 1}
          /\ command' = IF p.live THEN [command EXCEPT !.answer = b] ELSE command
    <2>1. CASE access /\ p.key \notin {r.key : r \in recorded}
      <3>1. v = version + 1
            /\ command' = IF p.live THEN [command EXCEPT !.answer = v] ELSE command
        BY <1>4, <2>1 DEF ServePost
      <3>2. v \in Answers
        BY <1>3, <3>1 DEF Answers
      <3> QED
        BY <3>1, <3>2
    <2>2. CASE ~ (access /\ p.key \notin {r.key : r \in recorded})
      <3>1. v = version
            /\ command' = IF p.live THEN [command EXCEPT !.answer = a] ELSE command
        BY <1>1, <1>4, <2>2 DEF ServePost
      <3> QED
        BY <1>3, <3>1
    <2> QED
      BY <2>1, <2>2
  <1>6. PICK b \in Answers :
          /\ b \notin {None, Denied} => b = v
          /\ v \in {version, version + 1}
          /\ command' = IF p.live THEN [command EXCEPT !.answer = b] ELSE command
    BY <1>5
  <1>7. CommandSound'
    <2>1. CASE ~ p.live
      BY <1>2, <1>4, <1>6, <2>1, CommandLater DEF ScreenInv
    <2>2. CASE p.live
      <3>1. command.op = "post" /\ command.phase = "sent"
        BY <2>2 DEF ScreenInv, LiveSound
      <3>2. /\ command' \in Intent /\ command'.answer = b /\ command'.op = "post"
            /\ command'.phase = "sent"
        BY <1>3, <1>6, <2>2, <3>1 DEF Intent
      <3>3. v \in Nat /\ saved <= v
        BY <1>3, <1>6
      <3> QED
        BY <1>2, <1>3, <1>4, <1>6, <3>2, <3>3 DEF CommandSound
    <2> QED
      BY <2>1, <2>2
  <1>8. LiveSound'
    <2>1. CASE ~ p.live
      BY <1>2, <1>6, <2>1 DEF ScreenInv, LiveSound
    <2>2. CASE p.live
      <3>1. \A q \in posts' : ~ q.live
        BY <1>2, <2>2 DEF ScreenInv, LiveSound
      <3> QED
        BY <3>1 DEF LiveSound
    <2> QED
      BY <2>1, <2>2
  <1>9. command'.row = command.row /\ command'.op = command.op
    BY <1>3, <1>6 DEF Intent
  <1>10. PanelsSound'
    BY <1>2, <1>9, PanelsStay DEF ScreenInv
  <1>11. KeysSound'
    <2>1. CASE recorded' = recorded
      <3>1. posts' \subseteq posts
        BY <1>2
      <3> QED
        BY <1>2, <2>1, <3>1 DEF ScreenInv, KeysSound
    <2>2. CASE recorded' # recorded
      <3>1. PICK m : m = [key |-> p.key, near |-> p.near, wide |-> p.wide]
        OBVIOUS
      <3>2. p.key \notin {r.key : r \in recorded} /\ recorded' = recorded \cup {m}
        BY <2>2, <3>1 DEF ServePost
      <3>3. m \in Movement /\ m.key = p.key /\ m.near = p.near
        BY <3>1 DEF ScreenInv, KeysSound, Post, Movement
      <3>4. posts' \subseteq posts /\ \A r \in recorded : r.key # m.key
        BY <1>2, <3>2, <3>3
      <3>5. \A x \in posts' \cup recorded' :
              \E y \in posts \cup recorded : x.key = y.key /\ x.near = y.near
        BY <3>2, <3>3, <3>4
      <3>6. \A x \in posts' \cup recorded' : x.key \in 1 .. keys /\ x.near \in 1 .. keys
        BY <3>5 DEF ScreenInv, KeysSound
      <3>7. \A x, y \in posts' \cup recorded' : x.near = y.near => x.key = y.key
        BY <3>5 DEF ScreenInv, KeysSound
      <3>8. \A r, s \in recorded' : r.key = s.key => r = s
        BY <3>2, <3>4 DEF ScreenInv, KeysSound
      <3>9. near # None =>
              \A x \in posts' \cup recorded' : x.near = near.intent => x.key = pending.key
        BY <3>5 DEF ScreenInv, KeysSound
      <3>10. posts' \subseteq Post /\ recorded' \subseteq Movement
        BY <3>2, <3>3, <3>4 DEF ScreenInv, KeysSound
      <3> QED
        BY <1>2, <3>6, <3>7, <3>8, <3>9, <3>10 DEF ScreenInv, KeysSound
    <2> QED
      BY <2>1, <2>2
  <1> QED
    BY <1>2, <1>7, <1>8, <1>10, <1>11, LoadsStay, DataStays, FlagsStay DEF ScreenInv

LEMMA ServeCommandStep == ASSUME ScreenInv, ServeCommand PROVE ScreenInv'
  <1>1. PICK a : a = Answer
    OBVIOUS
  <1>2. /\ command.phase = "sent" /\ command.op # "post"
        /\ UNCHANGED <<access, recorded, posts, generation, page, data, loads, loading, panels,
                       denied, pending, keys, near, wide, saved>>
    BY DEF ServeCommand, views, intents
  <1>3. /\ a \in Answers /\ (a \notin {None, Denied} => a = version)
        /\ version \in Nat /\ saved \in Nat /\ saved <= version /\ command \in Intent
    BY <1>1, AnswerKnown DEF ScreenInv, CommandSound
  <1>4. \E b \in Answers : /\ command' = [command EXCEPT !.answer = b]
                           /\ version' \in {version, version + 1}
                           /\ b \notin {None, Denied} => b = version'
    <2>1. CASE access /\ command.op = "update"
      <3>1. version' = version + 1 /\ command' = [command EXCEPT !.answer = version + 1]
        BY <2>1 DEF ServeCommand
      <3>2. version + 1 \in Answers
        BY <1>3 DEF Answers
      <3> QED
        BY <3>1, <3>2
    <2>2. CASE ~ (access /\ command.op = "update")
      <3>1. version' = version /\ command' = [command EXCEPT !.answer = a]
        BY <1>1, <2>2 DEF ServeCommand
      <3> QED
        BY <1>3, <3>1
    <2> QED
      BY <2>1, <2>2
  <1>5. PICK b \in Answers : /\ command' = [command EXCEPT !.answer = b]
                             /\ version' \in {version, version + 1}
                             /\ b \notin {None, Denied} => b = version'
    BY <1>4
  <1>6. /\ command' \in Intent /\ command'.answer = b /\ command'.phase = "sent"
        /\ command'.op = command.op /\ command'.row = command.row
    BY <1>2, <1>3, <1>5 DEF Intent
  <1>7. CommandSound'
    <2>1. version' \in Nat /\ saved <= version'
      BY <1>3, <1>5
    <2> QED
      BY <1>2, <1>3, <1>5, <1>6, <2>1 DEF CommandSound
  <1>8. LiveSound'
    BY <1>2, LiveAlone DEF ScreenInv
  <1>9. PanelsSound'
    BY <1>2, <1>6, PanelsStay DEF ScreenInv
  <1> QED
    BY <1>2, <1>7, <1>8, <1>9, KeysStay, LoadsStay, DataStays, FlagsStay DEF ScreenInv

\* A command that was answered is over, and no request of the page is on its way.
LEMMA NoneLive ==
  ASSUME ScreenInv, command.phase # "sent" \/ command.answer # None \/ command.op # "post"
  PROVE  \A p \in posts : ~ p.live
  BY DEF ScreenInv, LiveSound

\* A key that is given up is of no submission any more.
LEMMA KeysGivenUp ==
  ASSUME KeysSound, KeyGivenUp, UNCHANGED <<keys, recorded>>, posts' \subseteq posts
  PROVE  KeysSound'
  <1>1. wide' \in [Payloads -> Nat]
    BY DEF KeysSound, KeyGivenUp
  <1> QED
    BY <1>1 DEF KeysSound, KeyGivenUp

\* The rows a recount read are of the page that is shown.
LEMMA AppliedSound ==
  ASSUME ScreenInv, Applied, command.answer \notin {None, Denied},
         UNCHANGED <<page, historyItem, history, denied>>,
         command'.row = None \/ (command'.row = command.row /\ command'.op = command.op)
  PROVE  DataSound' /\ PanelsSound'
  <1>1. /\ command \in Intent /\ command.answer \in Nat /\ command.row \in Rows
    BY DEF ScreenInv, CommandSound, Intent
  <1>2. Items \in Views /\ page \in [Views -> Pages]
    BY ViewsAre DEF ScreenInv, LoadsSound
  <1>3. DataSound'
    <2>1. CASE command.op # "recount"
      BY <2>1, DataStays DEF ScreenInv, Applied
    <2>2. CASE command.op = "recount"
      <3>1. PICK d : d = [page |-> page[Items], seen |-> command.answer]
        OBVIOUS
      <3>2. d \in [page: Pages, seen: Answers]
        BY <1>1, <1>2, <3>1 DEF Answers
      <3>3. data' = [data EXCEPT ![Items] = d]
            /\ data \in [Views -> {None} \cup [page: Pages, seen: Answers]]
        BY <2>2, <3>1 DEF ScreenInv, DataSound, Applied
      <3>4. data' \in [Views -> {None} \cup [page: Pages, seen: Answers]]
        BY <3>2, <3>3
      <3>5. \A v \in AlertViews : data'[v] = data[v]
        BY <3>3, ViewsAre DEF Views
      <3>6. AlertsMatchPage'
        BY <3>5 DEF ScreenInv, DataSound, AlertsMatchPage
      <3> QED
        BY <3>4, <3>5, <3>6 DEF ScreenInv, DataSound
    <2> QED
      BY <2>1, <2>2
  <1>4. PanelsSound'
    <2>1. CASE command.op # "recount"
      <3>1. editor' = None /\ selected' = None
        BY <2>1 DEF Applied
      <3>2. PanelsBelongToOneRow'
        BY <3>1, ScreenNames DEF ScreenInv, PanelsSound, PanelsBelongToOneRow
      <3> QED
        BY <3>1, <3>2 DEF ScreenInv, PanelsSound, Rows
    <2>2. CASE command.op = "recount"
      <3>1. selected' \in {command.row, None} /\ editor' = editor
        BY <2>2 DEF Applied
      <3>2. command.row # None => editor = None /\ historyItem \in {None, command.row}
        BY <2>2 DEF ScreenInv, PanelsSound
      <3>3. PanelsBelongToOneRow'
        BY <3>1, <3>2 DEF ScreenInv, PanelsSound, PanelsBelongToOneRow
      <3>4. selected' \in Rows
        BY <1>1, <3>1 DEF Rows
      <3> QED
        BY <3>1, <3>3, <3>4 DEF ScreenInv, PanelsSound
    <2> QED
      BY <2>1, <2>2
  <1> QED
    BY <1>3, <1>4

\* run goes on after its action: with the access that was lost it stops, else it loads
\* the table again.
LEMMA ProceedsSound ==
  ASSUME ScreenInv, Proceeds, command.answer \notin {None, Denied}, command.phase # "idle",
         UNCHANGED <<version, recorded, posts, denied, keys>>
  PROVE  /\ CommandSound' /\ KeysSound' /\ LoadsSound' /\ UNCHANGED page
         /\ command'.row = None \/ (command'.row = command.row /\ command'.op = command.op)
         /\ command'.phase # "history" /\ command'.phase # "sent"
  <1>1. CASE denied
    <2>1. command' = Idle /\ UNCHANGED <<generation, page, loads, pending, near, wide, saved>>
      BY <1>1 DEF Proceeds, intents
    <2> QED
      BY <2>1, IdleIntent, CommandBegins, KeysStay, LoadsStay DEF ScreenInv
  <1>2. CASE ~ denied
    <2>1. PICK g : g = generation[Items] + 1
      OBVIOUS
    <2>2. PICK vs : vs = {v \in Views : Enabled(v)}
      OBVIOUS
    <2>3. /\ KeyGivenUp /\ UNCHANGED page /\ Started(vs)
          /\ saved' = IF command.op = "recount" THEN saved ELSE command.answer
          /\ command' = [command EXCEPT !.phase = "reload", !.gen = g]
      BY <1>2, <2>1, <2>2 DEF Proceeds, Succeeds
    <2>4. /\ command \in Intent /\ version \in Nat /\ saved \in Nat /\ saved <= version
          /\ command.answer \in 0 .. version
          /\ command.op = "recount" => saved <= command.answer
      BY DEF ScreenInv, CommandSound
    <2>5. Items \in Views /\ generation \in [Views -> Nat] /\ page \in [Views -> Pages]
      BY ViewsAre DEF ScreenInv, LoadsSound
    <2>6. /\ command' \in Intent /\ command'.answer = command.answer
          /\ command'.phase = "reload" /\ command'.op = command.op
          /\ command'.row = command.row
      <3>1. g \in Nat
        BY <2>1, <2>5
      <3> QED
        BY <2>3, <2>4, <3>1 DEF Intent
    <2>7. CommandSound'
      <3>1. CASE command.op = "recount"
        BY <2>3, <2>4, <2>6, <3>1 DEF CommandSound
      <3>2. CASE command.op # "recount"
        BY <2>3, <2>4, <2>6, <3>2 DEF CommandSound
      <3> QED
        BY <3>1, <3>2
    <2>8. KeysSound'
      BY <2>3, KeysGivenUp DEF ScreenInv
    <2>9. LoadsSound'
      <3>1. vs \in SUBSET Views /\ Items \in vs
        BY <2>2, <2>5 DEF Enabled
      <3>2. ~ denied'
        BY <1>2
      <3> QED
        BY <1>2, <2>3, <2>5, <3>1, <3>2, StartedSound DEF ScreenInv
    <2> QED
      BY <2>3, <2>6, <2>7, <2>8, <2>9
  <1> QED
    BY <1>1, <1>2

LEMMA CommandAnsweredStep == ASSUME ScreenInv, CommandAnswered PROVE ScreenInv'
  <1>1. /\ command.phase = "sent" /\ command.answer \notin {None, Denied} /\ Applied
        /\ UNCHANGED <<access, version, recorded, posts, loading, historyItem, history, denied,
                       keys>>
    BY DEF CommandAnswered, server
  <1>2. command \in Intent
    BY DEF ScreenInv, CommandSound
  <1>3. /\ CommandSound' /\ KeysSound' /\ LoadsSound' /\ UNCHANGED page
        /\ command'.row = None \/ (command'.row = command.row /\ command'.op = command.op)
    <2>1. CASE command.op = "post" /\ command.row # None
      <3>1. /\ command' = [command EXCEPT !.phase = "refetch"]
            /\ UNCHANGED <<generation, page, loads, pending, near, wide, saved>>
        BY <2>1 DEF CommandAnswered, intents
      <3>2. /\ command' \in Intent /\ command'.phase = "refetch" /\ command'.op = command.op
            /\ command'.row = command.row /\ command'.answer = command.answer
        BY <1>2, <3>1 DEF Intent
      <3>3. CommandSound'
        BY <1>1, <3>1, <3>2 DEF ScreenInv, CommandSound
      <3> QED
        BY <1>1, <3>1, <3>2, <3>3, KeysStay, LoadsStay DEF ScreenInv
    <2>2. CASE ~ (command.op = "post" /\ command.row # None)
      <3>1. Proceeds
        BY <2>2 DEF CommandAnswered
      <3> QED
        BY <1>1, <3>1, ProceedsSound
    <2> QED
      BY <2>1, <2>2
  <1>4. LiveSound'
    BY <1>1, LiveAlone DEF ScreenInv
  <1> QED
    BY <1>1, <1>3, <1>4, AppliedSound, FlagsStay DEF ScreenInv

LEMMA RefetchArrivesStep == ASSUME ScreenInv, RefetchArrives PROVE ScreenInv'
  <1>1. /\ command.phase = "refetch" /\ Proceeds /\ history' \in {history, command.row}
        /\ UNCHANGED <<access, version, recorded, posts, data, loading, editor, selected,
                       historyItem, denied, keys>>
    BY DEF RefetchArrives, Movements, server
  <1>2. command.answer \notin {None, Denied} /\ command.row \in Rows
    BY <1>1 DEF ScreenInv, CommandSound, Intent
  <1>3. /\ CommandSound' /\ KeysSound' /\ LoadsSound' /\ UNCHANGED page
        /\ command'.row = None \/ (command'.row = command.row /\ command'.op = command.op)
    BY <1>1, <1>2, ProceedsSound
  <1>4. LiveSound'
    BY <1>1, LiveAlone DEF ScreenInv
  <1>5. PanelsSound'
    <2>1. command.row # None => historyItem \in {None, command.row}
      BY DEF ScreenInv, PanelsSound
    <2>2. PanelsBelongToOneRow'
      BY <1>1, <2>1 DEF ScreenInv, PanelsSound, PanelsBelongToOneRow
    <2>3. history' \in Rows
      BY <1>1, <1>2 DEF ScreenInv, PanelsSound
    <2> QED
      BY <1>1, <1>3, <2>2, <2>3 DEF ScreenInv, PanelsSound
  <1> QED
    BY <1>1, <1>3, <1>4, <1>5, DataStays, FlagsStay DEF ScreenInv

LEMMA CommandDeniedStep == ASSUME ScreenInv, CommandDenied PROVE ScreenInv'
  <1>1. /\ command.phase = "sent" /\ command.answer = Denied
        /\ AccessLost /\ command' = Idle /\ loads' = {l \in loads : l.view = Items}
        /\ UNCHANGED <<access, version, recorded, posts, page, loading, pending, keys, near,
                       wide, saved>>
    BY DEF CommandDenied, server, intents
  <1>2. CommandSound' /\ KeysSound'
    BY <1>1, IdleIntent, CommandBegins, KeysStay DEF ScreenInv
  <1>3. LiveSound'
    BY <1>1, ScreenNames DEF ScreenInv, LiveSound
  <1>4. LoadsSound' /\ DataSound' /\ PanelsSound'
    BY <1>1, AccessLostSound
  <1>5. FlagsSound'
    BY <1>1 DEF ScreenInv, FlagsSound, AccessLost
  <1> QED
    BY <1>2, <1>3, <1>4, <1>5 DEF ScreenInv

LEMMA CommandLostStep == ASSUME ScreenInv, CommandLost PROVE ScreenInv'
  <1>1. /\ command' = Idle /\ posts' = {[p EXCEPT !.live = FALSE] : p \in posts}
        /\ UNCHANGED <<access, version, recorded, generation, page, data, loads, loading, panels,
                       denied, pending, keys, near, wide, saved>>
    BY DEF CommandLost, intents
  <1>2. \A x \in posts' : \E y \in posts : x = [y EXCEPT !.live = FALSE]
    BY <1>1
  <1>3. ASSUME NEW x \in posts'
        PROVE  x \in Post /\ ~ x.live /\ \E y \in posts : x.key = y.key /\ x.near = y.near
    <2>1. PICK y \in posts : x = [y EXCEPT !.live = FALSE]
      BY <1>2
    <2>2. y \in Post
      BY DEF ScreenInv, KeysSound
    <2> QED
      BY <2>1, <2>2 DEF Post
  <1>4. KeysSound'
    <2>1. \A x \in posts' \cup recorded :
            \E y \in posts \cup recorded : x.key = y.key /\ x.near = y.near
      BY <1>3
    <2>2. \A x \in posts' \cup recorded : x.key \in 1 .. keys /\ x.near \in 1 .. keys
      BY <2>1 DEF ScreenInv, KeysSound
    <2>3. \A x, y \in posts' \cup recorded : x.near = y.near => x.key = y.key
      BY <2>1 DEF ScreenInv, KeysSound
    <2>4. near # None =>
            \A x \in posts' \cup recorded : x.near = near.intent => x.key = pending.key
      BY <2>1 DEF ScreenInv, KeysSound
    <2>5. posts' \subseteq Post
      BY <1>3
    <2> QED
      BY <1>1, <2>2, <2>3, <2>4, <2>5 DEF ScreenInv, KeysSound
  <1>5. LiveSound'
    BY <1>3 DEF LiveSound
  <1> QED
    BY <1>1, <1>4, <1>5, IdleIntent, CommandBegins, LoadsStay, DataStays, PanelsStay, FlagsStay
       DEF ScreenInv

LEMMA CommandRefusedStep == ASSUME ScreenInv, CommandRefused PROVE ScreenInv'
  <1>1. /\ command' = Idle /\ posts' = {p \in posts : ~ p.live}
        /\ KeyGivenUp
        /\ UNCHANGED <<access, version, recorded, generation, page, data, loads, loading, panels,
                       denied, keys, saved>>
    BY DEF CommandRefused
  <1>2. KeysSound'
    BY <1>1, KeysGivenUp DEF ScreenInv
  <1>3. LiveSound'
    BY <1>1 DEF LiveSound
  <1> QED
    BY <1>1, <1>2, <1>3, IdleIntent, CommandBegins, LoadsStay, DataStays, PanelsStay, FlagsStay
       DEF ScreenInv

LEMMA OthersChangeStep == ASSUME ScreenInv, OthersChange PROVE ScreenInv'
  <1>1. /\ version' = version + 1
        /\ UNCHANGED <<access, recorded, posts, generation, page, data, loads, loading, panels,
                       denied, command, pending, keys, near, wide, saved>>
    BY DEF OthersChange, views, intents
  <1> QED
    BY <1>1, CommandLater, KeysStay, LiveStays, LoadsStay, DataStays, PanelsStay, FlagsStay
       DEF ScreenInv

LEMMA AccessWithdrawnStep == ASSUME ScreenInv, AccessWithdrawn PROVE ScreenInv'
  <1>1. /\ access' = FALSE
        /\ UNCHANGED <<version, recorded, posts, generation, page, data, loads, loading, panels,
                       denied, command, pending, keys, near, wide, saved>>
    BY DEF AccessWithdrawn, views, intents
  <1>2. FlagsSound'
    BY <1>1 DEF ScreenInv, FlagsSound
  <1> QED
    BY <1>1, <1>2, CommandStays, KeysStay, LiveStays, LoadsStay, DataStays, PanelsStay
       DEF ScreenInv

-----------------------------------------------------------------------------
(* The invariant holds, and what it says of the page *)

LEMMA ScreenInitial == ScreenInit => ScreenInv
  <1> SUFFICES ASSUME ScreenInit PROVE ScreenInv
    OBVIOUS
  <1>1. command = Idle /\ version = 0 /\ saved = 0
    BY DEF ScreenInit
  <1>2. CommandSound
    BY <1>1, IdleIntent DEF CommandSound
  <1>3. KeysSound
    BY DEF ScreenInit, KeysSound
  <1>4. LiveSound
    BY DEF ScreenInit, LiveSound
  <1>5. LoadsSound
    <2>1. Items \in Views /\ 0 \in Pages
      BY ViewsAre, ScreenBounds
    <2>2. /\ generation \in [Views -> Nat] /\ generation[Items] = 1
          /\ page \in [Views -> Pages] /\ page[Items] = 0 /\ denied = FALSE
      BY <2>1 DEF ScreenInit
    <2>3. \A l \in loads : /\ l \in Load /\ l.view = Items /\ l.gen = 1 /\ l.page = 0
                           /\ l.answer = None
      BY <2>1 DEF ScreenInit, Load, Answers
    <2> QED
      BY <2>2, <2>3 DEF LoadsSound
  <1>6. DataSound
    BY DEF ScreenInit, DataSound, AlertsMatchPage, Views
  <1>7. PanelsSound
    BY <1>1, IdleIntent, ScreenNames DEF ScreenInit, PanelsSound, PanelsBelongToOneRow, Rows
  <1>8. FlagsSound
    BY DEF ScreenInit, FlagsSound
  <1> QED
    BY <1>2, <1>3, <1>4, <1>5, <1>6, <1>7, <1>8 DEF ScreenInv

LEMMA ScreenStep == ScreenInv /\ [ScreenNext]_screenVars => ScreenInv'
  <1> SUFFICES ASSUME ScreenInv, [ScreenNext]_screenVars PROVE ScreenInv'
    OBVIOUS
  <1>1. CASE UNCHANGED screenVars
    <2>1. UNCHANGED <<access, version, recorded, posts, generation, page, data, loads, loading,
                      panels, denied, command, pending, keys, near, wide, saved>>
      BY <1>1 DEF screenVars, server, views, intents
    <2> QED
      BY <2>1, CommandStays, KeysStay, LiveStays, LoadsStay, DataStays, PanelsStay, FlagsStay
         DEF ScreenInv
  <1>2. CASE Network
    BY <1>2, ServeLoadStep, LoadArrivesStep, LoadFailsStep, ServePostStep, ServeCommandStep,
       CommandAnsweredStep, RefetchArrivesStep, CommandDeniedStep, CommandLostStep,
       CommandRefusedStep, HistoryArrivesStep DEF Network
  <1>3. CASE User
    BY <1>3, RefreshStep, ChangePageStep, ExpandStep, OpenNewStep, CloseEditorStep,
       OpenEditorStep, OpenStockStep, OpenHistoryStep, SubmitStep, UpdateStep, RecountStep
       DEF User
  <1>4. CASE OthersChange \/ AccessWithdrawn
    BY <1>4, OthersChangeStep, AccessWithdrawnStep
  <1> QED
    BY <1>1, <1>2, <1>3, <1>4 DEF ScreenNext

\* Every state of the page satisfies the invariant, for any rows, pages, payloads and
\* bounds.
THEOREM ScreenInvariant == ScreenSpec => []ScreenInv
  <1>1. ScreenInit => ScreenInv
    BY ScreenInitial
  <1>2. ScreenInv /\ [ScreenNext]_screenVars => ScreenInv'
    BY ScreenStep
  <1> QED
    BY <1>1, <1>2, PTL DEF ScreenSpec

LEMMA ScreenTypes == ScreenInv => ScreenTypeOK
  <1> SUFFICES ASSUME ScreenInv PROVE ScreenTypeOK
    OBVIOUS
  <1>1. Cardinality({p \in posts : p.live}) <= 1
    <2>1. PICK live : live = {p \in posts : p.live}
      OBVIOUS
    <2>2. \A p, q \in live : p = q
      BY <2>1 DEF ScreenInv, LiveSound
    <2>3. CASE live = {}
      <3>1. Cardinality(live) = 0
        BY <2>3, FS_EmptySet
      <3> QED
        BY <2>1, <3>1
    <2>4. CASE live # {}
      <3>1. PICK p : p \in live
        BY <2>4
      <3>2. live = {p}
        BY <2>2, <3>1
      <3>3. Cardinality(live) = 1
        BY <3>2, FS_Singleton
      <3> QED
        BY <2>1, <3>3
    <2> QED
      BY <2>3, <2>4
  <1>2. access \in BOOLEAN /\ denied \in BOOLEAN /\ loading \in BOOLEAN
    BY DEF ScreenInv, FlagsSound
  <1>3. \A v \in Views : page[v] \in Pages
    BY DEF ScreenInv, LoadsSound
  <1>4. /\ editor \in {None, New} \cup Ingredients
        /\ {selected, historyItem, history} \subseteq {None} \cup Ingredients
    BY DEF ScreenInv, PanelsSound, Rows
  <1>5. command.phase \in {"idle", "sent", "refetch", "history", "reload"}
    BY DEF ScreenInv, CommandSound, Intent
  <1>6. /\ pending # None => pending.key \in 1 .. keys
        /\ \A r \in recorded : r.key \in 1 .. keys
    BY DEF ScreenInv, KeysSound
  <1> QED
    BY <1>1, <1>2, <1>3, <1>4, <1>5, <1>6 DEF ScreenTypeOK

\* What the page shows and sends belongs together in every state it can reach: a
\* submission that is repeated unchanged is recorded once even when the first request
\* is carried out late, alerts and panels are those of their page and row, and no
\* request counts after access was lost.
THEOREM PageConsistentHolds == ScreenSpec => []PageConsistent
  <1>1. ScreenInv => PageConsistent
    <2> SUFFICES ASSUME ScreenInv PROVE PageConsistent
      OBVIOUS
    <2>1. UnchangedRetryOnce
      <3> SUFFICES ASSUME NEW r \in recorded, NEW s \in recorded, r.near = s.near
                   PROVE  r = s
        BY DEF UnchangedRetryOnce
      <3>1. r.key = s.key
        BY DEF ScreenInv, KeysSound
      <3> QED
        BY <3>1 DEF ScreenInv, KeysSound
    <2>2. AlertsMatchPage /\ NothingAfterAccessLost /\ PanelsBelongToOneRow
      <3>1. ASSUME denied, NEW l \in loads PROVE ~ Current(l)
        <4>1. l.view = Items /\ l.gen < generation[Items] /\ l.gen \in Nat
          BY <3>1 DEF ScreenInv, LoadsSound, Load
        <4>2. generation[Items] \in Nat
          BY ViewsAre DEF ScreenInv, LoadsSound
        <4> QED
          BY <4>1, <4>2 DEF Current
      <3> QED
        BY <3>1 DEF ScreenInv, DataSound, PanelsSound, NothingAfterAccessLost
    <2> QED
      BY <2>1, <2>2, ScreenTypes DEF PageConsistent
  <1> QED
    BY <1>1, ScreenInvariant, PTL

-----------------------------------------------------------------------------
(* What late answers may do to the rows *)

\* What is shown was read in the past, and the one load of a view that counts reads no
\* older rows than those.
RowsSound ==
    /\ \A v \in Views : data[v] # None => data[v].seen \in 0 .. version
    /\ \A l \in loads :
         l.answer \notin {None, Denied} =>
           /\ l.answer \in 0 .. version
           /\ Current(l) /\ data[l.view] # None => data[l.view].seen <= l.answer
    /\ \A l, m \in loads : Current(l) /\ Current(m) /\ l.view = m.view => l = m

\* The load a command ends with is the newest one of the table.
ReloadSound == command.phase = "reload" => denied \/ command.gen = generation[Items]

\* Nothing is shown while the answer of a command is awaited without access.
LostSound == denied /\ command.phase = "sent" => data[Items] = None /\ selected = None

FailedSound == failed \in [Views -> BOOLEAN]

LateInv == ScreenInv /\ RowsSound /\ ReloadSound /\ LostSound /\ FailedSound

\* No load counts once access is lost.
LEMMA NoneCurrent ==
  ASSUME LoadsSound, denied, NEW l \in loads
  PROVE  ~ Current(l)
  <1>1. l.view = Items /\ l.gen < generation[Items] /\ l.gen \in Nat
    BY DEF LoadsSound, Load
  <1>2. generation[Items] \in Nat
    BY ViewsAre DEF LoadsSound
  <1> QED
    BY <1>1, <1>2 DEF Current

LEMMA RowsStay ==
  ASSUME ScreenInv, RowsSound, UNCHANGED <<data, generation>>, loads' \subseteq loads,
         version' \in {version, version + 1}
  PROVE  RowsSound'
  <1>1. \A n \in 0 .. version : n \in 0 .. version'
    BY DEF ScreenInv, CommandSound
  <1> QED
    BY <1>1 DEF RowsSound, Current

\* Without access no load counts, and what is shown may only be of the past.
LEMMA RowsAlone ==
  ASSUME RowsSound, LoadsSound', denied', UNCHANGED version, loads' \subseteq loads,
         \A v \in Views : data'[v] # None => data'[v].seen \in 0 .. version
  PROVE  RowsSound'
  <1>1. \A l \in loads' : ~ Current(l)'
    <2>1. ASSUME NEW l \in loads' PROVE l.gen # generation'[l.view]
      <3>1. l.view = Items /\ l.gen < generation'[Items] /\ l.gen \in Nat
        BY DEF LoadsSound, Load
      <3>2. generation'[Items] \in Nat
        BY ViewsAre DEF LoadsSound
      <3> QED
        BY <3>1, <3>2
    <2> QED
      BY <2>1 DEF Current
  <1> QED
    BY <1>1 DEF RowsSound

\* The loads that are started have no answer, and the older ones of their views count
\* no longer.
LEMMA RowsStarted ==
  ASSUME ScreenInv, RowsSound, NEW vs \in SUBSET Views, Started(vs), UNCHANGED version,
         \A v \in Views \ vs : data'[v] = data[v],
         \A v \in vs : data'[v] # None => data'[v].seen \in 0 .. version
  PROVE  RowsSound'
  <1> DEFINE new == {[view |-> v, gen |-> generation[v] + 1, page |-> page'[v],
                      answer |-> None] : v \in vs}
  <1>1. /\ generation' = [v \in Views |-> generation[v] + (IF v \in vs THEN 1 ELSE 0)]
        /\ loads' = {l \in loads : l.view \in vs => l.view = Items} \cup new
    BY DEF Started
  <1>2. generation \in [Views -> Nat] /\ loads \subseteq Load
    BY DEF ScreenInv, LoadsSound
  <1>3. /\ \A v \in vs : generation'[v] = generation[v] + 1
        /\ \A v \in Views \ vs : generation'[v] = generation[v]
    BY <1>1, <1>2
  <1>4. ASSUME NEW l \in loads', l \notin new, l.gen = generation'[l.view]
        PROVE  l \in loads /\ l.view \in Views \ vs /\ l.gen = generation[l.view]
    <2>1. l \in loads /\ l.view \in Views /\ l.gen \in Nat /\ l.gen <= generation[l.view]
      BY <1>1, <1>2, <1>4 DEF ScreenInv, LoadsSound, Load
    <2>2. l.view \notin vs
      <3> SUFFICES ASSUME l.view \in vs PROVE FALSE
        OBVIOUS
      <3>1. generation'[l.view] = generation[l.view] + 1 /\ generation[l.view] \in Nat
        BY <1>2, <1>3, <2>1
      <3> QED
        BY <1>4, <2>1, <3>1
    <2> QED
      BY <1>3, <1>4, <2>1, <2>2
  <1>5. ASSUME NEW l \in new
        PROVE  /\ l.view \in vs /\ l.answer = None
               /\ \A m \in new : l.view = m.view => l = m
    BY <1>5
  <1> HIDE DEF new
  <1>6. \A v \in Views : data'[v] # None => data'[v].seen \in 0 .. version
    BY DEF RowsSound
  <1>7. ASSUME NEW l \in loads', l.answer \notin {None, Denied}
        PROVE  /\ l.answer \in 0 .. version
               /\ l.gen = generation'[l.view] /\ data'[l.view] # None
                    => data'[l.view].seen <= l.answer
    <2>1. l \notin new
      BY <1>5, <1>7
    <2>2. l \in loads
      BY <1>1, <2>1
    <2>3. l.answer \in 0 .. version
      BY <1>7, <2>2 DEF RowsSound
    <2>4. ASSUME l.gen = generation'[l.view], data'[l.view] # None
          PROVE  data'[l.view].seen <= l.answer
      <3>1. l.view \in Views \ vs /\ Current(l)
        BY <1>4, <2>1, <2>4 DEF Current
      <3>2. data'[l.view] = data[l.view]
        BY <3>1
      <3> QED
        BY <1>7, <2>2, <2>4, <3>1, <3>2 DEF RowsSound
    <2> QED
      BY <2>3, <2>4
  <1>8. ASSUME NEW l \in loads', NEW m \in loads', l.gen = generation'[l.view],
               m.gen = generation'[m.view], l.view = m.view
        PROVE  l = m
    <2>1. CASE l \in new /\ m \in new
      BY <1>5, <1>8, <2>1
    <2>2. CASE l \in new /\ m \notin new
      BY <1>4, <1>5, <1>8, <2>2
    <2>3. CASE l \notin new /\ m \in new
      BY <1>4, <1>5, <1>8, <2>3
    <2>4. CASE l \notin new /\ m \notin new
      BY <1>4, <1>8, <2>4 DEF RowsSound, Current
    <2> QED
      BY <2>1, <2>2, <2>3, <2>4
  <1> QED
    BY <1>6, <1>7, <1>8 DEF RowsSound, Current

\* What the server reads now is not older than what is shown.
LEMMA RowsServed ==
  ASSUME ScreenInv, RowsSound, NEW l \in loads, ServeLoad(l)
  PROVE  RowsSound'
  <1>1. PICK a : a = Answer
    OBVIOUS
  <1>2. PICK m : m = [l EXCEPT !.answer = a]
    OBVIOUS
  <1>3. /\ loads' = (loads \ {l}) \cup {m}
        /\ UNCHANGED <<version, data, generation>>
    BY <1>1, <1>2 DEF ServeLoad, server
  <1>4. /\ a \notin {None, Denied} => a = version
        /\ version \in Nat
    BY <1>1, AnswerKnown DEF ScreenInv, CommandSound
  <1>5. m.view = l.view /\ m.gen = l.gen /\ m.answer = a /\ l.view \in Views
    BY <1>2 DEF ScreenInv, LoadsSound, Load
  <1>6. \A v \in Views : data[v] # None => data[v].seen \in Nat /\ data[v].seen <= version
    BY <1>4 DEF RowsSound
  <1>7. ASSUME NEW k \in loads', k.answer \notin {None, Denied}
        PROVE  /\ k.answer \in 0 .. version
               /\ k.gen = generation[k.view] /\ data[k.view] # None
                    => data[k.view].seen <= k.answer
    <2>1. CASE k = m
      BY <1>4, <1>5, <1>6, <1>7, <2>1
    <2>2. CASE k \in loads
      BY <1>7, <2>2 DEF RowsSound, Current
    <2> QED
      BY <1>3, <2>1, <2>2
  <1>8. ASSUME NEW j \in loads', NEW k \in loads', j.gen = generation[j.view],
               k.gen = generation[k.view], j.view = k.view
        PROVE  j = k
    <2>1. ASSUME NEW i \in loads, i # l, i.gen = generation[i.view]
          PROVE  ~ (i.view = m.view /\ m.gen = generation[m.view])
      BY <1>5, <2>1 DEF RowsSound, Current
    <2> QED
      BY <1>3, <1>8, <2>1 DEF RowsSound, Current
  <1> QED
    BY <1>3, <1>7, <1>8 DEF RowsSound, Current

\* How the rows of a step were come by.
LEMMA RowsChange ==
  ASSUME ScreenInv, ScreenNext
  PROVE  \/ data' = data
         \/ /\ ~ denied
            /\ \E v \in Views : v # Items /\ data' = [data EXCEPT ![v] = None]
         \/ AccessLost /\ ((\E l \in loads : Current(l)) \/ command.phase = "sent")
         \/ \E l \in loads :
              /\ Current(l) /\ l.answer \notin {None, Denied}
              /\ data' = [data EXCEPT ![l.view] = [page |-> l.page, seen |-> l.answer]]
              /\ loads' = loads \ {l} /\ UNCHANGED <<version, generation>>
         \/ /\ Recounted /\ command.answer \notin {None, Denied}
            /\ data' = [data EXCEPT ![Items] = [page |-> page[Items], seen |-> command.answer]]
            /\ Proceeds
  <1>1. ASSUME NEW l \in loads, LoadArrives(l)
        PROVE  \/ data' = data
               \/ AccessLost /\ Current(l)
               \/ /\ Current(l) /\ l.answer \notin {None, Denied}
                  /\ data' = [data EXCEPT ![l.view] = [page |-> l.page, seen |-> l.answer]]
                  /\ loads' = loads \ {l} /\ UNCHANGED <<version, generation>>
    <2>1. CASE Current(l) /\ l.answer = Denied
      BY <1>1, <2>1 DEF LoadArrives
    <2>2. CASE ~ Current(l)
      BY <1>1, <2>2 DEF LoadArrives
    <2>3. CASE Current(l) /\ l.answer # Denied
      BY <1>1, <2>3 DEF LoadArrives, server
    <2> QED
      BY <2>1, <2>2, <2>3
  <1>2. ASSUME CommandAnswered
        PROVE  \/ data' = data
               \/ /\ Recounted /\ command.answer \notin {None, Denied}
                  /\ data' = [data EXCEPT ![Items] =
                                [page |-> page[Items], seen |-> command.answer]]
                  /\ Proceeds
    <2>1. CASE command.op = "recount"
      BY <1>2, <2>1 DEF CommandAnswered, Applied, Recounted
    <2>2. CASE command.op # "recount"
      BY <1>2, <2>2 DEF CommandAnswered, Applied
    <2> QED
      BY <2>1, <2>2
  <1>3. ASSUME NEW v \in Views, NEW p \in Pages, ChangePage(v, p)
        PROVE  data' = data \/ (~ denied /\ v # Items /\ data' = [data EXCEPT ![v] = None])
    BY <1>3 DEF ChangePage
  <1>4. CommandDenied => AccessLost /\ command.phase = "sent"
    BY DEF CommandDenied
  <1>5. CASE Network
    BY <1>1, <1>2, <1>4, <1>5
       DEF Network, ServeLoad, LoadFails, ServePost, ServeCommand, CommandLost, CommandRefused,
           RefetchArrives, HistoryArrives, views
  <1>6. CASE User
    BY <1>3, <1>6
       DEF User, Refresh, Expand, OpenNew, CloseEditor, OpenEditor, OpenStock, OpenHistory,
           Submit, Update, Recount, Command, views
  <1>7. CASE OthersChange \/ AccessWithdrawn
    BY <1>7 DEF OthersChange, AccessWithdrawn, views
  <1> QED
    BY <1>5, <1>6, <1>7 DEF ScreenNext

\* The rows that arrive are as new as any: no other load of their view counts.
LEMMA RowsArrive ==
  ASSUME ScreenInv, RowsSound, NEW l \in loads, Current(l), l.answer \notin {None, Denied},
         data' = [data EXCEPT ![l.view] = [page |-> l.page, seen |-> l.answer]],
         loads' = loads \ {l}, UNCHANGED <<version, generation>>
  PROVE  RowsSound'
  <1>1. PICK d : d = [page |-> l.page, seen |-> l.answer]
    OBVIOUS
  <1>2. /\ data \in [Views -> {None} \cup [page: Pages, seen: Answers]]
        /\ data' = [data EXCEPT ![l.view] = d] /\ d.seen = l.answer
        /\ l.view \in Views /\ l.answer \in 0 .. version
    BY <1>1 DEF ScreenInv, DataSound, LoadsSound, Load, RowsSound
  <1>3. data'[l.view] = d /\ \A v \in Views : v # l.view => data'[v] = data[v]
    BY <1>2
  <1>4. \A v \in Views : data'[v] # None => data'[v].seen \in 0 .. version
    BY <1>2, <1>3 DEF RowsSound
  <1>5. ASSUME NEW k \in loads', k.gen = generation[k.view]
        PROVE  k \in loads /\ k.view \in Views /\ k.view # l.view
    BY <1>5 DEF ScreenInv, LoadsSound, Load, RowsSound, Current
  <1>6. ASSUME NEW k \in loads', k.answer \notin {None, Denied}
        PROVE  /\ k.answer \in 0 .. version
               /\ k.gen = generation[k.view] /\ data'[k.view] # None
                    => data'[k.view].seen <= k.answer
    BY <1>3, <1>5, <1>6 DEF RowsSound, Current
  <1> QED
    BY <1>4, <1>6 DEF RowsSound, Current

LEMMA ProceedsRows ==
  ASSUME ScreenInv, RowsSound, Proceeds, LoadsSound', UNCHANGED <<version, denied>>,
         \A v \in Views : v # Items => data'[v] = data[v],
         data'[Items] # None => data'[Items].seen \in 0 .. version
  PROVE  RowsSound'
  <1>1. Items \in Views /\ \A v \in Views : data'[v] # None => data'[v].seen \in 0 .. version
    BY ViewsAre DEF RowsSound
  <1>2. CASE denied
    <2>1. loads' = loads /\ denied'
      BY <1>2 DEF Proceeds
    <2> QED
      BY <1>1, <2>1, RowsAlone
  <1>3. CASE ~ denied
    <2>1. PICK vs : vs = {v \in Views : Enabled(v)}
      OBVIOUS
    <2>2. Started(vs) /\ vs \in SUBSET Views /\ Items \in vs
      BY <1>1, <1>3, <2>1 DEF Proceeds, Succeeds, Enabled
    <2> QED
      BY <1>1, <2>2, RowsStarted
  <1> QED
    BY <1>2, <1>3

LEMMA RowsNetwork ==
  ASSUME ScreenInv, RowsSound, Network, ScreenInv'
  PROVE  RowsSound'
  <1>1. LoadsSound' /\ version \in Nat /\ Items \in Views
        /\ data \in [Views -> {None} \cup [page: Pages, seen: Answers]]
    BY ViewsAre DEF ScreenInv, CommandSound, DataSound
  <1>2. ASSUME AccessLost, loads' \subseteq loads, UNCHANGED version PROVE RowsSound'
    <2>1. denied' /\ \A v \in Views : data'[v] = None
      BY <1>2 DEF AccessLost
    <2> QED
      BY <1>1, <1>2, <2>1, RowsAlone
  <1>3. ASSUME NEW l \in loads, LoadArrives(l) PROVE RowsSound'
    <2>1. UNCHANGED version
      BY <1>3 DEF LoadArrives, server
    <2>2. CASE Current(l) /\ l.answer = Denied
      <3>1. AccessLost /\ loads' \subseteq loads
        BY <1>3, <2>2 DEF LoadArrives
      <3> QED
        BY <1>2, <2>1, <3>1
    <2>3. CASE ~ Current(l)
      <3>1. UNCHANGED <<data, generation>> /\ loads' \subseteq loads
        BY <1>3, <2>3 DEF LoadArrives
      <3> QED
        BY <2>1, <3>1, RowsStay
    <2>4. CASE Current(l) /\ l.answer # Denied
      <3>1. /\ l.answer # None /\ UNCHANGED generation /\ loads' = loads \ {l}
            /\ data' = [data EXCEPT ![l.view] = [page |-> l.page, seen |-> l.answer]]
        BY <1>3, <2>4 DEF LoadArrives
      <3> QED
        BY <2>1, <2>4, <3>1, RowsArrive
    <2> QED
      BY <2>2, <2>3, <2>4
  <1>4. ASSUME CommandAnswered PROVE RowsSound'
    <2>1. /\ command.answer \notin {None, Denied} /\ Applied /\ UNCHANGED <<version, denied>>
      BY <1>4 DEF CommandAnswered, server
    <2>2. command.answer \in 0 .. version
      BY <2>1 DEF ScreenInv, CommandSound
    <2>3. CASE command.op = "post" /\ command.row # None
      <3>1. UNCHANGED <<data, generation, loads>>
        BY <1>4, <2>1, <2>3 DEF CommandAnswered, Applied
      <3> QED
        BY <2>1, <3>1, RowsStay
    <2>4. CASE ~ (command.op = "post" /\ command.row # None)
      <3>1. Proceeds
        BY <1>4, <2>4 DEF CommandAnswered
      <3>2. PICK d : d = [page |-> page[Items], seen |-> command.answer]
        OBVIOUS
      <3>3. data' = data \/ data' = [data EXCEPT ![Items] = d]
        BY <2>1, <3>2 DEF Applied
      <3>4. d.seen \in 0 .. version
        BY <2>2, <3>2
      <3>5. \A v \in Views : v # Items => data'[v] = data[v]
        BY <1>1, <3>3
      <3>6. data'[Items] # None => data'[Items].seen \in 0 .. version
        BY <1>1, <3>3, <3>4 DEF RowsSound
      <3> QED
        BY <1>1, <2>1, <3>1, <3>5, <3>6, ProceedsRows
    <2> QED
      BY <2>3, <2>4
  <1>5. ASSUME RefetchArrives PROVE RowsSound'
    <2>1. Proceeds /\ UNCHANGED <<version, data, denied>>
      BY <1>5 DEF RefetchArrives, server
    <2>2. data'[Items] # None => data'[Items].seen \in 0 .. version
      BY <1>1, <2>1 DEF RowsSound
    <2> QED
      BY <1>1, <2>1, <2>2, ProceedsRows
  <1>6. ASSUME CommandDenied PROVE RowsSound'
    <2>1. AccessLost /\ loads' \subseteq loads /\ UNCHANGED version
      BY <1>6 DEF CommandDenied, server
    <2> QED
      BY <1>2, <2>1
  <1>7. ASSUME \/ \E l \in loads : LoadFails(l)
               \/ \E p \in posts : ServePost(p)
               \/ ServeCommand \/ CommandLost \/ CommandRefused \/ HistoryArrives
        PROVE  RowsSound'
    <2>1. UNCHANGED <<data, generation>> /\ loads' \subseteq loads
          /\ version' \in {version, version + 1}
      BY <1>7 DEF LoadFails, ServePost, ServeCommand, CommandLost, CommandRefused,
                  HistoryArrives, server, views
    <2> QED
      BY <2>1, RowsStay
  <1> QED
    BY <1>3, <1>4, <1>5, <1>6, <1>7, RowsServed DEF Network

LEMMA RowsUser ==
  ASSUME ScreenInv, RowsSound, User
  PROVE  RowsSound'
  <1>1. ASSUME NEW v \in Views, Refresh(v) PROVE RowsSound'
    <2>1. Started({v}) /\ UNCHANGED <<version, data>>
      BY <1>1 DEF Refresh, server
    <2>2. data'[v] # None => data'[v].seen \in 0 .. version
      BY <2>1 DEF RowsSound
    <2> QED
      BY <2>1, <2>2, RowsStarted
  <1>2. ASSUME NEW v \in Views, NEW p \in Pages, ChangePage(v, p) PROVE RowsSound'
    <2>1. /\ Started({v}) /\ UNCHANGED version
          /\ data' = data \/ data' = [data EXCEPT ![v] = None]
      BY <1>2 DEF ChangePage, server
    <2>2. data \in [Views -> {None} \cup [page: Pages, seen: Answers]]
      BY DEF ScreenInv, DataSound
    <2>3. /\ \A w \in Views \ {v} : data'[w] = data[w]
          /\ data'[v] # None => data'[v].seen \in 0 .. version
      BY <2>1, <2>2 DEF RowsSound
    <2> QED
      BY <2>1, <2>3, RowsStarted
  <1>3. ASSUME Expand PROVE RowsSound'
    <2>1. /\ Past \in Views /\ UNCHANGED <<version, data>>
          /\ Started({Past}) \/ (loads' \subseteq loads /\ UNCHANGED generation)
      BY <1>3 DEF Expand, Views, server
    <2>2. CASE Started({Past})
      <3>1. data'[Past] # None => data'[Past].seen \in 0 .. version
        BY <2>1 DEF RowsSound
      <3> QED
        BY <2>1, <2>2, <3>1, RowsStarted
    <2>3. CASE loads' \subseteq loads /\ UNCHANGED generation
      BY <2>1, <2>3, RowsStay
    <2> QED
      BY <2>1, <2>2, <2>3
  <1>4. ASSUME \/ OpenNew \/ CloseEditor \/ Update \/ Recount
               \/ \E i \in Ingredients : OpenEditor(i) \/ OpenStock(i) \/ OpenHistory(i)
               \/ \E p \in Payloads : Submit(p)
        PROVE  RowsSound'
    <2>1. UNCHANGED <<version, data, generation, loads>>
      BY <1>4 DEF OpenNew, CloseEditor, Update, Recount, Command, OpenEditor, OpenStock,
                  OpenHistory, Submit, server, views
    <2> QED
      BY <2>1, RowsStay
  <1> QED
    BY <1>1, <1>2, <1>3, <1>4 DEF User

LEMMA RowsStep ==
  ASSUME ScreenInv, RowsSound, [ScreenNext]_screenVars, ScreenInv'
  PROVE  RowsSound'
  <1>1. CASE UNCHANGED screenVars
    <2>1. UNCHANGED <<version, data, generation, loads>>
      BY <1>1 DEF screenVars, server, views
    <2> QED
      BY <2>1, RowsStay
  <1>2. CASE OthersChange \/ AccessWithdrawn
    <2>1. UNCHANGED <<data, generation, loads>> /\ version' \in {version, version + 1}
      BY <1>2 DEF OthersChange, AccessWithdrawn, views
    <2> QED
      BY <2>1, RowsStay
  <1> QED
    BY <1>1, <1>2, RowsNetwork, RowsUser DEF ScreenNext

\* The load that ends a command is asked for last: while the command waits for it, the
\* table is not asked for again.
LEMMA ReloadStep ==
  ASSUME ScreenInv, ReloadSound, [ScreenNext]_screenVars
  PROVE  ReloadSound'
  <1>1. Items \in Views /\ Items \notin {Active, Past} /\ generation \in [Views -> Nat]
    BY ViewsAre, ScreenNames DEF ScreenInv, LoadsSound
  <1>2. ASSUME UNCHANGED <<command, denied>>, generation'[Items] = generation[Items]
        PROVE  ReloadSound'
    BY <1>2 DEF ReloadSound
  <1>3. ASSUME command'.phase # "reload" \/ denied' PROVE ReloadSound'
    BY <1>3 DEF ReloadSound
  <1>4. ASSUME NEW v \in Views, Started({v}), v = Items => ~ Busy, UNCHANGED <<command, denied>>
        PROVE  ReloadSound'
    <2>1. v # Items => generation'[Items] = generation[Items]
      BY <1>1, <1>4 DEF Started
    <2> QED
      BY <1>2, <1>3, <1>4, <2>1 DEF Busy
  <1>5. ASSUME Proceeds, UNCHANGED denied PROVE ReloadSound'
    <2>1. CASE denied
      BY <1>3, <1>5, <2>1
    <2>2. CASE ~ denied
      <3>1. PICK vs : vs = {v \in Views : Enabled(v)}
        OBVIOUS
      <3>2. PICK g : g = generation[Items] + 1
        OBVIOUS
      <3>3. /\ Started(vs) /\ Items \in vs
            /\ command' = [command EXCEPT !.phase = "reload", !.gen = g]
        BY <1>1, <1>5, <2>2, <3>1, <3>2 DEF Proceeds, Succeeds, Enabled
      <3>4. generation'[Items] = g
        BY <1>1, <3>2, <3>3 DEF Started
      <3>5. command'.gen = g
        BY <3>3 DEF ScreenInv, CommandSound, Intent
      <3> QED
        BY <3>4, <3>5 DEF ReloadSound
    <2> QED
      BY <2>1, <2>2
  <1>6. Idle.phase # "reload"
    BY IdleIntent
  <1>7. CASE Network
    <2>1. ASSUME NEW l \in loads, LoadArrives(l) \/ LoadFails(l) PROVE ReloadSound'
      <3>1. command' = Idle \/ command' = command
        BY <2>1 DEF LoadArrives, LoadFails
      <3>2. denied' \/ UNCHANGED <<generation, denied>>
        BY <2>1 DEF LoadArrives, LoadFails, AccessLost
      <3> QED
        BY <1>2, <1>3, <1>6, <3>1, <3>2
    <2>2. ASSUME NEW l \in loads, ServeLoad(l) PROVE ReloadSound'
      BY <1>2, <2>2 DEF ServeLoad
    <2>3. ASSUME NEW p \in posts, ServePost(p) PROVE ReloadSound'
      <3>1. UNCHANGED <<generation, denied>>
        BY <2>3 DEF ServePost, views
      <3>2. command'.phase = command.phase /\ command'.gen = command.gen
        BY <2>3 DEF ServePost, ScreenInv, CommandSound, Intent
      <3> QED
        BY <3>1, <3>2 DEF ReloadSound
    <2>4. ASSUME ServeCommand PROVE ReloadSound'
      <3>1. command'.phase = "sent"
        BY <2>4 DEF ServeCommand, ScreenInv, CommandSound, Intent
      <3> QED
        BY <1>3, <3>1
    <2>5. ASSUME CommandAnswered PROVE ReloadSound'
      <3>1. CASE command.op = "post" /\ command.row # None
        <4>1. command'.phase = "refetch"
          BY <2>5, <3>1 DEF CommandAnswered, ScreenInv, CommandSound, Intent
        <4> QED
          BY <1>3, <4>1
      <3>2. CASE ~ (command.op = "post" /\ command.row # None)
        BY <1>5, <2>5, <3>2 DEF CommandAnswered
      <3> QED
        BY <3>1, <3>2
    <2>6. ASSUME RefetchArrives PROVE ReloadSound'
      BY <1>5, <2>6 DEF RefetchArrives
    <2>7. ASSUME CommandDenied \/ CommandLost \/ CommandRefused \/ HistoryArrives
          PROVE  ReloadSound'
      <3>1. command' = Idle
        BY <2>7 DEF CommandDenied, CommandLost, CommandRefused, HistoryArrives
      <3> QED
        BY <1>3, <1>6, <3>1
    <2> QED
      BY <1>7, <2>1, <2>2, <2>3, <2>4, <2>5, <2>6, <2>7 DEF Network
  <1>8. CASE User
    <2>1. ASSUME NEW v \in Views, Refresh(v) PROVE ReloadSound'
      BY <1>4, <2>1 DEF Refresh
    <2>2. ASSUME NEW v \in Views, NEW p \in Pages, ChangePage(v, p) PROVE ReloadSound'
      BY <1>4, <2>2 DEF ChangePage, Locked
    <2>3. ASSUME Expand PROVE ReloadSound'
      <3>1. /\ Past \in Views /\ UNCHANGED <<command, denied>>
            /\ Started({Past}) \/ UNCHANGED generation
        BY <2>3 DEF Expand, Views
      <3> QED
        BY <1>1, <1>2, <1>4, <3>1
    <2>4. ASSUME OpenNew \/ CloseEditor \/ \E i \in Ingredients : OpenEditor(i) \/ OpenStock(i)
          PROVE  ReloadSound'
      BY <1>2, <2>4 DEF OpenNew, CloseEditor, OpenEditor, OpenStock, views
    <2>5. ASSUME NEW i \in Ingredients, OpenHistory(i) PROVE ReloadSound'
      <3>1. \/ command' = command /\ UNCHANGED <<generation, denied>>
            \/ command' = [Idle EXCEPT !.phase = "history", !.row = i]
        BY <2>5 DEF OpenHistory
      <3>2. [Idle EXCEPT !.phase = "history", !.row = i].phase = "history"
        BY DEF Idle
      <3> QED
        BY <1>2, <1>3, <3>1, <3>2
    <2>6. ASSUME (\E p \in Payloads : Submit(p)) \/ Update \/ Recount PROVE ReloadSound'
      <3>1. command'.phase = "sent"
        BY <2>6 DEF Submit, Update, Recount, Command, Idle
      <3> QED
        BY <1>3, <3>1
    <2> QED
      BY <1>8, <2>1, <2>2, <2>3, <2>4, <2>5, <2>6 DEF User
  <1>9. CASE OthersChange \/ AccessWithdrawn \/ UNCHANGED screenVars
    BY <1>2, <1>9 DEF OthersChange, AccessWithdrawn, screenVars, views
  <1> QED
    BY <1>7, <1>8, <1>9 DEF ScreenNext

\* Without access nothing is asked for any more, and panels move only for a command that
\* was on its way.
LEMMA WithoutAccess ==
  ASSUME ScreenInv, ScreenNext, denied
  PROVE  /\ denied'
         /\ command'.phase = "sent" => command.phase = "sent"
         /\ selected' # selected => command.phase = "sent"
         /\ selected' \in {selected, None} \/ (Recounted /\ command' = Idle)
  <1>1. /\ \A l \in loads : ~ Current(l)
        /\ editor = None /\ command \in Intent /\ Idle.phase = "idle"
    BY NoneCurrent, IdleIntent DEF ScreenInv, PanelsSound, CommandSound
  <1>2. ASSUME NEW l \in loads, ServeLoad(l) \/ LoadArrives(l) \/ LoadFails(l)
        PROVE  /\ denied' /\ command' \in {command, Idle} /\ selected' = selected
    BY <1>1, <1>2 DEF ServeLoad, LoadArrives, LoadFails, panels
  <1>3. ASSUME (\E p \in posts : ServePost(p)) \/ ServeCommand
        PROVE  /\ denied' /\ command'.phase = command.phase /\ selected' = selected
    <2>1. UNCHANGED <<denied, selected>>
      BY <1>3 DEF ServePost, ServeCommand, panels
    <2>2. command' = command \/ \E b : command' = [command EXCEPT !.answer = b]
      BY <1>3 DEF ServePost, ServeCommand
    <2> QED
      BY <1>1, <2>1, <2>2 DEF Intent
  <1>4. ASSUME CommandAnswered
        PROVE  /\ denied' /\ command.phase = "sent"
               /\ selected' \in {selected, None} \/ (Recounted /\ command' = Idle)
    <2>1. command.phase = "sent" /\ denied' /\ Applied
      BY <1>4 DEF CommandAnswered
    <2>2. CASE command.op = "recount"
      BY <1>4, <2>1, <2>2 DEF CommandAnswered, Proceeds, Recounted
    <2>3. CASE command.op # "recount"
      BY <2>1, <2>3 DEF Applied
    <2> QED
      BY <2>1, <2>2, <2>3
  <1>5. ASSUME RefetchArrives
        PROVE  denied' /\ command' = Idle /\ selected' = selected
    BY <1>5 DEF RefetchArrives, Proceeds
  <1>6. ASSUME CommandDenied
        PROVE  denied' /\ command.phase = "sent" /\ selected' = None
    BY <1>6 DEF CommandDenied, AccessLost
  <1>7. ASSUME CommandLost \/ CommandRefused \/ HistoryArrives
        PROVE  denied' /\ command' = Idle /\ selected' = selected
    BY <1>7 DEF CommandLost, CommandRefused, HistoryArrives, panels
  <1>8. CASE Network
    BY <1>1, <1>2, <1>3, <1>4, <1>5, <1>6, <1>7, <1>8 DEF Network
  <1>9. ~ User
    BY <1>1 DEF User, Refresh, ChangePage, Expand, Mounted, OpenNew, CloseEditor, OpenEditor,
                OpenStock, OpenHistory, Submit, Update, Recount, Command
  <1>10. CASE OthersChange \/ AccessWithdrawn
    BY <1>10 DEF OthersChange, AccessWithdrawn, panels
  <1> QED
    BY <1>8, <1>9, <1>10 DEF ScreenNext

\* Access is lost by an answer that counts, and with it what was shown.
LEMMA LosesAccess ==
  ASSUME ScreenInv, ScreenNext, ~ denied, denied'
  PROVE  data'[Items] = None /\ selected' = None
  <1>1. ASSUME NEW l \in loads, LoadArrives(l) PROVE AccessLost
    BY <1>1 DEF LoadArrives
  <1>2. CommandDenied => AccessLost
    BY DEF CommandDenied
  <1>3. AccessLost
    <2>1. CASE Network
      BY <1>1, <1>2, <2>1
         DEF Network, ServeLoad, LoadFails, ServePost, ServeCommand, CommandAnswered,
             RefetchArrives, CommandLost, CommandRefused, HistoryArrives
    <2>2. CASE User
      BY <2>2 DEF User, Refresh, ChangePage, Expand, OpenNew, CloseEditor, OpenEditor,
                  OpenStock, OpenHistory, Submit, Update, Recount, Command
    <2>3. CASE OthersChange \/ AccessWithdrawn
      BY <2>3 DEF OthersChange, AccessWithdrawn
    <2> QED
      BY <2>1, <2>2, <2>3 DEF ScreenNext
  <1> QED
    BY <1>3, ViewsAre DEF AccessLost

\* Rows that are shown without access are those of a recount.
LEMMA DeniedRows ==
  ASSUME ScreenInv, LostSound, ScreenNext, denied
  PROVE  data' = data \/ (Recounted /\ command' = Idle)
  <1>1. data \in [Views -> {None} \cup [page: Pages, seen: Answers]]
        /\ \A v \in AlertViews : data[v] = None
    BY DEF ScreenInv, DataSound
  <1>2. \A l \in loads : ~ Current(l)
    BY NoneCurrent DEF ScreenInv
  <1>3. ASSUME AccessLost, command.phase = "sent" PROVE data' = data
    <2>1. \A v \in Views : data[v] = None
      BY <1>1, <1>3, ViewsAre DEF LostSound
    <2>2. data' = [v \in Views |-> None]
      BY <1>3 DEF AccessLost
    <2> QED
      BY <1>1, <2>1, <2>2
  <1>4. Proceeds => command' = Idle
    BY DEF Proceeds
  <1> QED
    BY <1>2, <1>3, <1>4, RowsChange

LEMMA LostStep ==
  ASSUME ScreenInv, LostSound, [ScreenNext]_screenVars
  PROVE  LostSound'
  <1>1. CASE UNCHANGED screenVars
    BY <1>1 DEF LostSound, screenVars, views, panels
  <1>2. CASE ScreenNext /\ denied
    BY <1>2, WithoutAccess, DeniedRows, IdleIntent DEF LostSound
  <1>3. CASE ScreenNext /\ ~ denied
    BY <1>3, LosesAccess DEF LostSound
  <1> QED
    BY <1>1, <1>2, <1>3

LEMMA FailedStep ==
  ASSUME LoadsSound, FailedSound, [ScreenNext]_screenVars
  PROVE  FailedSound'
  <1>1. Items \in Views
    BY ViewsAre
  <1>2. ASSUME NEW v \in Views, NEW b \in BOOLEAN, failed' = [failed EXCEPT ![v] = b]
        PROVE  FailedSound'
    BY <1>2 DEF FailedSound
  <1>3. ASSUME UNCHANGED failed PROVE FailedSound'
    BY <1>3 DEF FailedSound
  <1>4. ASSUME NEW l \in loads, LoadArrives(l) \/ LoadFails(l) PROVE FailedSound'
    <2>1. l.view \in Views
      BY DEF LoadsSound, Load
    <2>2. UNCHANGED failed \/ failed' = [failed EXCEPT ![l.view] = FALSE]
          \/ failed' = [failed EXCEPT ![l.view] = TRUE]
      BY <1>4 DEF LoadArrives, LoadFails
    <2> QED
      BY <1>2, <1>3, <2>1, <2>2
  <1>5. ASSUME NEW v \in Views, NEW p \in Pages, ChangePage(v, p) PROVE FailedSound'
    BY <1>2, <1>3, <1>5 DEF ChangePage
  <1>6. ASSUME \/ \E i \in Ingredients : OpenHistory(i)
               \/ \E p \in Payloads : Submit(p)
               \/ Update \/ Recount \/ CommandLost \/ CommandRefused
        PROVE  FailedSound'
    BY <1>1, <1>2, <1>3, <1>6 DEF OpenHistory, Submit, Update, Recount, Command, CommandLost,
                                 CommandRefused
  <1>7. CASE Network
    BY <1>3, <1>4, <1>6, <1>7
       DEF Network, ServeLoad, ServePost, ServeCommand, CommandAnswered, RefetchArrives,
           CommandDenied, HistoryArrives, views
  <1>8. CASE User
    BY <1>3, <1>5, <1>6, <1>8
       DEF User, Refresh, Expand, OpenNew, CloseEditor, OpenEditor, OpenStock, views
  <1>9. CASE OthersChange \/ AccessWithdrawn \/ UNCHANGED screenVars
    BY <1>3, <1>9 DEF OthersChange, AccessWithdrawn, screenVars, views
  <1> QED
    BY <1>7, <1>8, <1>9 DEF ScreenNext

LEMMA LateInvariant == ScreenSpec => []LateInv
  <1>1. ScreenInit => LateInv
    <2> SUFFICES ASSUME ScreenInit PROVE LateInv
      OBVIOUS
    <2>1. RowsSound
      <3>1. \A v \in Views : data[v] = None
        BY DEF ScreenInit
      <3>2. \A l, m \in loads : l = m /\ l.answer = None
        BY DEF ScreenInit
      <3> QED
        BY <3>1, <3>2 DEF RowsSound
    <2>2. command.phase = "idle" /\ denied = FALSE
      BY IdleIntent DEF ScreenInit
    <2>3. FailedSound
      BY DEF ScreenInit, FailedSound
    <2> QED
      BY <2>1, <2>2, <2>3, ScreenInitial DEF LateInv, ReloadSound, LostSound
  <1>2. LateInv /\ [ScreenNext]_screenVars => LateInv'
    <2> SUFFICES ASSUME LateInv, [ScreenNext]_screenVars PROVE LateInv'
      OBVIOUS
    <2>1. ScreenInv'
      BY ScreenStep DEF LateInv
    <2> QED
      BY <2>1, RowsStep, ReloadStep, LostStep, FailedStep DEF LateInv, ScreenInv
  <1> QED
    BY <1>1, <1>2, PTL DEF ScreenSpec

LEMMA NeverBack ==
  ASSUME LateInv, ScreenNext
  PROVE  RowsNeverGoBack
  <1> SUFFICES ASSUME ~ Recounted, NEW v \in Views, data[v] # None, data'[v] # None
               PROVE  data'[v].seen >= data[v].seen
    BY DEF RowsNeverGoBack
  <1>1. /\ data \in [Views -> {None} \cup [page: Pages, seen: Answers]]
        /\ data[v].seen \in Nat
    BY DEF LateInv, ScreenInv, DataSound, RowsSound
  <1>2. CASE data'[v] = data[v]
    BY <1>1, <1>2
  <1>3. ASSUME NEW l \in loads, Current(l), l.answer \notin {None, Denied},
               data' = [data EXCEPT ![l.view] = [page |-> l.page, seen |-> l.answer]]
        PROVE  data'[v].seen >= data[v].seen
    <2>1. CASE v # l.view
      BY <1>1, <1>2, <1>3, <2>1
    <2>2. CASE v = l.view
      <3>1. data'[v].seen = l.answer
        BY <1>1, <1>3, <2>2
      <3>2. l.answer \in Nat /\ data[v].seen <= l.answer
        BY <1>3, <2>2 DEF LateInv, RowsSound
      <3> QED
        BY <1>1, <3>1, <3>2
    <2> QED
      BY <2>1, <2>2
  <1>4. ~ AccessLost
    BY DEF AccessLost
  <1>5. ASSUME NEW w \in Views, data' = [data EXCEPT ![w] = None] PROVE data'[v] = data[v]
    BY <1>1, <1>5
  <1> QED
    BY <1>2, <1>3, <1>4, <1>5, RowsChange DEF LateInv

LEMMA AfterSave ==
  ASSUME LateInv, ScreenNext
  PROVE  RowsShowSaves
  <1> SUFFICES ASSUME data'[Items] # data[Items], data'[Items] # None
               PROVE  data'[Items].seen >= saved
    BY DEF RowsShowSaves
  <1>1. /\ data \in [Views -> {None} \cup [page: Pages, seen: Answers]]
        /\ Items \in Views /\ saved \in Nat /\ version \in Nat
    BY ViewsAre DEF LateInv, ScreenInv, CommandSound, DataSound
  <1>2. ASSUME NEW l \in loads, Current(l), l.answer \notin {None, Denied},
               data' = [data EXCEPT ![l.view] = [page |-> l.page, seen |-> l.answer]]
        PROVE  data'[Items].seen >= saved
    <2>1. l.view = Items /\ data'[Items].seen = l.answer
      BY <1>1, <1>2
    <2>2. l.answer \in Nat /\ saved <= l.answer
      BY <1>2, <2>1 DEF LateInv, ScreenInv, LoadsSound, RowsSound, Current
    <2> QED
      BY <1>1, <2>1, <2>2
  <1>3. ASSUME Recounted, command.answer \notin {None, Denied},
               data' = [data EXCEPT ![Items] =
                          [page |-> page[Items], seen |-> command.answer]]
        PROVE  data'[Items].seen >= saved
    <2>1. data'[Items].seen = command.answer
      BY <1>1, <1>3
    <2>2. command.answer \in 0 .. version /\ saved <= command.answer
      BY <1>3 DEF Recounted, LateInv, ScreenInv, CommandSound
    <2> QED
      BY <1>1, <2>1, <2>2
  <1>4. ~ AccessLost
    BY <1>1 DEF AccessLost
  <1>5. ASSUME NEW w \in Views, w # Items, data' = [data EXCEPT ![w] = None] PROVE FALSE
    BY <1>1, <1>5
  <1> QED
    BY <1>2, <1>3, <1>4, <1>5, RowsChange DEF LateInv

LEMMA ReloadShows ==
  ASSUME LateInv, ScreenNext
  PROVE  ReloadShowsSave
  <1> SUFFICES ASSUME command.phase = "reload", command'.phase # "reload", ~ denied'
               PROVE  failed'[Items] \/ (data'[Items] # None /\ data'[Items].seen >= saved)
    BY DEF ReloadShowsSave
  <1>1. /\ data \in [Views -> {None} \cup [page: Pages, seen: Answers]]
        /\ failed \in [Views -> BOOLEAN]
        /\ Items \in Views /\ saved \in Nat /\ command \in Intent
    BY ViewsAre DEF LateInv, ScreenInv, CommandSound, DataSound, FailedSound
  <1>2. command.gen = generation[Items]
    BY WithoutAccess DEF LateInv, ReloadSound
  <1>3. ASSUME NEW l \in loads, LoadArrives(l)
        PROVE  data'[Items] # None /\ data'[Items].seen >= saved
    <2>1. Ends(l) /\ l.view = Items /\ Current(l) /\ l.answer # None
      BY <1>2, <1>3 DEF LoadArrives, Ends, Current
    <2>2. l.answer # Denied
      BY <1>3, <2>1 DEF LoadArrives, AccessLost
    <2>3. PICK d : d = [page |-> l.page, seen |-> l.answer]
      OBVIOUS
    <2>4. data' = [data EXCEPT ![Items] = d]
      BY <1>3, <2>1, <2>2, <2>3 DEF LoadArrives
    <2>5. /\ l.answer \in Nat /\ saved <= l.answer
          /\ l.page \in Pages
      BY <2>1, <2>2 DEF LateInv, ScreenInv, LoadsSound, Load, RowsSound, Current
    <2>6. d \in [page: Pages, seen: Nat] /\ d.seen = l.answer
      BY <2>3, <2>5
    <2>7. data'[Items] = d /\ d # None
      BY <1>1, <2>4, <2>6, ScreenNames
    <2> QED
      BY <1>1, <2>5, <2>6, <2>7
  <1>4. ASSUME NEW l \in loads, LoadFails(l) PROVE failed'[Items]
    <2>1. l.view = Items /\ Current(l)
      BY <1>2, <1>4 DEF LoadFails, Ends, Current
    <2>2. failed' = [failed EXCEPT ![Items] = TRUE]
      BY <1>4, <2>1 DEF LoadFails
    <2> QED
      BY <1>1, <2>2
  <1>5. ASSUME NEW p \in posts, ServePost(p) PROVE FALSE
    <2>1. command' = command \/ \E b : command' = [command EXCEPT !.answer = b]
      BY <1>5 DEF ServePost
    <2> QED
      BY <1>1, <2>1 DEF Intent
  <1>6. CASE Network
    BY <1>3, <1>4, <1>5, <1>6
       DEF Network, ServeLoad, ServeCommand, CommandAnswered, RefetchArrives, CommandDenied,
           CommandLost, CommandRefused, HistoryArrives
  <1>7. ~ User
    BY DEF User, Refresh, ChangePage, Expand, OpenNew, CloseEditor, OpenEditor, OpenStock,
           OpenHistory, Submit, Update, Recount, Command, Locked, Busy
  <1>8. CASE OthersChange \/ AccessWithdrawn
    BY <1>8 DEF OthersChange, AccessWithdrawn
  <1> QED
    BY <1>6, <1>7, <1>8 DEF ScreenNext

LEMMA StaysLost ==
  ASSUME LateInv, ScreenNext
  PROVE  LostForGood
  BY WithoutAccess, DeniedRows DEF LostForGood, LateInv, LostSound

\* Late answers stay out, for any rows, pages, payloads and bounds: no answer takes the
\* rows back behind newer ones or behind a save the table was loaded again for, a command
\* ends with rows that show it or with an error, and without access only a recount that
\* was on its way still sets rows.
THEOREM LateAnswersStayOutHolds == ScreenSpec => LateAnswersStayOut
  <1>1. LateInv /\ [ScreenNext]_screenVars
        => [RowsNeverGoBack /\ RowsShowSaves /\ ReloadShowsSave /\ LostForGood]_screenVars
    BY NeverBack, AfterSave, ReloadShows, StaysLost
  <1> QED
    BY <1>1, LateInvariant, PTL DEF ScreenSpec, LateAnswersStayOut

=============================================================================
