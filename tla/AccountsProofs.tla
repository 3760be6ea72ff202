--------------------------- MODULE AccountsProofs ---------------------------
(***************************************************************************)
(* Proofs about Accounts, for any number of clients, users, tokens and     *)
(* requests, with any clock and any number of failing cache commands.      *)
(* AccountsInv is inductive.  It has one part for each of the three        *)
(* promises and says, for every request in progress, what the request has  *)
(* read or removed so far and will rely on.                                *)
(***************************************************************************)
EXTENDS Accounts, TLAPS

-----------------------------------------------------------------------------
(* The inductive invariant. *)

CallRec ==
    [op : {"none", "login", "refresh", "logout", "reset", "create", "update", "delete"},
     pc : {"idle", "issue", "store", "version", "reject", "rotate", "user", "revoke", "drop",
           "find", "save", "consume", "readver", "bump", "insert", "exists", "delete"},
     u : Users \cup {None}, email : Emails \cup {None}, pw : Passwords \cup {None},
     row : Row, tok : Nat, old : Nat, ver : Nat, rem : Int, before : SUBSET Nat,
     stale : BOOLEAN, failed : BOOLEAN]

Signed == [sub : Users, at : Nat, issued : BOOLEAN]
Session == [sub : Users, ver : Nat, exp : Nat]

Types ==
    /\ users \in [Users -> Row]
    /\ chosen \in [Users -> SUBSET (Passwords \cup {None})]
    /\ session \in [DOMAIN session -> Session]
    /\ reset \in [DOMAIN reset -> [email : Emails, exp : Nat]]
    /\ version \in [DOMAIN version -> [n : Nat, exp : Nat]]
    /\ revoked \in [DOMAIN revoked -> Int]
    /\ token \in Seq(Signed) /\ Len(token) =< MaxTokens
    /\ call \in [Clients -> CallRec]
    /\ resets \in Nat /\ now \in Nat

\* Which steps a request k has, and when it knows its user.
Placed(k) ==
    /\ k.pc \in {"issue", "store"} => k.op \in {"login", "refresh"}
    /\ k.op \in {"login", "refresh", "create", "update", "delete"} => k.u \in Users
    /\ k.op = "login" => k.pc \in {"issue", "store"}
    /\ k.op = "reset" => k.pc \in {"find", "save", "consume", "readver", "bump"}
    /\ k.op = "reset" /\ k.pc # "find" => k.u \in Users
    /\ k.op = "create" => k.email \in Emails

\* An UpdateUser in progress will write a chosen password.
KeepsPassword(k) ==
    k.op = "update" => users[k.u].state # "none" /\ k.row.password \in chosen[k.u]

\* The pair that request k of client c is about to store is nobody else's.
Fresh(c, k) ==
    k.pc = "store" =>
        /\ k.tok \in DOMAIN token
        /\ ~token[k.tok].issued
        /\ token[k.tok].sub = k.u
        /\ k.tok \notin DOMAIN session
        /\ k.tok \notin ended
        /\ \A d \in Clients \ {c} :
              k.tok \notin call[d].before /\ (call[d].pc = "store" => call[d].tok # k.tok)

\* A Refresh holds an issued token, whose session is gone once it is past Del.
Refreshes(k) ==
    k.op = "refresh" =>
        /\ k.old \in DOMAIN token
        /\ token[k.old].issued
        /\ token[k.old].sub = k.u
        /\ ~k.failed /\ k.pc \in {"user", "issue", "store"} => k.old \notin DOMAIN session

\* A Logout's entry on the blacklist will last as long as the access token.
LogsOut(k) ==
    k.op = "logout" =>
        /\ k.tok \in DOMAIN token
        /\ k.pc = "revoke" => now + k.rem >= token[k.tok].at + AccessTTL
        /\ k.old # 0 \/ k.pc = "drop" => k.old \in DOMAIN token

\* A ResetPassword that is past Del has used up its token.
Resets(k) ==
    k.op = "reset" =>
        /\ k.tok \in 1 .. resets
        /\ ~k.failed /\ k.pc \in {"readver", "bump"} => k.tok \notin DOMAIN reset

\* The versions that a request carries, against the last one of its user.
Carries(k) ==
    /\ k.pc = "store" /\ k.u \notin clobbered => k.ver =< Last(k.u)
    /\ \A i \in k.before : i \in DOMAIN token /\ token[i].sub = k.u
    /\ k.before # {} => k.op = "reset"
    /\ k.stale => k.op = "refresh" /\ k.old \in ended
    /\ k.stale /\ k.pc = "version" /\ k.u \notin clobbered => k.ver < Last(k.u)
    /\ k.stale /\ ~k.failed /\ k.u \notin clobbered /\ now < token[k.old].at + VersionTTL =>
          k.pc \in {"version", "reject"}

CallOK(c, k) ==
    /\ Placed(k) /\ KeepsPassword(k) /\ Fresh(c, k)
    /\ Refreshes(k) /\ LogsOut(k) /\ Resets(k) /\ Carries(k)

\* Whatever is stored belongs to something issued before.
StoredOK ==
    /\ DOMAIN session \subseteq DOMAIN token
    /\ DOMAIN reset \subseteq 1 .. resets
    /\ \A i \in DOMAIN token : token[i].at =< now
    /\ \A u \in DOMAIN version : version[u].exp =< now + VersionTTL

\* What has been spent opens nothing, and will not be stored again.
SpentOK ==
    /\ \A i \in 1 .. MaxTokens : <<"refresh", i>> \in spent =>
          i \in DOMAIN token /\ token[i].issued /\ i \notin DOMAIN session
    /\ \A i \in 1 .. MaxTokens : <<"access", i>> \in spent =>
          i \in DOMAIN token /\ i \in DOMAIN revoked /\ revoked[i] >= token[i].at + AccessTTL
    /\ \A i \in 1 .. MaxTokens : <<"reset", i>> \in spent => i \in 1 .. resets /\ i \notin DOMAIN reset

\* Unless a version was clobbered, no session is ahead of the last version of
\* its user, and ended ones are behind it, in a key that outlives them.
SessionOK(i) ==
    /\ session[i].sub = token[i].sub
    /\ token[i].sub \notin clobbered => session[i].ver =< Last(token[i].sub)
    /\ token[i].sub \notin clobbered /\ i \in ended => session[i].ver < Last(token[i].sub)

EndedOK(i) ==
    /\ i \in DOMAIN token
    /\ token[i].sub \in DOMAIN version
    /\ version[token[i].sub].exp >= token[i].at + VersionTTL

AccountsInv ==
    /\ Types
    /\ PasswordsLastUnlessOverwritten
    /\ StoredOK /\ SpentOK
    /\ \A i \in DOMAIN session : SessionOK(i)
    /\ \A i \in ended : EndedOK(i)
    /\ \A c \in Clients : CallOK(c, call[c])

-----------------------------------------------------------------------------
(* Requests: what their records hold, and the steps that change nothing else. *)

LEMMA TTLs == /\ AccessTTL \in Nat /\ RefreshTTL \in Nat /\ ResetTTL \in Nat /\ VersionTTL \in Nat
              /\ MaxTokens \in Nat
BY AccountsAssumption

LEMMA TokenFacts ==
    ASSUME Types, NEW i \in DOMAIN token
    PROVE  /\ i \in Nat /\ i \in 1 .. Len(token) /\ i \in 1 .. MaxTokens
           /\ token[i] \in Signed
           /\ token[i].sub \in Users /\ token[i].at \in Nat /\ token[i].issued \in BOOLEAN
<1>1. token \in Seq(Signed) /\ Len(token) =< MaxTokens
  BY DEF Types
<1>2. i \in 1 .. Len(token) /\ token[i] \in Signed
  BY <1>1
<1>3. Len(token) \in Nat
  BY <1>1
<1> QED
  BY <1>1, <1>2, <1>3, TTLs DEF Signed

LEMMA NoCallFacts ==
    /\ NoCall \in CallRec
    /\ NoCall.op = "none" /\ NoCall.pc = "idle" /\ NoCall.before = {} /\ NoCall.stale = FALSE
    /\ \A c : CallOK(c, NoCall)
BY DEF NoCall, CallRec, NoRow, Row, CallOK, Placed, KeepsPassword, Fresh, Refreshes, LogsOut,
       Resets, Carries

\* The record of one request becomes r.  The sessions that r's reset will end
\* are not those that others are about to store.
LEMMA CallMoves ==
    ASSUME AccountsInv, NEW c \in Clients, NEW r \in CallRec,
           call' = [call EXCEPT ![c] = r],
           UNCHANGED <<users, cacheVars, token, resets, now, clobbered, spent, ended, chosen>>,
           CallOK(c, r),
           \A d \in Clients \ {c} : call[d].pc = "store" => call[d].tok \notin r.before
    PROVE  AccountsInv'
<1> USE DEF AccountsInv, cacheVars
<1>1. Types'
  BY DEF Types
<1>2. call'[c] = r /\ \A d \in Clients \ {c} : call'[d] = call[d]
  BY DEF Types
<1>3. CallOK(c, call[c])'
  <2>1. Fresh(c, r) => Fresh(c, call[c])'
    BY <1>2 DEF Fresh
  <2> QED
    BY <1>2, <2>1 DEF CallOK, Placed, KeepsPassword, Refreshes, LogsOut, Resets, Carries, Last
<1>4. ASSUME NEW d \in Clients, d # c PROVE CallOK(d, call[d])'
  <2>1. Fresh(d, call[d])'
    BY <1>2, <1>4 DEF CallOK, Fresh
  <2> QED
    BY <1>2, <1>4, <2>1 DEF CallOK, Placed, KeepsPassword, Refreshes, LogsOut, Resets, Carries, Last
<1>5. PasswordsLastUnlessOverwritten' /\ StoredOK' /\ SpentOK'
  BY DEF PasswordsLastUnlessOverwritten, StoredOK, SpentOK
<1>6. (\A i \in DOMAIN session : SessionOK(i))' /\ (\A i \in ended : EndedOK(i))'
  BY DEF SessionOK, EndedOK, Last
<1> QED
  BY <1>1, <1>3, <1>4, <1>5, <1>6

\* The first step of every request that is not finished by it.
LEMMA BeginSteps ==
    ASSUME AccountsInv, NEW c \in Clients
    PROVE  /\ \A e \in Emails, pw \in Passwords : Login(c, e, pw) => AccountsInv'
           /\ \A i \in DOMAIN token : Refresh(c, i) => AccountsInv'
           /\ \A i \in DOMAIN token, both \in BOOLEAN : Logout(c, i, both) => AccountsInv'
           /\ \A i \in DOMAIN reset, pw \in Passwords : ResetPassword(c, i, pw) => AccountsInv'
           /\ \A u \in Users, e \in Emails, pw \in Passwords : CreateUser(c, u, e, pw) => AccountsInv'
           /\ \A u \in Users, e \in Emails : UpdateUser(c, u, e) => AccountsInv'
           /\ \A u \in Users : DeleteUser(c, u) => AccountsInv'
<1> USE DEF Begin, history
<1>1. ASSUME NEW e \in Emails, NEW pw \in Passwords, Login(c, e, pw) PROVE AccountsInv'
  <2>1. PICK u \in Users : Begin(c, [NoCall EXCEPT !.op = "login", !.pc = "issue", !.u = u])
    BY <1>1 DEF Login, FindByEmail
  <2> DEFINE r == [NoCall EXCEPT !.op = "login", !.pc = "issue", !.u = u]
  <2>2. r \in CallRec /\ CallOK(c, r) /\ r.before = {}
    BY NoCallFacts DEF CallRec, CallOK, Placed, KeepsPassword, Fresh, Refreshes, LogsOut, Resets, Carries
  <2> HIDE DEF r
  <2> QED
    BY <1>1, <2>1, <2>2, CallMoves DEF Login, r
<1>2. ASSUME NEW i \in DOMAIN token, Refresh(c, i) PROVE AccountsInv'
  <2> DEFINE r == [NoCall EXCEPT !.op = "refresh", !.pc = "version", !.u = token[i].sub,
                                 !.old = i, !.ver = session[i].ver, !.stale = i \in ended]
  <2>1. i \in DOMAIN session /\ token[i].issued /\ SessionOK(i) /\ i \in Nat
        /\ token[i].sub \in Users /\ session[i].ver \in Nat /\ (i \in ended) \in BOOLEAN
    BY <1>2 DEF Refresh, Live, Verifies, AccountsInv, Types, Signed, Session
  <2>2. /\ r \in CallRec /\ r.before = {} /\ r.op = "refresh" /\ r.pc = "version"
        /\ r.u = token[i].sub /\ r.old = i /\ r.ver = session[i].ver /\ r.stale = (i \in ended)
    BY <2>1, NoCallFacts DEF CallRec
  <2> HIDE DEF r
  <2>3. CallOK(c, r)
    BY <2>1, <2>2 DEF CallOK, Placed, KeepsPassword, Fresh, Refreshes, LogsOut, Resets, Carries,
                      SessionOK
  <2> QED
    BY <1>2, <2>2, <2>3, CallMoves DEF Refresh, r
<1>3. ASSUME NEW i \in DOMAIN token, NEW both \in BOOLEAN, Logout(c, i, both) PROVE AccountsInv'
  <2> DEFINE r == [NoCall EXCEPT !.op = "logout", !.pc = "revoke", !.tok = i,
                                 !.old = IF both THEN i ELSE 0,
                                 !.rem = token[i].at + AccessTTL - now]
  <2>0. i \in Nat /\ token[i].at \in Nat /\ now \in Nat
    BY TokenFacts DEF AccountsInv, Types
  <2>1. /\ i \in Nat /\ (IF both THEN i ELSE 0) \in Nat
        /\ token[i].at + AccessTTL - now \in Int
        /\ now + (token[i].at + AccessTTL - now) >= token[i].at + AccessTTL
    BY <2>0, TTLs
  <2>2. /\ r \in CallRec /\ r.before = {} /\ r.op = "logout" /\ r.pc = "revoke" /\ r.tok = i
        /\ r.old = (IF both THEN i ELSE 0) /\ r.rem = token[i].at + AccessTTL - now
        /\ r.stale = FALSE
    BY <2>1, NoCallFacts DEF CallRec
  <2> HIDE DEF r
  <2>3. CallOK(c, r)
    BY <2>1, <2>2 DEF CallOK, Placed, KeepsPassword, Fresh, Refreshes, LogsOut, Resets, Carries
  <2> QED
    BY <1>3, <2>2, <2>3, CallMoves DEF Logout, r
<1>4. ASSUME NEW i \in DOMAIN reset, NEW pw \in Passwords, ResetPassword(c, i, pw) PROVE AccountsInv'
  <2> DEFINE r == [NoCall EXCEPT !.op = "reset", !.pc = "find", !.tok = i, !.pw = pw,
                                 !.email = reset[i].email]
  <2>1. i \in 1 .. resets /\ i \in Nat /\ reset[i].email \in Emails
    BY DEF AccountsInv, Types, StoredOK
  <2>2. /\ r \in CallRec /\ r.before = {} /\ r.op = "reset" /\ r.pc = "find" /\ r.tok = i
        /\ r.stale = FALSE
    BY <2>1, NoCallFacts DEF CallRec
  <2> HIDE DEF r
  <2>3. CallOK(c, r)
    BY <2>1, <2>2 DEF CallOK, Placed, KeepsPassword, Fresh, Refreshes, LogsOut, Resets, Carries
  <2> QED
    BY <1>4, <2>2, <2>3, CallMoves DEF ResetPassword, r
<1>5. ASSUME NEW u \in Users, NEW e \in Emails, NEW pw \in Passwords, CreateUser(c, u, e, pw)
      PROVE  AccountsInv'
  <2> DEFINE r == [NoCall EXCEPT !.op = "create", !.pc = "insert", !.u = u, !.email = e, !.pw = pw]
  <2>1. r \in CallRec /\ CallOK(c, r) /\ r.before = {}
    BY NoCallFacts DEF CallRec, CallOK, Placed, KeepsPassword, Fresh, Refreshes, LogsOut, Resets, Carries
  <2> HIDE DEF r
  <2> QED
    BY <1>5, <2>1, CallMoves DEF CreateUser, r
<1>6. ASSUME NEW u \in Users, NEW e \in Emails, UpdateUser(c, u, e) PROVE AccountsInv'
  <2> DEFINE r == [NoCall EXCEPT !.op = "update", !.u = u, !.row = users[u], !.email = e,
                                 !.pc = IF e = users[u].email THEN "save" ELSE "exists"]
  <2>1. users[u] \in Row /\ users[u].state = "live" /\ users[u].password \in chosen[u]
    BY <1>6 DEF UpdateUser, FindByID, AccountsInv, Types, PasswordsLastUnlessOverwritten
  <2>2. /\ r \in CallRec /\ r.before = {} /\ r.op = "update" /\ r.pc \in {"save", "exists"}
        /\ r.u = u /\ r.row = users[u] /\ r.stale = FALSE
    BY <2>1, NoCallFacts DEF CallRec
  <2> HIDE DEF r
  <2>3. CallOK(c, r)
    BY <2>1, <2>2 DEF CallOK, Placed, KeepsPassword, Fresh, Refreshes, LogsOut, Resets, Carries
  <2> QED
    BY <1>6, <2>2, <2>3, CallMoves DEF UpdateUser, r
<1>7. ASSUME NEW u \in Users, DeleteUser(c, u) PROVE AccountsInv'
  <2> DEFINE r == [NoCall EXCEPT !.op = "delete", !.pc = "delete", !.u = u]
  <2>1. r \in CallRec /\ CallOK(c, r) /\ r.before = {}
    BY NoCallFacts DEF CallRec, CallOK, Placed, KeepsPassword, Fresh, Refreshes, LogsOut, Resets, Carries
  <2> HIDE DEF r
  <2> QED
    BY <1>7, <2>1, CallMoves DEF DeleteUser, r
<1> QED
  BY <1>1, <1>2, <1>3, <1>4, <1>5, <1>6, <1>7

\* The answer goes out and nothing else happens.
LEMMA Returns ==
    ASSUME AccountsInv, NEW c \in Clients, Return(c),
           UNCHANGED <<users, cacheVars, token, resets, now, clobbered, spent, ended, chosen>>
    PROVE  AccountsInv'
BY NoCallFacts, CallMoves DEF Return

\* The middle steps of a request that change nothing but the request itself.
LEMMA MiddleSteps ==
    ASSUME AccountsInv, NEW c \in Clients,
           RefreshVersion(c) \/ RefreshUser(c) \/ ResetFind(c) \/ ResetReadVersion(c) \/ UpdateExists(c)
    PROVE  AccountsInv'
<1> DEFINE k == call[c]
<1>0. k \in CallRec /\ CallOK(c, k)
  BY DEF AccountsInv, Types
<1> USE DEF history
<1>1. CASE RefreshVersion(c)
  <2> DEFINE pc == IF k.ver < Current(k.u) THEN "reject" ELSE "rotate"
             r == [k EXCEPT !.pc = pc]
  <2>1. k.op = "refresh" /\ k.pc = "version" /\ pc \in {"reject", "rotate"}
    BY <1>1 DEF RefreshVersion, At
  <2>2. /\ r \in CallRec /\ r.pc = pc /\ r.op = k.op /\ r.u = k.u /\ r.old = k.old
        /\ r.stale = k.stale /\ r.before = k.before /\ r.failed = k.failed
    BY <1>0, <2>1 DEF CallRec
  <2>3. call' = [call EXCEPT ![c] = r]
    BY <1>1 DEF RefreshVersion, Goto
  <2>4. k.stale /\ k.u \notin clobbered /\ now < token[k.old].at + VersionTTL => pc = "reject"
    <3> SUFFICES ASSUME k.stale, k.u \notin clobbered, now < token[k.old].at + VersionTTL
                 PROVE  k.ver < Current(k.u)
      OBVIOUS
    <3>1. /\ k.old \in ended /\ k.ver < Last(k.u) /\ k.old \in DOMAIN token
          /\ token[k.old].sub = k.u
      BY <1>0, <2>1 DEF CallOK, Carries, Refreshes
    <3>2. k.u \in DOMAIN version /\ version[k.u].exp >= token[k.old].at + VersionTTL
      BY <3>1 DEF AccountsInv, EndedOK
    <3>3. version[k.u].exp \in Nat /\ token[k.old].at \in Nat /\ now \in Nat
      BY <3>1, <3>2, TokenFacts DEF AccountsInv, Types
    <3> QED
      BY <3>1, <3>2, <3>3, TTLs DEF Current, Live, Last
  <2> HIDE DEF r, pc
  <2>5. CallOK(c, r)
    BY <1>0, <2>1, <2>2, <2>4 DEF CallOK, Placed, KeepsPassword, Fresh, Refreshes, LogsOut, Resets, Carries
  <2>6. r.before = {}
    BY <1>0, <2>1, <2>2 DEF CallOK, Carries
  <2> QED
    BY <1>1, <2>2, <2>3, <2>5, <2>6, CallMoves DEF RefreshVersion
<1>2. CASE RefreshUser(c)
  <2> DEFINE r == [k EXCEPT !.pc = "issue"]
  <2>1. k.op = "refresh" /\ k.pc = "user"
    BY <1>2 DEF RefreshUser, At
  <2>2. /\ r \in CallRec /\ r.pc = "issue" /\ r.op = k.op /\ r.u = k.u /\ r.old = k.old
        /\ r.stale = k.stale /\ r.before = k.before /\ r.failed = k.failed
    BY <1>0 DEF CallRec
  <2>3. Return(c) \/ call' = [call EXCEPT ![c] = r]
    BY <1>2 DEF RefreshUser, Goto
  <2> HIDE DEF r
  <2>4. CallOK(c, r)
    BY <1>0, <2>1, <2>2 DEF CallOK, Placed, KeepsPassword, Fresh, Refreshes, LogsOut, Resets, Carries
  <2>5. r.before = {}
    BY <1>0, <2>1, <2>2 DEF CallOK, Carries
  <2> QED
    BY <1>2, <2>2, <2>3, <2>4, <2>5, CallMoves, Returns DEF RefreshUser
<1>3. CASE ResetFind(c)
  <2>1. k.op = "reset" /\ k.pc = "find"
    BY <1>3 DEF ResetFind, At
  <2>2. CASE Return(c)
    BY <1>3, <2>2, Returns DEF ResetFind
  <2>3. ASSUME NEW u \in FindByEmail(k.email),
               call' = [call EXCEPT ![c] = [k EXCEPT !.pc = "save", !.u = u, !.row = users[u],
                           !.before = {i \in DOMAIN session : session[i].sub = u}]]
        PROVE  AccountsInv'
    <3> DEFINE b == {i \in DOMAIN session : session[i].sub = u}
               r == [k EXCEPT !.pc = "save", !.u = u, !.row = users[u], !.before = b]
    <3>1. u \in Users /\ users[u] \in Row
      BY DEF FindByEmail, AccountsInv, Types
    <3>2. \A i \in b : i \in DOMAIN token /\ token[i].sub = u /\ i \in Nat
      BY TokenFacts DEF AccountsInv, StoredOK, SessionOK
    <3>3. b \in SUBSET Nat
      BY <3>2
    <3> HIDE DEF b
    <3>4. /\ r \in CallRec /\ r.pc = "save" /\ r.op = "reset" /\ r.u = u /\ r.tok = k.tok
          /\ r.stale = k.stale /\ r.before = b /\ r.failed = k.failed
      BY <1>0, <2>1, <3>1, <3>3 DEF CallRec
    <3>5. call' = [call EXCEPT ![c] = r]
      BY <2>3 DEF b
    <3> HIDE DEF r
    <3>6. CallOK(c, r)
      BY <1>0, <2>1, <3>1, <3>2, <3>4
      DEF CallOK, Placed, KeepsPassword, Fresh, Refreshes, LogsOut, Resets, Carries
    <3>7. \A d \in Clients \ {c} : call[d].pc = "store" => call[d].tok \notin r.before
      BY <3>4 DEF AccountsInv, CallOK, Fresh, b
    <3> QED
      BY <1>3, <3>4, <3>5, <3>6, <3>7, CallMoves DEF ResetFind
  <2> QED
    BY <1>3, <2>2, <2>3 DEF ResetFind
<1>4. CASE ResetReadVersion(c)
  <2> DEFINE r == [k EXCEPT !.pc = "bump", !.ver = Current(k.u)]
  <2>1. k.op = "reset" /\ k.pc = "readver" /\ Current(k.u) \in Nat
    BY <1>4 DEF ResetReadVersion, At, Current, Live, AccountsInv, Types
  <2>2. /\ r \in CallRec /\ r.pc = "bump" /\ r.op = "reset" /\ r.u = k.u /\ r.tok = k.tok
        /\ r.stale = k.stale /\ r.before = k.before /\ r.failed = k.failed
    BY <1>0, <2>1 DEF CallRec
  <2>3. call' = [call EXCEPT ![c] = r]
    BY <1>4 DEF ResetReadVersion
  <2> HIDE DEF r
  <2>4. CallOK(c, r)
    BY <1>0, <2>1, <2>2 DEF CallOK, Placed, KeepsPassword, Fresh, Refreshes, LogsOut, Resets, Carries
  <2>5. \A d \in Clients \ {c} : call[d].pc = "store" => call[d].tok \notin r.before
    BY <2>2 DEF AccountsInv, CallOK, Fresh
  <2> QED
    BY <1>4, <2>2, <2>3, <2>4, <2>5, CallMoves DEF ResetReadVersion
<1>5. CASE UpdateExists(c)
  <2> DEFINE r == [k EXCEPT !.pc = "save"]
  <2>1. k.op = "update"
    BY <1>5 DEF UpdateExists, At
  <2>2. /\ r \in CallRec /\ r.pc = "save" /\ r.op = k.op /\ r.u = k.u /\ r.row = k.row
        /\ r.stale = k.stale /\ r.before = k.before
    BY <1>0 DEF CallRec
  <2>3. Return(c) \/ call' = [call EXCEPT ![c] = r]
    BY <1>5 DEF UpdateExists, Goto
  <2> HIDE DEF r
  <2>4. CallOK(c, r)
    BY <1>0, <2>1, <2>2 DEF CallOK, Placed, KeepsPassword, Fresh, Refreshes, LogsOut, Resets, Carries
  <2>5. r.before = {}
    BY <1>0, <2>1, <2>2 DEF CallOK, Carries
  <2> QED
    BY <1>5, <2>2, <2>3, <2>4, <2>5, CallMoves, Returns DEF UpdateExists
<1> QED
  BY <1>1, <1>2, <1>3, <1>4, <1>5

-----------------------------------------------------------------------------
(* The users table. *)

\* Rows and the passwords chosen for them change, and the request becomes r.
LEMMA RowMoves ==
    ASSUME AccountsInv, NEW c \in Clients, NEW r \in CallRec,
           call' = [call EXCEPT ![c] = r],
           UNCHANGED <<cacheVars, token, resets, now, clobbered, spent, ended>>,
           users' \in [Users -> Row],
           chosen' \in [Users -> SUBSET (Passwords \cup {None})],
           PasswordsLastUnlessOverwritten',
           \A d \in Clients \ {c} : call[d].op = "update" => KeepsPassword(call[d])',
           CallOK(c, r), r.op # "update",
           \A d \in Clients \ {c} : call[d].pc = "store" => call[d].tok \notin r.before
    PROVE  AccountsInv'
<1> USE DEF AccountsInv, cacheVars
<1>1. Types'
  BY DEF Types
<1>2. call'[c] = r /\ \A d \in Clients \ {c} : call'[d] = call[d]
  BY DEF Types
<1>3. CallOK(c, call[c])'
  <2>1. Fresh(c, r) => Fresh(c, call[c])'
    BY <1>2 DEF Fresh
  <2> QED
    BY <1>2, <2>1 DEF CallOK, Placed, KeepsPassword, Refreshes, LogsOut, Resets, Carries, Last
<1>4. ASSUME NEW d \in Clients, d # c PROVE CallOK(d, call[d])'
  <2>1. Fresh(d, call[d])'
    BY <1>2, <1>4 DEF CallOK, Fresh
  <2>2. KeepsPassword(call[d])'
    BY <1>2, <1>4 DEF KeepsPassword
  <2> QED
    BY <1>2, <1>4, <2>1, <2>2 DEF CallOK, Placed, Refreshes, LogsOut, Resets, Carries, Last
<1>5. StoredOK' /\ SpentOK'
  BY DEF StoredOK, SpentOK
<1>6. (\A i \in DOMAIN session : SessionOK(i))' /\ (\A i \in ended : EndedOK(i))'
  BY DEF SessionOK, EndedOK, Last
<1> QED
  BY <1>1, <1>3, <1>4, <1>5, <1>6

LEMMA RowSteps ==
    ASSUME AccountsInv, NEW c \in Clients,
           ResetSave(c) \/ CreateInsert(c) \/ UpdateSave(c) \/ DeleteRow(c)
    PROVE  AccountsInv'
<1> DEFINE k == call[c]
<1>0. k \in CallRec /\ CallOK(c, k) /\ k.row \in Row
  BY DEF AccountsInv, Types, CallRec
<1> USE DEF history
<1>1. CASE ResetSave(c)
  <2> DEFINE r == [k EXCEPT !.pc = "consume"]
             w == [k.row EXCEPT !.password = k.pw]
             v == [w EXCEPT !.state = "live"]
  <2>1. k.op = "reset" /\ k.pc = "save" /\ k.u \in Users
    BY <1>0, <1>1 DEF ResetSave, At, CallOK, Placed
  <2>2. /\ r \in CallRec /\ r.pc = "consume" /\ r.op = "reset" /\ r.u = k.u /\ r.tok = k.tok
        /\ r.stale = k.stale /\ r.before = k.before
    BY <1>0, <2>1 DEF CallRec
  <2>3. w \in Row /\ w.email = k.row.email /\ w.password = k.pw
    BY <1>0 DEF CallRec, Row
  <2> HIDE DEF w
  <2>4. v \in Row /\ v.password = k.pw
    BY <2>3 DEF Row
  <2> HIDE DEF v
  <2>5. CASE IndexAllows(k.u, k.row.email)
    <3>1. /\ users' = [users EXCEPT ![k.u] = v]
          /\ chosen' = [chosen EXCEPT ![k.u] = Chosen(k.u, k.pw)]
          /\ call' = [call EXCEPT ![c] = r]
      BY <1>1, <2>3, <2>5 DEF ResetSave, Save, Saves, Goto, w, v
    <3> HIDE DEF r
    <3>2. users \in [Users -> Row] /\ chosen \in [Users -> SUBSET (Passwords \cup {None})]
      BY DEF AccountsInv, Types
    <3>3. Chosen(k.u, k.pw) \in SUBSET (Passwords \cup {None})
      <4>1. \A d \in Clients : call[d] \in CallRec
        BY DEF AccountsInv, Types
      <4>2. \A d \in Clients : call[d].row.password \in Passwords \cup {None}
        BY <4>1 DEF CallRec, Row
      <4>3. k.pw \in Passwords \cup {None}
        BY <1>0 DEF CallRec
      <4> QED
        BY <4>2, <4>3 DEF Chosen
    <3>4. users' \in [Users -> Row] /\ chosen' \in [Users -> SUBSET (Passwords \cup {None})]
      BY <2>4, <3>1, <3>2, <3>3
    <3>5. PasswordsLastUnlessOverwritten'
      <4>1. k.pw \in Chosen(k.u, k.pw)
        BY DEF Chosen
      <4> QED
        BY <2>1, <2>4, <3>1, <3>2, <4>1 DEF AccountsInv, PasswordsLastUnlessOverwritten
    <3>6. ASSUME NEW d \in Clients \ {c}, call[d].op = "update" PROVE KeepsPassword(call[d])'
      <4>1. call'[d] = call[d]
        BY <3>1 DEF AccountsInv, Types
      <4>2. KeepsPassword(call[d]) /\ call[d].u \in Users
        BY <3>6 DEF AccountsInv, CallOK, Placed
      <4>3. call[d].u = k.u => call[d].row.password \in Chosen(k.u, k.pw)
        BY <3>6 DEF Chosen
      <4>4. v.state # "none"
        BY <2>3 DEF v, Row
      <4> QED
        BY <2>1, <3>1, <3>2, <3>6, <4>1, <4>2, <4>3, <4>4 DEF KeepsPassword
    <3>7. CallOK(c, r)
      BY <1>0, <2>1, <2>2 DEF CallOK, Placed, KeepsPassword, Fresh, Refreshes, LogsOut, Resets, Carries
    <3>8. \A d \in Clients \ {c} : call[d].pc = "store" => call[d].tok \notin r.before
      BY <2>2 DEF AccountsInv, CallOK, Fresh
    <3> QED
      BY <1>1, <2>2, <3>1, <3>4, <3>5, <3>6, <3>7, <3>8, RowMoves DEF ResetSave
  <2>6. CASE ~IndexAllows(k.u, k.row.email)
    BY <1>1, <2>3, <2>6, Returns DEF ResetSave, Save, Saves, w
  <2> QED
    BY <2>5, <2>6
<1>2. CASE CreateInsert(c)
  <2>1. k.op = "create" /\ k.u \in Users /\ k.email \in Emails /\ k.pw \in Passwords \cup {None}
    BY <1>0, <1>2 DEF CreateInsert, At, CallOK, Placed, CallRec
  <2>2. CASE users[k.u].state = "none" /\ IndexAllows(k.u, k.email)
    <3> DEFINE v == [state |-> "live", email |-> k.email, password |-> k.pw]
    <3>1. /\ users' = [users EXCEPT ![k.u] = v]
          /\ chosen' = [chosen EXCEPT ![k.u] = {k.pw}]
          /\ call' = [call EXCEPT ![c] = NoCall]
      BY <1>2, <2>2 DEF CreateInsert, Return
    <3>2. v \in Row /\ v.password = k.pw /\ v.state = "live"
      BY <2>1 DEF Row
    <3> HIDE DEF v
    <3>3. users \in [Users -> Row] /\ chosen \in [Users -> SUBSET (Passwords \cup {None})]
      BY DEF AccountsInv, Types
    <3>4. users' \in [Users -> Row] /\ chosen' \in [Users -> SUBSET (Passwords \cup {None})]
      BY <2>1, <3>1, <3>2, <3>3
    <3>5. PasswordsLastUnlessOverwritten'
      BY <2>1, <3>1, <3>2, <3>3 DEF AccountsInv, PasswordsLastUnlessOverwritten
    <3>6. ASSUME NEW d \in Clients \ {c}, call[d].op = "update" PROVE KeepsPassword(call[d])'
      <4>1. call'[d] = call[d]
        BY <3>1 DEF AccountsInv, Types
      <4>2. KeepsPassword(call[d]) /\ call[d].u \in Users
        BY <3>6 DEF AccountsInv, CallOK, Placed
      <4> QED
        BY <2>1, <2>2, <3>1, <3>3, <3>6, <4>1, <4>2 DEF KeepsPassword
    <3> QED
      BY <1>2, <3>1, <3>4, <3>5, <3>6, NoCallFacts, RowMoves DEF CreateInsert
  <2>3. CASE ~(users[k.u].state = "none" /\ IndexAllows(k.u, k.email))
    BY <1>2, <2>3, Returns DEF CreateInsert
  <2> QED
    BY <2>2, <2>3
<1>3. CASE UpdateSave(c)
  <2> DEFINE w == [k.row EXCEPT !.email = k.email]
             v == [w EXCEPT !.state = "live"]
  <2>1. k.op = "update" /\ k.u \in Users /\ KeepsPassword(k)
    BY <1>0, <1>3 DEF UpdateSave, At, CallOK, Placed
  <2>2. w \in Row /\ w.password = k.row.password
    BY <1>0 DEF CallRec, Row
  <2> HIDE DEF w
  <2>3. v \in Row /\ v.password = k.row.password /\ v.state = "live"
    BY <2>2 DEF Row
  <2> HIDE DEF v
  <2>4. CASE IndexAllows(k.u, w.email)
    <3>1. users' = [users EXCEPT ![k.u] = v] /\ call' = [call EXCEPT ![c] = NoCall] /\ chosen' = chosen
      BY <1>3, <2>4 DEF UpdateSave, Save, Return, w, v
    <3>2. users \in [Users -> Row] /\ chosen \in [Users -> SUBSET (Passwords \cup {None})]
      BY DEF AccountsInv, Types
    <3>3. users' \in [Users -> Row] /\ chosen' \in [Users -> SUBSET (Passwords \cup {None})]
      BY <2>1, <2>3, <3>1, <3>2
    <3>4. PasswordsLastUnlessOverwritten'
      BY <2>1, <2>3, <3>1, <3>2 DEF AccountsInv, PasswordsLastUnlessOverwritten, KeepsPassword
    <3>5. ASSUME NEW d \in Clients \ {c}, call[d].op = "update" PROVE KeepsPassword(call[d])'
      <4>1. call'[d] = call[d]
        BY <3>1 DEF AccountsInv, Types
      <4>2. KeepsPassword(call[d]) /\ call[d].u \in Users
        BY <3>5 DEF AccountsInv, CallOK, Placed
      <4> QED
        BY <2>1, <2>3, <3>1, <3>2, <3>5, <4>1, <4>2 DEF KeepsPassword
    <3> QED
      BY <1>3, <3>1, <3>3, <3>4, <3>5, NoCallFacts, RowMoves DEF UpdateSave
  <2>5. CASE ~IndexAllows(k.u, w.email)
    BY <1>3, <2>5, Returns DEF UpdateSave, Save, w
  <2> QED
    BY <2>4, <2>5
<1>4. CASE DeleteRow(c)
  <2>1. k.op = "delete" /\ k.u \in Users
    BY <1>0, <1>4 DEF DeleteRow, At, CallOK, Placed
  <2>2. users \in [Users -> Row] /\ chosen \in [Users -> SUBSET (Passwords \cup {None})]
    BY DEF AccountsInv, Types
  <2>3. CASE FindByID(k.u)
    <3> DEFINE v == [users[k.u] EXCEPT !.state = "deleted"]
    <3>1. users' = [users EXCEPT ![k.u] = v] /\ call' = [call EXCEPT ![c] = NoCall] /\ chosen' = chosen
      BY <1>4, <2>3 DEF DeleteRow, Return
    <3>2. v \in Row /\ v.state = "deleted"
      BY <2>1, <2>2 DEF Row
    <3> HIDE DEF v
    <3>3. users' \in [Users -> Row] /\ chosen' \in [Users -> SUBSET (Passwords \cup {None})]
      BY <2>1, <2>2, <3>1, <3>2
    <3>4. PasswordsLastUnlessOverwritten'
      BY <2>1, <2>2, <3>1, <3>2 DEF AccountsInv, PasswordsLastUnlessOverwritten
    <3>5. ASSUME NEW d \in Clients \ {c}, call[d].op = "update" PROVE KeepsPassword(call[d])'
      <4>1. call'[d] = call[d]
        BY <3>1 DEF AccountsInv, Types
      <4>2. KeepsPassword(call[d]) /\ call[d].u \in Users
        BY <3>5 DEF AccountsInv, CallOK, Placed
      <4> QED
        BY <2>1, <2>2, <3>1, <3>2, <3>5, <4>1, <4>2 DEF KeepsPassword
    <3> QED
      BY <1>4, <3>1, <3>3, <3>4, <3>5, NoCallFacts, RowMoves DEF DeleteRow
  <2>4. CASE ~FindByID(k.u)
    BY <1>4, <2>4, Returns DEF DeleteRow
  <2> QED
    BY <2>3, <2>4
<1> QED
  BY <1>1, <1>2, <1>3, <1>4

-----------------------------------------------------------------------------
(* Tokens and sessions. *)

LEMMA PutType ==
    ASSUME NEW S, NEW f, f \in [DOMAIN f -> S], NEW k, NEW v \in S
    PROVE  Put(f, k, v) \in [DOMAIN Put(f, k, v) -> S]
BY DEF Put

LEMMA WithoutType ==
    ASSUME NEW S, NEW f, f \in [DOMAIN f -> S], NEW k
    PROVE  Without(f, k) \in [DOMAIN Without(f, k) -> S]
BY DEF Without, Restrict

\* issueTokenPair signs a pair and carries a version that is not ahead.
LEMMA PairSigned ==
    ASSUME AccountsInv, NEW c \in Clients, NEW v \in Nat,
           call[c].pc = "issue", Len(token) < MaxTokens,
           token' = Append(token, [sub |-> call[c].u, at |-> now, issued |-> FALSE]),
           call' = [call EXCEPT ![c] = [call[c] EXCEPT !.pc = "store", !.tok = Len(token) + 1, !.ver = v]],
           call[c].u \notin clobbered => v =< Last(call[c].u),
           UNCHANGED <<users, cacheVars, resets, now, clobbered, spent, ended, chosen>>
    PROVE  AccountsInv'
<1> DEFINE k == call[c]
           n == Len(token) + 1
           t == [sub |-> k.u, at |-> now, issued |-> FALSE]
           r == [k EXCEPT !.pc = "store", !.tok = n, !.ver = v]
<1> USE DEF cacheVars
<1>1. k \in CallRec /\ CallOK(c, k) /\ k.u \in Users /\ k.op \in {"login", "refresh"}
      /\ Types /\ StoredOK /\ SpentOK /\ now \in Nat
  BY DEF AccountsInv, Types, CallOK, Placed
<1>2. t \in Signed /\ t.sub = k.u /\ t.at = now /\ t.issued = FALSE
  BY <1>1 DEF Signed
<1>3. token \in Seq(Signed) /\ Len(token) \in Nat /\ n \in Nat
  BY <1>1 DEF Types
<1> HIDE DEF t
<1>4. /\ token' \in Seq(Signed) /\ Len(token') = n /\ n =< MaxTokens
      /\ DOMAIN token' = DOMAIN token \cup {n} /\ n \notin DOMAIN token
      /\ token'[n] = t /\ \A i \in DOMAIN token : token'[i] = token[i]
  BY <1>2, <1>3, TTLs DEF t
<1>5. /\ r \in CallRec /\ r.pc = "store" /\ r.op = k.op /\ r.u = k.u /\ r.old = k.old /\ r.tok = n
      /\ r.ver = v /\ r.stale = k.stale /\ r.before = k.before /\ r.failed = k.failed
  BY <1>1, <1>3 DEF CallRec
<1>6. call' = [call EXCEPT ![c] = r]
  OBVIOUS
<1> HIDE DEF r, n
<1>7. call'[c] = r /\ \A d \in Clients \ {c} : call'[d] = call[d]
  BY <1>1, <1>6 DEF Types
<1>8. Types'
  BY <1>1, <1>4, <1>5, <1>6 DEF Types
<1>9. StoredOK' /\ SpentOK'
  BY <1>1, <1>2, <1>4 DEF StoredOK, SpentOK
<1>10. \A i \in ended : EndedOK(i) /\ i # n
  BY <1>4 DEF AccountsInv, EndedOK
<1>11. \A d \in Clients : CallOK(d, call[d])
  BY DEF AccountsInv
<1>12. \A d \in Clients : \A i \in call[d].before : i # n
  BY <1>4, <1>11 DEF CallOK, Carries
<1>13. \A d \in Clients : call[d].pc = "store" => call[d].tok # n
  BY <1>4, <1>11 DEF CallOK, Fresh
<1>14. (\A i \in DOMAIN session : SessionOK(i))' /\ (\A i \in ended : EndedOK(i))'
  BY <1>1, <1>4, <1>10 DEF AccountsInv, StoredOK, SessionOK, EndedOK, Last
<1>15. CallOK(c, call[c])'
  <2>1. Fresh(c, call[c])'
    BY <1>1, <1>2, <1>4, <1>5, <1>7, <1>10, <1>12, <1>13 DEF Fresh, StoredOK
  <2>2. Placed(call[c])' /\ KeepsPassword(call[c])' /\ LogsOut(call[c])' /\ Resets(call[c])'
    BY <1>1, <1>5, <1>7 DEF Placed, KeepsPassword, LogsOut, Resets
  <2>3. Refreshes(call[c])'
    BY <1>1, <1>4, <1>5, <1>7 DEF Refreshes, CallOK
  <2>4. Carries(call[c])'
    BY <1>1, <1>4, <1>5, <1>7, <1>10 DEF Carries, CallOK, Last, EndedOK
  <2> QED
    BY <2>1, <2>2, <2>3, <2>4 DEF CallOK
<1>16. ASSUME NEW d \in Clients, d # c PROVE CallOK(d, call[d])'
  <2>1. Fresh(d, call[d])'
    BY <1>1, <1>4, <1>5, <1>7, <1>11, <1>13, <1>16 DEF CallOK, Fresh, Carries
  <2>2. Carries(call[d])'
    BY <1>4, <1>7, <1>10, <1>11, <1>16 DEF CallOK, Carries, Last, EndedOK
  <2> QED
    BY <1>4, <1>7, <1>11, <1>16, <2>1, <2>2 DEF CallOK, Placed, KeepsPassword, Refreshes, LogsOut, Resets
<1> QED
  BY <1>8, <1>9, <1>14, <1>15, <1>16, <1>1 DEF AccountsInv, PasswordsLastUnlessOverwritten

\* A session goes, and its token may be spent by that.
LEMMA SessionDropped ==
    ASSUME AccountsInv, NEW c \in Clients, NEW r \in CallRec, NEW o \in DOMAIN token,
           call' = [call EXCEPT ![c] = r],
           session' = Without(session, o),
           \/ spent' = spent
           \/ spent' = spent \cup {<<"refresh", o>>} /\ token[o].issued,
           UNCHANGED <<users, reset, version, revoked, token, resets, now, clobbered, ended, chosen>>,
           Placed(r), KeepsPassword(r), LogsOut(r), Resets(r), Carries(r),
           r.op = "refresh" => /\ r.old \in DOMAIN token /\ token[r.old].issued
                               /\ token[r.old].sub = r.u /\ r.old \notin DOMAIN session \ {o},
           r.pc # "store", r.before = {}
    PROVE  AccountsInv'
<1>1. /\ Types /\ StoredOK /\ SpentOK /\ PasswordsLastUnlessOverwritten
      /\ \A i \in DOMAIN session : SessionOK(i)
      /\ \A i \in ended : EndedOK(i)
      /\ \A d \in Clients : CallOK(d, call[d])
  BY DEF AccountsInv
<1>2. /\ DOMAIN session' = DOMAIN session \ {o}
      /\ \A i \in DOMAIN session' : session'[i] = session[i]
      /\ session' \in [DOMAIN session' -> Session]
  <2>1. session \in [DOMAIN session -> Session]
    BY <1>1 DEF Types
  <2>2. Without(session, o) \in [DOMAIN Without(session, o) -> Session]
    BY <2>1, WithoutType
  <2>3. /\ DOMAIN Without(session, o) = DOMAIN session \ {o}
        /\ \A i \in DOMAIN Without(session, o) : Without(session, o)[i] = session[i]
    BY DEF Without, Restrict
  <2> QED
    BY <2>2, <2>3
<1>3. call'[c] = r /\ \A d \in Clients \ {c} : call'[d] = call[d]
  BY <1>1 DEF Types
<1>4. Types'
  BY <1>1, <1>2 DEF Types
<1>5. StoredOK' /\ PasswordsLastUnlessOverwritten'
  BY <1>1, <1>2 DEF StoredOK, PasswordsLastUnlessOverwritten
<1>6. SpentOK'
  BY <1>1, <1>2 DEF SpentOK
<1>7. (\A i \in DOMAIN session : SessionOK(i))' /\ (\A i \in ended : EndedOK(i))'
  BY <1>1, <1>2 DEF SessionOK, EndedOK, Last
<1>8. CallOK(c, call[c])'
  BY <1>2, <1>3 DEF CallOK, Placed, KeepsPassword, Fresh, Refreshes, LogsOut, Resets, Carries, Last
<1>9. ASSUME NEW d \in Clients, d # c PROVE CallOK(d, call[d])'
  <2>1. Fresh(d, call[d])'
    BY <1>1, <1>2, <1>3, <1>9 DEF CallOK, Fresh
  <2> QED
    BY <1>1, <1>2, <1>3, <1>9, <2>1 DEF CallOK, Placed, KeepsPassword, Refreshes, LogsOut, Resets, Carries, Last
<1> QED
  BY <1>4, <1>5, <1>6, <1>7, <1>8, <1>9 DEF AccountsInv

\* A session is stored, the request is answered, and its pair goes out or not.
LEMMA SessionStored ==
    ASSUME AccountsInv, NEW c \in Clients, call[c].pc = "store", Return(c),
           session' = Put(session, call[c].tok,
                          [sub |-> call[c].u, ver |-> call[c].ver, exp |-> now + RefreshTTL]),
           token' = token \/ token' = [token EXCEPT ![call[c].tok].issued = TRUE],
           \/ spent' = spent
           \/ /\ spent' = spent \cup {<<"refresh", call[c].old>>}
              /\ call[c].op = "refresh" /\ ~call[c].failed,
           UNCHANGED <<users, reset, version, revoked, resets, now, clobbered, ended, chosen>>
    PROVE  AccountsInv'
<1> DEFINE k == call[c]
           s == [sub |-> k.u, ver |-> k.ver, exp |-> now + RefreshTTL]
<1>1. /\ Types /\ StoredOK /\ SpentOK /\ PasswordsLastUnlessOverwritten
      /\ \A i \in DOMAIN session : SessionOK(i)
      /\ \A i \in ended : EndedOK(i)
      /\ \A d \in Clients : CallOK(d, call[d])
  BY DEF AccountsInv
<1>2. k \in CallRec /\ k.u \in Users /\ k.ver \in Nat /\ now \in Nat
  BY <1>1 DEF Types, CallOK, Placed, CallRec
<1>3. s \in Session /\ s.sub = k.u /\ s.ver = k.ver
  BY <1>2, TTLs DEF Session
<1> HIDE DEF s
<1>4. /\ DOMAIN session' = DOMAIN session \cup {k.tok}
      /\ session'[k.tok] = s
      /\ \A i \in DOMAIN session : i # k.tok => session'[i] = session[i]
      /\ session' \in [DOMAIN session' -> Session]
  <2>1. session \in [DOMAIN session -> Session] /\ session' = Put(session, k.tok, s)
    BY <1>1 DEF Types, s
  <2>2. Put(session, k.tok, s) \in [DOMAIN Put(session, k.tok, s) -> Session]
    BY <1>3, <2>1, PutType
  <2>3. /\ DOMAIN Put(session, k.tok, s) = DOMAIN session \cup {k.tok}
        /\ Put(session, k.tok, s)[k.tok] = s
        /\ \A i \in DOMAIN session : i # k.tok => Put(session, k.tok, s)[i] = session[i]
    BY DEF Put
  <2> QED
    BY <2>1, <2>2, <2>3
<1>5. Fresh(c, k) /\ Carries(k) /\ Refreshes(k) /\ k.tok \in DOMAIN token /\ ~token[k.tok].issued
  BY <1>1 DEF CallOK, Fresh
<1>6. /\ token' \in Seq(Signed) /\ Len(token') = Len(token) /\ DOMAIN token' = DOMAIN token
      /\ \A i \in DOMAIN token : /\ token'[i].sub = token[i].sub /\ token'[i].at = token[i].at
                                 /\ token[i].issued => token'[i].issued
                                 /\ i # k.tok => token'[i] = token[i]
  <2>1. token \in Seq(Signed)
    BY <1>1 DEF Types
  <2>2. \A i \in DOMAIN token : token[i] \in Signed
    BY <2>1
  <2>3. CASE token' = token
    BY <2>1, <2>3
  <2>4. CASE token' = [token EXCEPT ![k.tok].issued = TRUE]
    <3> DEFINE t == [token[k.tok] EXCEPT !.issued = TRUE]
    <3>1. t \in Signed /\ t.sub = token[k.tok].sub /\ t.at = token[k.tok].at /\ t.issued
      BY <1>5, <2>2 DEF Signed
    <3>2. token' = [token EXCEPT ![k.tok] = t]
      BY <2>4
    <3> HIDE DEF t
    <3> QED
      BY <1>5, <2>1, <3>1, <3>2
  <2> QED
    BY <2>3, <2>4
<1>7. call'[c] = NoCall /\ \A d \in Clients \ {c} : call'[d] = call[d]
  BY <1>1 DEF Types, Return
<1>8. Types'
  BY <1>1, <1>4, <1>6, NoCallFacts DEF Types, Return
<1>9. StoredOK' /\ PasswordsLastUnlessOverwritten'
  BY <1>1, <1>4, <1>5, <1>6 DEF StoredOK, PasswordsLastUnlessOverwritten
<1>10. SpentOK'
  <2>1. \A i \in 1 .. MaxTokens : <<"refresh", i>> \in spent' =>
           i \in DOMAIN token /\ token[i].issued /\ i \notin DOMAIN session
    BY <1>1, <1>5 DEF SpentOK, Refreshes
  <2>2. \A i \in 1 .. MaxTokens : <<"refresh", i>> \in spent' =>
           i \in DOMAIN token' /\ token'[i].issued /\ i \notin DOMAIN session'
    BY <1>4, <1>5, <1>6, <2>1
  <2>3. \A i \in 1 .. MaxTokens : <<"access", i>> \in spent' <=> <<"access", i>> \in spent
    OBVIOUS
  <2>4. \A i \in 1 .. MaxTokens : <<"reset", i>> \in spent' <=> <<"reset", i>> \in spent
    OBVIOUS
  <2> QED
    BY <1>1, <1>6, <2>2, <2>3, <2>4 DEF SpentOK
<1>11. (\A i \in DOMAIN session : SessionOK(i))'
  <2>1. ASSUME NEW i \in DOMAIN session', i = k.tok PROVE SessionOK(i)'
    BY <1>3, <1>4, <1>5, <1>6, <2>1 DEF SessionOK, Fresh, Carries, Last
  <2>2. ASSUME NEW i \in DOMAIN session', i # k.tok PROVE SessionOK(i)'
    BY <1>1, <1>4, <1>6, <2>2 DEF SessionOK, StoredOK, Last
  <2> QED
    BY <2>1, <2>2
<1>12. (\A i \in ended : EndedOK(i))'
  BY <1>1, <1>6 DEF EndedOK
<1>13. CallOK(c, call[c])'
  BY <1>7, NoCallFacts DEF CallOK, Placed, KeepsPassword, Fresh, Refreshes, LogsOut, Resets, Carries
<1>14. ASSUME NEW d \in Clients, d # c PROVE CallOK(d, call[d])'
  <2>1. Fresh(d, call[d])'
    BY <1>1, <1>4, <1>5, <1>6, <1>7, <1>14, NoCallFacts DEF CallOK, Fresh
  <2>2. Refreshes(call[d])'
    BY <1>1, <1>4, <1>5, <1>6, <1>7, <1>14 DEF CallOK, Refreshes
  <2>3. Carries(call[d])'
    BY <1>1, <1>6, <1>7, <1>14 DEF CallOK, Carries, EndedOK, Last
  <2> QED
    BY <1>1, <1>6, <1>7, <1>14, <2>1, <2>2, <2>3 DEF CallOK, Placed, KeepsPassword, LogsOut, Resets
<1> QED
  BY <1>8, <1>9, <1>10, <1>11, <1>12, <1>13, <1>14 DEF AccountsInv

\* An access token goes on the blacklist for the rest of its life.
LEMMA TokenRevoked ==
    ASSUME AccountsInv, NEW c \in Clients, NEW r \in CallRec,
           call[c].op = "logout", call[c].pc = "revoke",
           call' = [call EXCEPT ![c] = r], CallOK(c, r), r.before = {},
           revoked' = Put(revoked, call[c].tok, now + call[c].rem),
           spent' = spent \/ spent' = spent \cup {<<"access", call[c].tok>>},
           UNCHANGED <<users, session, reset, version, token, resets, now, clobbered, ended, chosen>>
    PROVE  AccountsInv'
<1> DEFINE k == call[c]
           e == now + k.rem
<1>1. /\ Types /\ StoredOK /\ SpentOK /\ PasswordsLastUnlessOverwritten
      /\ \A i \in DOMAIN session : SessionOK(i)
      /\ \A i \in ended : EndedOK(i)
      /\ \A d \in Clients : CallOK(d, call[d])
  BY DEF AccountsInv
<1>2. k \in CallRec /\ k.rem \in Int /\ now \in Nat
  BY <1>1 DEF Types, CallRec
<1>3. e \in Int /\ k.tok \in DOMAIN token /\ e >= token[k.tok].at + AccessTTL
  BY <1>1, <1>2 DEF CallOK, LogsOut
<1>4. revoked' = Put(revoked, k.tok, e)
  OBVIOUS
<1> HIDE DEF e
<1>5. /\ DOMAIN revoked' = DOMAIN revoked \cup {k.tok} /\ revoked'[k.tok] = e
      /\ \A i \in DOMAIN revoked : i # k.tok => revoked'[i] = revoked[i]
  BY <1>4 DEF Put
<1>6. revoked' \in [DOMAIN revoked' -> Int]
  <2>1. revoked \in [DOMAIN revoked -> Int] /\ e \in Int
    BY <1>1, <1>3 DEF Types
  <2>2. Put(revoked, k.tok, e) \in [DOMAIN Put(revoked, k.tok, e) -> Int]
    BY <2>1, PutType
  <2> QED
    BY <1>4, <2>2
<1>7. call'[c] = r /\ \A d \in Clients \ {c} : call'[d] = call[d]
  BY <1>1 DEF Types
<1>8. Types'
  BY <1>1, <1>6 DEF Types
<1>9. StoredOK' /\ PasswordsLastUnlessOverwritten'
  BY <1>1 DEF StoredOK, PasswordsLastUnlessOverwritten
<1>10. SpentOK'
  <2>1. \A i \in 1 .. MaxTokens : <<"refresh", i>> \in spent' => <<"refresh", i>> \in spent
    OBVIOUS
  <2>2. \A i \in 1 .. MaxTokens : <<"reset", i>> \in spent' => <<"reset", i>> \in spent
    OBVIOUS
  <2>3. \A i \in 1 .. MaxTokens : <<"access", i>> \in spent' => <<"access", i>> \in spent \/ i = k.tok
    OBVIOUS
  <2>4. \A i \in 1 .. MaxTokens : <<"access", i>> \in spent' =>
           i \in DOMAIN token' /\ i \in DOMAIN revoked' /\ revoked'[i] >= token'[i].at + AccessTTL
    BY <1>1, <1>3, <1>5, <2>3 DEF SpentOK
  <2> QED
    BY <1>1, <2>1, <2>2, <2>4 DEF SpentOK
<1>11. (\A i \in DOMAIN session : SessionOK(i))' /\ (\A i \in ended : EndedOK(i))'
  BY <1>1 DEF SessionOK, EndedOK, Last
<1>12. CallOK(c, call[c])'
  <2>1. Fresh(c, call[c])'
    BY <1>7 DEF CallOK, Fresh
  <2> QED
    BY <1>7, <2>1 DEF CallOK, Placed, KeepsPassword, Refreshes, LogsOut, Resets, Carries, Last
<1>13. ASSUME NEW d \in Clients, d # c PROVE CallOK(d, call[d])'
  <2>1. Fresh(d, call[d])'
    BY <1>1, <1>7, <1>13 DEF CallOK, Fresh
  <2> QED
    BY <1>1, <1>7, <1>13, <2>1 DEF CallOK, Placed, KeepsPassword, Refreshes, LogsOut, Resets, Carries, Last
<1> QED
  BY <1>8, <1>9, <1>10, <1>11, <1>12, <1>13 DEF AccountsInv

\* A reset token is stored or used up.
LEMMA ResetTokens ==
    ASSUME AccountsInv, NEW c \in Clients, \/ \E e \in Emails : ForgotPassword(c, e)
                                           \/ ResetConsume(c)
    PROVE  AccountsInv'
<1> DEFINE k == call[c]
<1> USE DEF history
<1>1. /\ Types /\ StoredOK /\ SpentOK /\ PasswordsLastUnlessOverwritten
      /\ \A i \in DOMAIN session : SessionOK(i)
      /\ \A i \in ended : EndedOK(i)
      /\ \A d \in Clients : CallOK(d, call[d])
  BY DEF AccountsInv
<1>2. ASSUME NEW e \in Emails, ForgotPassword(c, e) PROVE AccountsInv'
  <2> DEFINE v == [email |-> e, exp |-> now + ResetTTL]
  <2>1. resets' = resets + 1 /\ resets \in Nat /\ now \in Nat /\ reset' = Put(reset, resets + 1, v)
        /\ UNCHANGED <<users, session, version, revoked, token, call, now, clobbered, spent, ended, chosen>>
    BY <1>1, <1>2 DEF ForgotPassword, Types
  <2>2. v \in [email : Emails, exp : Nat]
    BY <2>1, TTLs
  <2> HIDE DEF v
  <2>3. DOMAIN reset' = DOMAIN reset \cup {resets + 1}
    BY <2>1 DEF Put
  <2>4. reset' \in [DOMAIN reset' -> [email : Emails, exp : Nat]]
    BY <1>1, <2>1, <2>2, PutType DEF Types
  <2>5. Types' /\ PasswordsLastUnlessOverwritten'
    BY <1>1, <2>1, <2>4 DEF Types, PasswordsLastUnlessOverwritten
  <2>6. StoredOK' /\ SpentOK'
    BY <1>1, <2>1, <2>3 DEF StoredOK, SpentOK
  <2>7. (\A i \in DOMAIN session : SessionOK(i))' /\ (\A i \in ended : EndedOK(i))'
    BY <1>1, <2>1 DEF SessionOK, EndedOK, Last
  <2>8. ASSUME NEW d \in Clients PROVE CallOK(d, call[d])'
    <3>1. Fresh(d, call[d])' /\ Resets(call[d])'
      BY <1>1, <2>1, <2>3 DEF CallOK, Fresh, Resets
    <3> QED
      BY <1>1, <2>1, <3>1 DEF CallOK, Placed, KeepsPassword, Refreshes, LogsOut, Carries, Last
  <2> QED
    BY <2>5, <2>6, <2>7, <2>8 DEF AccountsInv
<1>3. CASE ResetConsume(c)
  <2> DEFINE r == [k EXCEPT !.pc = "readver"]
  <2>1. /\ k.op = "reset" /\ k.pc = "consume" /\ reset' = Without(reset, k.tok)
        /\ k \in CallRec /\ CallOK(c, k) /\ call' = [call EXCEPT ![c] = r]
        /\ UNCHANGED <<users, session, version, revoked, token, resets, now, clobbered, spent, ended, chosen>>
    BY <1>1, <1>3 DEF ResetConsume, At, Goto, Types
  <2>2. /\ r \in CallRec /\ r.pc = "readver" /\ r.op = "reset" /\ r.u = k.u /\ r.tok = k.tok
        /\ r.stale = k.stale /\ r.before = k.before /\ r.failed = k.failed
    BY <2>1 DEF CallRec
  <2> HIDE DEF r
  <2>3. DOMAIN reset' = DOMAIN reset \ {k.tok}
    BY <2>1 DEF Without, Restrict
  <2>4. reset' \in [DOMAIN reset' -> [email : Emails, exp : Nat]]
    BY <1>1, <2>1, WithoutType DEF Types
  <2>5. call'[c] = r /\ \A d \in Clients \ {c} : call'[d] = call[d]
    BY <1>1, <2>1 DEF Types
  <2>6. Types' /\ PasswordsLastUnlessOverwritten'
    BY <1>1, <2>1, <2>2, <2>4 DEF Types, PasswordsLastUnlessOverwritten
  <2>7. StoredOK' /\ SpentOK'
    BY <1>1, <2>1, <2>3 DEF StoredOK, SpentOK
  <2>8. (\A i \in DOMAIN session : SessionOK(i))' /\ (\A i \in ended : EndedOK(i))'
    BY <1>1, <2>1 DEF SessionOK, EndedOK, Last
  <2>9. CallOK(c, call[c])'
    BY <2>1, <2>2, <2>3, <2>5 DEF CallOK, Placed, KeepsPassword, Fresh, Refreshes, LogsOut, Resets, Carries, Last
  <2>10. ASSUME NEW d \in Clients, d # c PROVE CallOK(d, call[d])'
    <3>1. Fresh(d, call[d])' /\ Resets(call[d])'
      BY <1>1, <2>1, <2>2, <2>3, <2>5, <2>10 DEF CallOK, Fresh, Resets
    <3> QED
      BY <1>1, <2>1, <2>5, <2>10, <3>1 DEF CallOK, Placed, KeepsPassword, Refreshes, LogsOut, Carries, Last
  <2> QED
    BY <2>6, <2>7, <2>8, <2>9, <2>10 DEF AccountsInv
<1> QED
  BY <1>2, <1>3

\* A reset stores the next version and is answered.  Only when it replaces the
\* version it has read does the user stay out of clobbered, and then the
\* sessions it ends are behind the new version.
LEMMA VersionSet ==
    ASSUME AccountsInv, NEW c \in Clients, call[c].op = "reset", call[c].pc = "bump",
           SetVersion(c), Return(c),
           \/ spent' = spent /\ ended' = ended
           \/ /\ ~call[c].failed
              /\ spent' = spent \cup {<<"reset", call[c].tok>>} /\ ended' = ended \cup call[c].before,
           UNCHANGED <<users, session, reset, revoked, token, resets, now, chosen>>
    PROVE  AccountsInv'
<1> DEFINE k == call[c]
           v == [n |-> k.ver + 1, exp |-> now + VersionTTL]
<1>1. /\ Types /\ StoredOK /\ SpentOK /\ PasswordsLastUnlessOverwritten
      /\ \A i \in DOMAIN session : SessionOK(i)
      /\ \A i \in ended : EndedOK(i)
      /\ \A d \in Clients : CallOK(d, call[d])
  BY DEF AccountsInv
<1>2. /\ k \in CallRec /\ k.ver \in Nat /\ now \in Nat /\ k.u \in Users
      /\ Resets(k) /\ Carries(k)
  BY <1>1 DEF Types, CallRec, CallOK, Placed
<1>3. v \in [n : Nat, exp : Nat] /\ v.n = k.ver + 1 /\ v.exp = now + VersionTTL
  BY <1>2, TTLs
<1>4. version' = Put(version, k.u, v)
  BY DEF SetVersion
<1> HIDE DEF v
<1>5. /\ DOMAIN version' = DOMAIN version \cup {k.u} /\ version'[k.u] = v
      /\ \A u \in DOMAIN version : u # k.u => version'[u] = version[u]
  BY <1>4 DEF Put
<1>6. version' \in [DOMAIN version' -> [n : Nat, exp : Nat]]
  BY <1>1, <1>3, <1>4, PutType DEF Types
<1>7. call'[c] = NoCall /\ \A d \in Clients \ {c} : call'[d] = call[d]
  BY <1>1 DEF Types, Return
<1>8. /\ clobbered \subseteq clobbered'
      /\ k.u \notin clobbered' => k.ver = Last(k.u)
  BY DEF SetVersion
<1>9. \A u : u # k.u => Last(u)' = Last(u)
  BY <1>5 DEF Last
<1>10. Last(k.u) \in Nat /\ \A u \in DOMAIN version : Last(u) \in Nat
  BY <1>1 DEF Last, Types
<1>11. \A u : u = k.u => Last(u)' = k.ver + 1
  BY <1>3, <1>5 DEF Last
<1>12. \A u : /\ Last(u) \in Nat /\ Last(u)' \in Nat
              /\ u \notin clobbered' => Last(u) =< Last(u)' /\ (u = k.u => Last(u) < Last(u)')
  <2>1. \A u : Last(u) \in Nat
    BY <1>10 DEF Last
  <2> QED
    BY <1>2, <1>8, <1>9, <1>11, <2>1
<1>13. \A u \in DOMAIN version : version'[u].exp >= version[u].exp
  <2>1. \A u \in DOMAIN version : version[u].exp \in Nat /\ version[u].exp =< now + VersionTTL
    BY <1>1 DEF StoredOK, Types
  <2> QED
    BY <1>2, <1>3, <1>5, <2>1, TTLs
<1>14. ended \subseteq ended' /\ \A i \in ended' : i \in ended \/ i \in k.before
  OBVIOUS
<1>15. \A i \in k.before : i \in DOMAIN token /\ token[i].sub = k.u
  BY <1>2 DEF Carries
<1>16. Types' /\ PasswordsLastUnlessOverwritten'
  BY <1>1, <1>6, NoCallFacts DEF Types, PasswordsLastUnlessOverwritten, Return
<1>17. StoredOK'
  BY <1>1, <1>2, <1>3, <1>5, TTLs DEF StoredOK
<1>18. SpentOK'
  <2>1. \A i \in 1 .. MaxTokens : <<"refresh", i>> \in spent' => <<"refresh", i>> \in spent
    OBVIOUS
  <2>2. \A i \in 1 .. MaxTokens : <<"access", i>> \in spent' => <<"access", i>> \in spent
    OBVIOUS
  <2>3. \A i \in 1 .. MaxTokens : <<"reset", i>> \in spent' =>
           <<"reset", i>> \in spent \/ (i = k.tok /\ ~k.failed)
    <3>1. CASE spent' = spent
      BY <3>1
    <3>2. CASE ~k.failed /\ spent' = spent \cup {<<"reset", k.tok>>}
      BY <3>2
    <3> QED
      BY <3>1, <3>2
  <2> QED
    BY <1>1, <1>2, <2>1, <2>2, <2>3 DEF SpentOK, Resets
<1>19. ASSUME NEW i \in ended' PROVE EndedOK(i)'
  <2>1. CASE i \in ended
    <3>1. i \in DOMAIN token /\ token[i].at \in Nat
      BY <1>1, <2>1, TokenFacts DEF EndedOK
    <3>2. /\ token[i].sub \in DOMAIN version
          /\ version[token[i].sub].exp \in Nat /\ version'[token[i].sub].exp \in Nat
      BY <1>1, <1>5, <1>6, <2>1 DEF EndedOK, Types
    <3> QED
      BY <1>1, <1>5, <1>13, <2>1, <3>1, <3>2, TTLs DEF EndedOK
  <2>2. CASE i \in k.before
    <3>1. i \in DOMAIN token /\ token[i].at \in Nat /\ token[i].sub = k.u /\ token[i].at =< now
      BY <1>1, <1>15, <2>2, TokenFacts DEF StoredOK
    <3> QED
      BY <1>2, <1>3, <1>5, <3>1, TTLs DEF EndedOK
  <2> QED
    BY <1>14, <2>1, <2>2
<1>20. ASSUME NEW i \in DOMAIN session PROVE SessionOK(i)'
  <2>1. /\ SessionOK(i) /\ i \in DOMAIN token /\ session[i].ver \in Nat
    BY <1>1 DEF StoredOK, Types, Session
  <2>2. i \in ended' => i \in ended \/ token[i].sub = k.u
    BY <1>14, <1>15
  <2> QED
    BY <1>8, <1>12, <2>1, <2>2 DEF SessionOK
<1>21. CallOK(c, call[c])'
  BY <1>7, NoCallFacts DEF CallOK, Placed, KeepsPassword, Fresh, Refreshes, LogsOut, Resets, Carries
<1>22. ASSUME NEW d \in Clients, d # c PROVE CallOK(d, call[d])'
  <2>1. call'[d] = call[d] /\ CallOK(d, call[d]) /\ call[d] \in CallRec
    BY <1>1, <1>7, <1>22 DEF Types
  <2>2. Fresh(d, call[d])'
    BY <1>7, <1>14, <1>22, <2>1, NoCallFacts DEF CallOK, Fresh
  <2>3. Carries(call[d])'
    <3>1. call[d].ver \in Nat
      BY <2>1 DEF CallRec
    <3>2. Carries(call[d])
      BY <2>1 DEF CallOK
    <3> QED
      BY <1>8, <1>12, <1>14, <2>1, <3>1, <3>2 DEF Carries
  <2> QED
    BY <2>1, <2>2, <2>3 DEF CallOK, Placed, KeepsPassword, Refreshes, LogsOut, Resets
<1> QED
  BY <1>16, <1>17, <1>18, <1>19, <1>20, <1>21, <1>22 DEF AccountsInv

LEMMA TokenSteps ==
    ASSUME AccountsInv, NEW c \in Clients,
           IssueRead(c) \/ IssueStore(c) \/ RefreshDel(c) \/ LogoutRevoke(c) \/ LogoutDrop(c) \/ ResetBump(c)
    PROVE  AccountsInv'
<1> DEFINE k == call[c]
<1>0. k \in CallRec /\ CallOK(c, k)
  BY DEF AccountsInv, Types
<1> USE DEF history
<1>1. CASE IssueRead(c)
  <2>1. Current(k.u) \in Nat /\ Current(k.u) =< Last(k.u)
    BY DEF Current, Live, Last, AccountsInv, Types
  <2> QED
    BY <1>1, <2>1, PairSigned DEF IssueRead
<1>2. CASE IssueStore(c)
  BY <1>2, SessionStored DEF IssueStore
<1>3. CASE RefreshDel(c)
  <2>1. k.op = "refresh" /\ k.pc \in {"reject", "rotate"} /\ k.old \in DOMAIN token
        /\ session' = Without(session, k.old)
    BY <1>0, <1>3 DEF RefreshDel, CallOK, Refreshes
  <2>2. CASE k.pc = "reject"
    <3>1. call' = [call EXCEPT ![c] = NoCall]
      BY <1>3, <2>2 DEF RefreshDel, Return
    <3>2. Placed(NoCall) /\ KeepsPassword(NoCall) /\ LogsOut(NoCall)
          /\ Resets(NoCall) /\ Carries(NoCall)
      BY NoCallFacts DEF CallOK
    <3> QED
      BY <1>3, <2>1, <3>1, <3>2, NoCallFacts, SessionDropped DEF RefreshDel
  <2>3. CASE k.pc = "rotate"
    <3> DEFINE r == [k EXCEPT !.pc = "user"]
    <3>1. call' = [call EXCEPT ![c] = r]
      BY <1>3, <2>3 DEF RefreshDel, Goto
    <3>2. /\ r \in CallRec /\ r.pc = "user" /\ r.op = "refresh" /\ r.u = k.u /\ r.old = k.old
          /\ r.stale = k.stale /\ r.before = k.before /\ r.failed = k.failed
      BY <1>0, <2>1 DEF CallRec
    <3> HIDE DEF r
    <3>3. r.before = {}
      BY <1>0, <2>1, <3>2 DEF CallOK, Carries
    <3>4. Placed(r) /\ KeepsPassword(r) /\ LogsOut(r) /\ Resets(r) /\ Carries(r)
      BY <1>0, <2>1, <2>3, <3>2 DEF CallOK, Placed, KeepsPassword, LogsOut, Resets, Carries
    <3>5. /\ r.old \in DOMAIN token /\ token[r.old].issued
          /\ token[r.old].sub = r.u /\ r.old \notin DOMAIN session \ {k.old}
      BY <1>0, <2>1, <3>2 DEF CallOK, Refreshes
    <3> QED
      BY <1>3, <2>1, <3>1, <3>2, <3>3, <3>4, <3>5, SessionDropped DEF RefreshDel
  <2> QED
    BY <2>1, <2>2, <2>3
<1>4. CASE LogoutRevoke(c)
  <2> DEFINE r == [k EXCEPT !.pc = "drop"]
  <2>1. k.op = "logout" /\ k.pc = "revoke"
    BY <1>4 DEF LogoutRevoke, At
  <2>2. /\ r \in CallRec /\ r.pc = "drop" /\ r.op = "logout" /\ r.tok = k.tok /\ r.old = k.old
        /\ r.stale = k.stale /\ r.before = k.before
    BY <1>0, <2>1 DEF CallRec
  <2>3. call' = [call EXCEPT ![c] = NoCall] \/ (k.old # 0 /\ call' = [call EXCEPT ![c] = r])
    BY <1>4 DEF LogoutRevoke, Return, Goto
  <2> HIDE DEF r
  <2>4. k.old # 0 => CallOK(c, r) /\ r.before = {}
    BY <1>0, <2>1, <2>2 DEF CallOK, Placed, KeepsPassword, Fresh, Refreshes, LogsOut, Resets, Carries
  <2> QED
    BY <1>4, <2>1, <2>2, <2>3, <2>4, NoCallFacts, TokenRevoked DEF LogoutRevoke
<1>5. CASE LogoutDrop(c)
  <2>1. k.op = "logout" /\ call' = [call EXCEPT ![c] = NoCall]
    BY <1>5 DEF LogoutDrop, At, Return
  <2>2. CASE Verifies(k.old) /\ k.old \in DOMAIN token
    <3>1. session' = Without(session, k.old) /\ spent' = spent \cup {<<"refresh", k.old>>}
          /\ token[k.old].issued
      BY <1>5, <2>2 DEF LogoutDrop, Verifies
    <3>2. Placed(NoCall) /\ KeepsPassword(NoCall) /\ LogsOut(NoCall)
          /\ Resets(NoCall) /\ Carries(NoCall)
      BY NoCallFacts DEF CallOK
    <3> QED
      BY <1>5, <2>1, <2>2, <3>1, <3>2, NoCallFacts, SessionDropped DEF LogoutDrop
  <2>3. CASE ~Verifies(k.old)
    BY <1>5, <2>3, Returns DEF LogoutDrop, cacheVars
  <2>4. k.old \in DOMAIN token
    BY <1>0, <1>5, <2>1 DEF LogoutDrop, At, CallOK, LogsOut
  <2> QED
    BY <2>2, <2>3, <2>4
<1>6. CASE ResetBump(c)
  BY <1>6, VersionSet DEF ResetBump, At
<1> QED
  BY <1>1, <1>2, <1>3, <1>4, <1>5, <1>6

\* A cache command fails: the request it belongs to marks itself as failed, or
\* ends with the command carried out or not.
LEMMA FailedSteps ==
    ASSUME AccountsInv, NEW c \in Clients, CacheFails(c)
    PROVE  AccountsInv'
<1> DEFINE k == call[c]
<1>0. k \in CallRec /\ CallOK(c, k)
  BY DEF AccountsInv, Types
<1>1. \A d \in Clients \ {c} : call[d].pc = "store" => call[d].tok \notin k.before
  BY DEF AccountsInv, CallOK, Fresh
<1>2. UNCHANGED <<users, resets, now, spent, ended, chosen>>
  BY DEF CacheFails
<1>3. ASSUME NEW pc \in {"rotate", "user"}, k.op = "refresh",
             call' = [call EXCEPT ![c] = [k EXCEPT !.pc = pc, !.failed = TRUE]],
             UNCHANGED <<cacheVars, token, clobbered>>
      PROVE  AccountsInv'
  <2> DEFINE r == [k EXCEPT !.pc = pc, !.failed = TRUE]
  <2>1. /\ r \in CallRec /\ r.pc = pc /\ r.op = "refresh" /\ r.u = k.u /\ r.old = k.old
        /\ r.stale = k.stale /\ r.before = k.before /\ r.failed = TRUE
    BY <1>0, <1>3 DEF CallRec
  <2>2. call' = [call EXCEPT ![c] = r]
    BY <1>3
  <2> HIDE DEF r
  <2>3. CallOK(c, r)
    BY <1>0, <1>3, <2>1 DEF CallOK, Placed, KeepsPassword, Fresh, Refreshes, LogsOut, Resets, Carries
  <2> QED
    BY <1>1, <1>2, <1>3, <2>1, <2>2, <2>3, CallMoves
<1>4. CASE FailedRead(c)
  <2>1. CASE k.pc = "issue"
    <3>1. UNCHANGED <<cacheVars, clobbered>> /\ k.op \in {"login", "refresh"}
      BY <1>0, <1>4, <2>1 DEF FailedRead, CallOK, Placed
    <3>2. /\ Len(token) < MaxTokens
          /\ token' = Append(token, [sub |-> k.u, at |-> now, issued |-> FALSE])
          /\ call' = [call EXCEPT ![c] = [k EXCEPT !.pc = "store", !.tok = Len(token) + 1, !.ver = 0]]
      BY <1>4, <2>1 DEF FailedRead, At
    <3>3. 0 \in Nat /\ 0 =< Last(k.u)
      BY DEF Last, AccountsInv, Types
    <3> QED
      BY <1>2, <2>1, <3>1, <3>2, <3>3, PairSigned
  <2>2. CASE At(c, "refresh", "version")
    BY <1>3, <1>4, <2>2 DEF FailedRead, At
  <2>3. CASE At(c, "reset", "readver")
    <3> DEFINE r == [k EXCEPT !.pc = "bump", !.ver = 0, !.failed = TRUE]
    <3>1. /\ r \in CallRec /\ r.pc = "bump" /\ r.op = "reset" /\ r.u = k.u /\ r.tok = k.tok
          /\ r.stale = k.stale /\ r.before = k.before /\ r.failed = TRUE
      BY <1>0, <2>3 DEF CallRec, At
    <3>2. call' = [call EXCEPT ![c] = r] /\ UNCHANGED <<cacheVars, token, clobbered>>
      BY <1>4, <2>3 DEF FailedRead, At
    <3> HIDE DEF r
    <3>3. CallOK(c, r)
      BY <1>0, <2>3, <3>1 DEF At, CallOK, Placed, KeepsPassword, Fresh, Refreshes, LogsOut, Resets, Carries
    <3> QED
      BY <1>1, <1>2, <3>1, <3>2, <3>3, CallMoves
  <2> QED
    BY <1>4, <2>1, <2>2, <2>3 DEF FailedRead
<1>5. CASE FailedDel(c)
  <2>1. UNCHANGED <<cacheVars, token, clobbered>>
    BY <1>5 DEF FailedDel
  <2>2. CASE Return(c)
    BY <1>2, <2>1, <2>2, Returns
  <2>3. CASE /\ At(c, "refresh", "rotate")
             /\ call' = [call EXCEPT ![c] = [k EXCEPT !.pc = "user", !.failed = TRUE]]
    BY <1>3, <2>1, <2>3 DEF At
  <2>4. CASE /\ At(c, "reset", "consume")
             /\ call' = [call EXCEPT ![c] = [k EXCEPT !.pc = "readver", !.failed = TRUE]]
    <3> DEFINE r == [k EXCEPT !.pc = "readver", !.failed = TRUE]
    <3>1. /\ r \in CallRec /\ r.pc = "readver" /\ r.op = "reset" /\ r.u = k.u /\ r.tok = k.tok
          /\ r.stale = k.stale /\ r.before = k.before /\ r.failed = TRUE
      BY <1>0, <2>4 DEF CallRec, At
    <3>2. call' = [call EXCEPT ![c] = r]
      BY <2>4
    <3> HIDE DEF r
    <3>3. CallOK(c, r)
      BY <1>0, <2>4, <3>1 DEF At, CallOK, Placed, KeepsPassword, Fresh, Refreshes, LogsOut, Resets, Carries
    <3> QED
      BY <1>1, <1>2, <2>1, <3>1, <3>2, <3>3, CallMoves
  <2> QED
    BY <1>5, <2>2, <2>3, <2>4 DEF FailedDel
<1>6. CASE FailedSet(c)
  <2>1. Return(c) /\ UNCHANGED <<reset, token>>
    BY <1>6 DEF FailedSet
  <2>2. CASE UNCHANGED <<session, version, revoked, clobbered>>
    BY <1>2, <2>1, <2>2, Returns DEF cacheVars
  <2>3. CASE /\ k.pc = "store" /\ UNCHANGED <<version, revoked, clobbered>>
             /\ session' = Put(session, k.tok, [sub |-> k.u, ver |-> k.ver, exp |-> now + RefreshTTL])
    BY <1>2, <2>1, <2>3, SessionStored
  <2>4. CASE /\ At(c, "logout", "revoke") /\ UNCHANGED <<session, version, clobbered>>
             /\ revoked' = Put(revoked, k.tok, now + k.rem)
    <3>1. call' = [call EXCEPT ![c] = NoCall]
      BY <2>1 DEF Return
    <3> QED
      BY <1>2, <2>1, <2>4, <3>1, NoCallFacts, TokenRevoked DEF At
  <2>5. CASE At(c, "reset", "bump") /\ SetVersion(c) /\ UNCHANGED <<session, revoked>>
    BY <1>2, <2>1, <2>5, VersionSet DEF At
  <2> QED
    BY <1>6, <2>2, <2>3, <2>4, <2>5 DEF FailedSet
<1> QED
  BY <1>4, <1>5, <1>6 DEF CacheFails

\* Time passes: a later Revoke lasts no less, and lifetimes only end.
LEMMA TickStep ==
    ASSUME AccountsInv, Tick
    PROVE  AccountsInv'
<1>1. /\ Types /\ StoredOK /\ SpentOK /\ PasswordsLastUnlessOverwritten
      /\ \A i \in DOMAIN session : SessionOK(i)
      /\ \A i \in ended : EndedOK(i)
      /\ \A d \in Clients : CallOK(d, call[d])
  BY DEF AccountsInv
<1>2. now \in Nat /\ now' = now + 1
      /\ UNCHANGED <<users, session, reset, version, revoked, token, resets, call, clobbered, spent, ended, chosen>>
  BY <1>1 DEF Tick, Types, cacheVars, history
<1>3. Types' /\ PasswordsLastUnlessOverwritten' /\ SpentOK'
  BY <1>1, <1>2 DEF Types, PasswordsLastUnlessOverwritten, SpentOK
<1>4. StoredOK'
  <2>1. \A u \in DOMAIN version : version[u].exp \in Nat
    BY <1>1 DEF Types
  <2> QED
    BY <1>1, <1>2, <2>1, TokenFacts, TTLs DEF StoredOK
<1>5. (\A i \in DOMAIN session : SessionOK(i))' /\ (\A i \in ended : EndedOK(i))'
  BY <1>1, <1>2 DEF SessionOK, EndedOK, Last
<1>6. ASSUME NEW d \in Clients PROVE CallOK(d, call[d])'
  <2>1. call[d] \in CallRec /\ CallOK(d, call[d]) /\ call[d].rem \in Int
    BY <1>1 DEF Types, CallRec
  <2>2. Fresh(d, call[d])'
    BY <1>2, <2>1 DEF CallOK, Fresh
  <2>3. LogsOut(call[d])'
    BY <1>1, <1>2, <2>1, TokenFacts, TTLs DEF CallOK, LogsOut
  <2>4. Carries(call[d])'
    <3>1. call[d].stale => token[call[d].old].at \in Nat
      BY <1>1, <2>1, TokenFacts DEF CallOK, Carries, Refreshes
    <3> QED
      BY <1>2, <2>1, <3>1, TTLs DEF CallOK, Carries, Last
  <2> QED
    BY <1>2, <2>1, <2>2, <2>3, <2>4 DEF CallOK, Placed, KeepsPassword, Refreshes, Resets
<1> QED
  BY <1>3, <1>4, <1>5, <1>6 DEF AccountsInv

-----------------------------------------------------------------------------
(* The theorems. *)

LEMMA AccountsInit == Init => AccountsInv
<1> SUFFICES ASSUME Init PROVE AccountsInv
  OBVIOUS
<1>1. /\ session = Empty /\ reset = Empty /\ version = Empty /\ revoked = Empty
      /\ token = <<>> /\ resets = 0 /\ now = 0 /\ call = [c \in Clients |-> NoCall]
      /\ clobbered = {} /\ spent = {} /\ ended = {}
  BY DEF Init
<1>2. PICK u \in Users, e \in Emails, pw \in Passwords :
         /\ users = [v \in Users |-> IF v = u THEN [state |-> "live", email |-> e, password |-> pw]
                                     ELSE NoRow]
         /\ chosen = [v \in Users |-> IF v = u THEN {pw} ELSE {}]
  BY DEF Init
<1>3. DOMAIN Empty = {} /\ \A S : Empty \in [{} -> S]
  BY DEF Empty
<1>4. users \in [Users -> Row] /\ chosen \in [Users -> SUBSET (Passwords \cup {None})]
  BY <1>2 DEF Row, NoRow
<1>5. token \in Seq(Signed) /\ Len(token) = 0 /\ DOMAIN token = {}
  BY <1>1
<1>6. Types
  BY <1>1, <1>3, <1>4, <1>5, NoCallFacts, TTLs DEF Types
<1>7. PasswordsLastUnlessOverwritten
  BY <1>2 DEF PasswordsLastUnlessOverwritten, NoRow
<1>8. StoredOK /\ SpentOK
  BY <1>1, <1>3, <1>5 DEF StoredOK, SpentOK
<1> QED
  BY <1>1, <1>3, <1>6, <1>7, <1>8, NoCallFacts DEF AccountsInv

LEMMA AccountsStep == AccountsInv /\ [Next]_vars => AccountsInv'
<1> SUFFICES ASSUME AccountsInv, [Next]_vars PROVE AccountsInv'
  OBVIOUS
<1>1. ASSUME NEW c \in Clients, Request(c) PROVE AccountsInv'
  BY <1>1, BeginSteps, ResetTokens DEF Request
<1>2. ASSUME NEW c \in Clients, Continue(c) PROVE AccountsInv'
  BY <1>2, MiddleSteps, RowSteps, TokenSteps, ResetTokens DEF Continue
<1>3. ASSUME NEW c \in Clients, CacheFails(c) PROVE AccountsInv'
  BY <1>3, FailedSteps
<1>4. CASE Tick
  BY <1>4, TickStep
<1>5. CASE UNCHANGED vars
  <2>1. UNCHANGED <<users, session, reset, version, revoked, token, resets, call, now, clobbered,
                    spent, ended, chosen>>
    BY <1>5 DEF vars
  <2>2. ASSUME NEW d \in Clients PROVE CallOK(d, call[d])'
    BY <2>1 DEF AccountsInv, CallOK, Placed, KeepsPassword, Fresh, Refreshes, LogsOut, Resets, Carries, Last
  <2>3. (\A i \in DOMAIN session : SessionOK(i))' /\ (\A i \in ended : EndedOK(i))'
    BY <2>1 DEF AccountsInv, SessionOK, EndedOK, Last
  <2> QED
    BY <2>1, <2>2, <2>3 DEF AccountsInv, Types, PasswordsLastUnlessOverwritten, StoredOK, SpentOK
<1> QED
  BY <1>1, <1>2, <1>3, <1>4, <1>5 DEF Next

LEMMA AccountsInvariant == Spec => []AccountsInv
BY AccountsInit, AccountsStep, PTL DEF Spec

\* However requests, failing cache commands and the clock interleave, the
\* refresh, access and reset tokens that an answered Refresh, Logout or
\* ResetPassword has used up open nothing any more.
THEOREM SpentTokensStayGone == Spec => []SpentTokensAreGone
<1>1. AccountsInv => SpentTokensAreGone
  <2> SUFFICES ASSUME AccountsInv, NEW i \in 1 .. MaxTokens
               PROVE  /\ <<"refresh", i>> \in spent => i \notin DOMAIN session
                      /\ <<"access", i>> \in spent => ~Middleware(i)
                      /\ <<"reset", i>> \in spent => i \notin DOMAIN reset
    BY DEF SpentTokensAreGone
  <2>1. ASSUME <<"access", i>> \in spent PROVE ~Middleware(i)
    <3>1. i \in DOMAIN token /\ i \in DOMAIN revoked /\ revoked[i] >= token[i].at + AccessTTL
      BY <2>1 DEF AccountsInv, SpentOK
    <3>2. revoked[i] \in Int /\ token[i].at \in Nat /\ now \in Nat
      BY <3>1, TokenFacts DEF AccountsInv, Types
    <3> QED
      BY <3>1, <3>2, TTLs DEF Middleware
  <2> QED
    BY <2>1 DEF AccountsInv, SpentOK
<1> QED
  BY <1>1, AccountsInvariant, PTL

\* A Refresh with a session that an answered ResetPassword has ended is
\* refused, unless a version of the user was clobbered, a cache command of the
\* request failed or the version key expired while the Refresh was in progress.
THEOREM EndedSessionsStayRefused == Spec => []EndedSessionsAreRefused
<1>1. AccountsInv => EndedSessionsAreRefused
  BY DEF AccountsInv, CallOK, Carries, EndedSessionsAreRefused
<1> QED
  BY <1>1, AccountsInvariant, PTL

\* A live user's password is the one last set, or one that an UpdateUser in
\* progress at that time had read before.
THEOREM PasswordsLast == Spec => []PasswordsLastUnlessOverwritten
<1>1. AccountsInv => PasswordsLastUnlessOverwritten
  BY DEF AccountsInv
<1> QED
  BY <1>1, AccountsInvariant, PTL
=============================================================================
