------------------------------ MODULE Accounts ------------------------------
(***************************************************************************)
(* User accounts and their sessions: internal/usecase/auth_usecase.go and  *)
(* user_usecase.go over the users table (internal/repository/db) and the   *)
(* Cacher.  A request is a call of several steps, one per access to the    *)
(* database, the cache or the blacklist; requests of different clients     *)
(* interleave between them.  A request that is refused by its first check  *)
(* changes nothing and is not a step.  Hashing, signing and parsing do not *)
(* fail; a token is the number of its pair (access and refresh).           *)
(***************************************************************************)
EXTENDS Integers, Sequences, FiniteSets, Functions

CONSTANTS
    Clients, Users, Emails, Passwords,
    AccessTTL, RefreshTTL, ResetTTL, VersionTTL,
    MaxTokens,     \* bound: token pairs signed, reset tokens stored
    MaxCalls,      \* bound: requests
    MaxTime,       \* bound on the clock
    MaxFaults,     \* bound: cache commands that fail
    None

ASSUME AccountsAssumption ==
    /\ {AccessTTL, RefreshTTL, ResetTTL, VersionTTL} \subseteq Nat \ {0}
    /\ RefreshTTL < VersionTTL      \* "longer than any refresh token lifetime"
    /\ {MaxTokens, MaxCalls, MaxTime, MaxFaults} \subseteq Nat
    /\ None \notin Emails

VARIABLES
    users,    \* the table
    session,  \* auth:refresh:<jti>
    reset,    \* auth:reset:<token>
    version,  \* auth:ver:<user>
    revoked,  \* the blacklist: access token -> end of its entry
    token,    \* the pairs signed so far
    resets,   \* reset tokens stored so far
    call,     \* the request of each client
    calls, now,
    faults,   \* cache commands that failed
    clobbered, \* history: users whose version a reset replaced that had read another one
    spent,    \* history: tokens used up by a completed request
    ended,    \* history: sessions older than a completed password reset
    chosen    \* history: the passwords that may stand in each user's row

vars == <<users, session, reset, version, revoked, token, resets, call, calls, now,
          faults, clobbered, spent, ended, chosen>>
cacheVars == <<session, reset, version, revoked>>
history == <<faults, clobbered, spent, ended, chosen>>

-----------------------------------------------------------------------------
Row == [state : {"none", "live", "deleted"}, email : Emails \cup {None},
        password : Passwords \cup {None}]
NoRow == [state |-> "none", email |-> None, password |-> None]

NoCall == [op |-> "none", pc |-> "idle", u |-> None, email |-> None, pw |-> None,
           row |-> NoRow, tok |-> 0, old |-> 0, ver |-> 0, rem |-> 0,
           before |-> {}, stale |-> FALSE, failed |-> FALSE]

Live(f, k) == k \in DOMAIN f /\ now < f[k].exp
Put(f, k, v) == [x \in DOMAIN f \cup {k} |-> IF x = k THEN v ELSE f[x]]
Without(f, k) == Restrict(f, DOMAIN f \ {k})

\* The version of Refresh, ResetPassword and issueTokenPair: 0 on a miss.
Current(u) == IF Live(version, u) THEN version[u].n ELSE 0

\* The version last stored, expired or not.
Last(u) == IF u \in DOMAIN version THEN version[u].n ELSE 0

\* Verify of a refresh token, and the Middleware's check of an access token.
Verifies(i) == token[i].issued /\ now < token[i].at + RefreshTTL
Middleware(i) == /\ token[i].issued /\ now < token[i].at + AccessTTL
                 /\ ~(i \in DOMAIN revoked /\ now < revoked[i])

\* FindByID, FindByEmail, ExistsByEmail see the live rows only.
FindByID(u) == users[u].state = "live"
FindByEmail(e) == {u \in Users : FindByID(u) /\ users[u].email = e}
ExistsByEmail(e) == FindByEmail(e) # {}

\* The unique index on email covers deleted rows.
IndexAllows(u, e) == \A v \in Users \ {u} : users[v].email # e

Begin(c, r) ==
    /\ call[c] = NoCall
    /\ calls < MaxCalls
    /\ calls' = calls + 1
    /\ call' = [call EXCEPT ![c] = r]

At(c, op, pc) == call[c].op = op /\ call[c].pc = pc
Goto(c, pc) == call' = [call EXCEPT ![c].pc = pc]
Return(c) == call' = [call EXCEPT ![c] = NoCall]

-----------------------------------------------------------------------------
(* Login, Refresh and the token pair both end with. *)

Login(c, e, pw) ==
    /\ \E u \in FindByEmail(e) :
          /\ users[u].password = pw
          /\ Begin(c, [NoCall EXCEPT !.op = "login", !.pc = "issue", !.u = u])
    /\ UNCHANGED <<users, cacheVars, token, resets, now, history>>

\* issueTokenPair: signs both tokens and reads the password version ...
IssueRead(c) ==
    /\ call[c].pc = "issue"
    /\ Len(token) < MaxTokens
    /\ token' = Append(token, [sub |-> call[c].u, at |-> now, issued |-> FALSE])
    /\ call' = [call EXCEPT ![c] = [@ EXCEPT !.pc = "store", !.tok = Len(token) + 1,
                                             !.ver = Current(call[c].u)]]
    /\ UNCHANGED <<users, cacheVars, resets, calls, now, history>>

\* ... stores the session and returns the pair.
IssueStore(c) ==
    /\ call[c].pc = "store"
    /\ session' = Put(session, call[c].tok,
                      [sub |-> call[c].u, ver |-> call[c].ver, exp |-> now + RefreshTTL])
    /\ token' = [token EXCEPT ![call[c].tok].issued = TRUE]
    /\ spent' = IF call[c].op = "refresh" /\ ~call[c].failed THEN spent \cup {<<"refresh", call[c].old>>} ELSE spent
    /\ Return(c)
    /\ UNCHANGED <<users, reset, version, revoked, resets, calls, now, faults, clobbered, ended, chosen>>

Refresh(c, i) ==
    /\ Verifies(i) /\ Live(session, i)
    /\ session[i].sub = token[i].sub
    /\ Begin(c, [NoCall EXCEPT !.op = "refresh", !.pc = "version", !.u = token[i].sub,
                               !.old = i, !.ver = session[i].ver, !.stale = i \in ended])
    /\ UNCHANGED <<users, cacheVars, token, resets, now, history>>

\* Mutant of RefreshVersion: an off-by-one lets the version before pass.
RefreshVersionLax(c) ==
    /\ At(c, "refresh", "version")
    /\ Goto(c, IF call[c].ver + 1 < Current(call[c].u) THEN "reject" ELSE "rotate")
    /\ UNCHANGED <<users, cacheVars, token, resets, calls, now, history>>

RefreshVersion(c) ==
    /\ At(c, "refresh", "version")
    /\ Goto(c, IF call[c].ver < Current(call[c].u) THEN "reject" ELSE "rotate")
    /\ UNCHANGED <<users, cacheVars, token, resets, calls, now, history>>

\* Mutant of RefreshDel: the old session survives the rotation.
RefreshKeep(c) ==
    /\ call[c].op = "refresh" /\ call[c].pc \in {"reject", "rotate"}
    /\ IF call[c].pc = "reject" THEN Return(c) ELSE Goto(c, "user")
    /\ UNCHANGED <<users, cacheVars, token, resets, calls, now, history>>

\* The old session goes, whether the refresh is refused or goes on.
RefreshDel(c) ==
    /\ call[c].op = "refresh" /\ call[c].pc \in {"reject", "rotate"}
    /\ session' = Without(session, call[c].old)
    /\ IF call[c].pc = "reject" THEN Return(c) ELSE Goto(c, "user")
    /\ UNCHANGED <<users, reset, version, revoked, token, resets, calls, now, history>>

RefreshUser(c) ==
    /\ At(c, "refresh", "user")
    /\ IF FindByID(call[c].u) THEN Goto(c, "issue") ELSE Return(c)
    /\ UNCHANGED <<users, cacheVars, token, resets, calls, now, history>>

-----------------------------------------------------------------------------
(* Logout, behind the Middleware, with or without the refresh token. *)

Logout(c, i, both) ==
    /\ Middleware(i)
    /\ Begin(c, [NoCall EXCEPT !.op = "logout", !.pc = "revoke", !.tok = i,
                               !.old = IF both THEN i ELSE 0,
                               !.rem = token[i].at + AccessTTL - now])
    /\ UNCHANGED <<users, cacheVars, token, resets, now, history>>

\* bl.Revoke for the remaining lifetime.
LogoutRevoke(c) ==
    /\ At(c, "logout", "revoke")
    /\ revoked' = Put(revoked, call[c].tok, now + call[c].rem)
    /\ IF call[c].old = 0 THEN Return(c) ELSE Goto(c, "drop")
    /\ spent' = spent \cup {<<"access", call[c].tok>>}
    /\ UNCHANGED <<users, session, reset, version, token, resets, calls, now, faults, clobbered, ended, chosen>>

\* A refresh token that still verifies loses its session.  Its id is put on
\* the blacklist too, where no check of a refresh token looks.
LogoutDrop(c) ==
    /\ At(c, "logout", "drop")
    /\ session' = IF Verifies(call[c].old) THEN Without(session, call[c].old) ELSE session
    /\ spent' = IF Verifies(call[c].old) THEN spent \cup {<<"refresh", call[c].old>>} ELSE spent
    /\ Return(c)
    /\ UNCHANGED <<users, reset, version, revoked, token, resets, calls, now, faults, clobbered, ended, chosen>>

-----------------------------------------------------------------------------
(* ForgotPassword and ResetPassword. *)

\* Only the email read is used by the Set that follows: one step.
ForgotPassword(c, e) ==
    /\ call[c] = NoCall /\ calls < MaxCalls /\ resets < MaxTokens
    /\ ExistsByEmail(e)
    /\ reset' = Put(reset, resets + 1, [email |-> e, exp |-> now + ResetTTL])
    /\ resets' = resets + 1 /\ calls' = calls + 1
    /\ UNCHANGED <<users, session, version, revoked, token, call, now, history>>

ResetPassword(c, r, pw) ==
    /\ Live(reset, r)
    /\ Begin(c, [NoCall EXCEPT !.op = "reset", !.pc = "find", !.tok = r, !.pw = pw,
                               !.email = reset[r].email])
    /\ UNCHANGED <<users, cacheVars, token, resets, now, history>>

ResetFind(c) ==
    /\ At(c, "reset", "find")
    /\ \/ /\ ~ExistsByEmail(call[c].email)
          /\ Return(c)
       \/ \E u \in FindByEmail(call[c].email) :
             call' = [call EXCEPT ![c] = [@ EXCEPT !.pc = "save", !.u = u, !.row = users[u],
                         !.before = {i \in DOMAIN session : session[i].sub = u}]]
    /\ UNCHANGED <<users, cacheVars, token, resets, calls, now, history>>

\* gorm's Save writes every column; when no live row is left to update it
\* inserts, and on the id conflict overwrites the deleted row.  The unique
\* index may refuse either.
Save(u, row) == users' = IF IndexAllows(u, row.email)
                         THEN [users EXCEPT ![u] = [row EXCEPT !.state = "live"]] ELSE users
Saves(u, row) == IndexAllows(u, row.email)

\* The password set for u, and those in the copies of the row that UpdateUser
\* requests in progress will write.
Chosen(u, pw) == {pw} \cup {call[d].row.password : d \in {x \in Clients :
                                call[x].op = "update" /\ call[x].u = u}}

ResetSave(c) ==
    /\ At(c, "reset", "save")
    /\ Save(call[c].u, [call[c].row EXCEPT !.password = call[c].pw])
    /\ IF Saves(call[c].u, call[c].row)
       THEN Goto(c, "consume") /\ chosen' = [chosen EXCEPT ![call[c].u] = Chosen(call[c].u, call[c].pw)]
       ELSE Return(c) /\ UNCHANGED chosen
    /\ UNCHANGED <<cacheVars, token, resets, calls, now, faults, clobbered, spent, ended>>

ResetConsume(c) ==
    /\ At(c, "reset", "consume")
    /\ reset' = Without(reset, call[c].tok)
    /\ Goto(c, "readver")
    /\ UNCHANGED <<users, session, version, revoked, token, resets, calls, now, history>>

ResetReadVersion(c) ==
    /\ At(c, "reset", "readver")
    /\ call' = [call EXCEPT ![c] = [@ EXCEPT !.pc = "bump", !.ver = Current(call[c].u)]]
    /\ UNCHANGED <<users, cacheVars, token, resets, calls, now, history>>

SetVersion(c) ==
    /\ version' = Put(version, call[c].u, [n |-> call[c].ver + 1, exp |-> now + VersionTTL])
    /\ clobbered' = IF call[c].ver = Last(call[c].u) THEN clobbered ELSE clobbered \cup {call[c].u}

ResetBump(c) ==
    /\ At(c, "reset", "bump")
    /\ SetVersion(c)
    /\ spent' = IF call[c].failed THEN spent ELSE spent \cup {<<"reset", call[c].tok>>}
    /\ ended' = IF call[c].failed THEN ended ELSE ended \cup call[c].before
    /\ Return(c)
    /\ UNCHANGED <<users, session, reset, revoked, token, resets, calls, now, faults, chosen>>

-----------------------------------------------------------------------------
(* CreateUser, UpdateUser, DeleteUser. *)

CreateUser(c, u, e, pw) ==
    /\ users[u].state = "none"
    /\ ~ExistsByEmail(e)
    /\ Begin(c, [NoCall EXCEPT !.op = "create", !.pc = "insert", !.u = u, !.email = e, !.pw = pw])
    /\ UNCHANGED <<users, cacheVars, token, resets, now, history>>

\* repo.Create; the unique index refuses an email taken meanwhile or by a
\* deleted row.
CreateInsert(c) ==
    /\ At(c, "create", "insert")
    /\ IF users[call[c].u].state = "none" /\ IndexAllows(call[c].u, call[c].email)
       THEN /\ users' = [users EXCEPT ![call[c].u] = [state |-> "live", email |-> call[c].email,
                                                      password |-> call[c].pw]]
            /\ chosen' = [chosen EXCEPT ![call[c].u] = {call[c].pw}]
       ELSE UNCHANGED <<users, chosen>>
    /\ Return(c)
    /\ UNCHANGED <<cacheVars, token, resets, calls, now, faults, clobbered, spent, ended>>

UpdateUser(c, u, e) ==
    /\ FindByID(u)
    /\ Begin(c, [NoCall EXCEPT !.op = "update", !.u = u, !.row = users[u], !.email = e,
                               !.pc = IF e = users[u].email THEN "save" ELSE "exists"])
    /\ UNCHANGED <<users, cacheVars, token, resets, now, history>>

UpdateExists(c) ==
    /\ At(c, "update", "exists")
    /\ IF ExistsByEmail(call[c].email) THEN Return(c) ELSE Goto(c, "save")
    /\ UNCHANGED <<users, cacheVars, token, resets, calls, now, history>>

\* Mutant of UpdateSave: the row is built from the request, without a password.
UpdateSaveBlank(c) ==
    /\ At(c, "update", "save")
    /\ Save(call[c].u, [call[c].row EXCEPT !.email = call[c].email, !.password = None])
    /\ Return(c)
    /\ UNCHANGED <<cacheVars, token, resets, calls, now, history>>

UpdateSave(c) ==
    /\ At(c, "update", "save")
    /\ Save(call[c].u, [call[c].row EXCEPT !.email = call[c].email])
    /\ Return(c)
    /\ UNCHANGED <<cacheVars, token, resets, calls, now, history>>

DeleteUser(c, u) ==
    /\ FindByID(u)
    /\ Begin(c, [NoCall EXCEPT !.op = "delete", !.pc = "delete", !.u = u])
    /\ UNCHANGED <<users, cacheVars, token, resets, now, history>>

\* Soft delete of the row, if it is still live.
DeleteRow(c) ==
    /\ At(c, "delete", "delete")
    /\ users' = IF FindByID(call[c].u) THEN [users EXCEPT ![call[c].u].state = "deleted"] ELSE users
    /\ Return(c)
    /\ UNCHANGED <<cacheVars, token, resets, calls, now, history>>

-----------------------------------------------------------------------------
(* Redis does not answer.  A Get is then a miss (graceful degradation) and the
   error of a Del is dropped, as is that of the Set of the version; only the Set
   of a session and Revoke report theirs.  A command that failed may have been
   carried out. *)

FailedRead(c) ==
    /\ \/ /\ call[c].pc = "issue" /\ Len(token) < MaxTokens
          /\ token' = Append(token, [sub |-> call[c].u, at |-> now, issued |-> FALSE])
          /\ call' = [call EXCEPT ![c] = [@ EXCEPT !.pc = "store", !.tok = Len(token) + 1, !.ver = 0]]
       \/ /\ At(c, "refresh", "version")
          /\ call' = [call EXCEPT ![c] = [@ EXCEPT !.pc = "rotate", !.failed = TRUE]]
          /\ UNCHANGED token
       \/ /\ At(c, "reset", "readver")
          /\ call' = [call EXCEPT ![c] = [@ EXCEPT !.pc = "bump", !.ver = 0, !.failed = TRUE]]
          /\ UNCHANGED token
    /\ UNCHANGED <<cacheVars, clobbered>>

FailedDel(c) ==
    /\ \/ At(c, "refresh", "reject") /\ Return(c)
       \/ /\ At(c, "refresh", "rotate")
          /\ call' = [call EXCEPT ![c] = [@ EXCEPT !.pc = "user", !.failed = TRUE]]
       \/ At(c, "logout", "drop") /\ Return(c)
       \/ /\ At(c, "reset", "consume")
          /\ call' = [call EXCEPT ![c] = [@ EXCEPT !.pc = "readver", !.failed = TRUE]]
    /\ UNCHANGED <<cacheVars, token, clobbered>>

FailedSet(c) ==
    /\ \/ /\ call[c].pc = "store"
          /\ session' \in {session, Put(session, call[c].tok,
                 [sub |-> call[c].u, ver |-> call[c].ver, exp |-> now + RefreshTTL])}
          /\ UNCHANGED <<version, revoked, clobbered>>
       \/ /\ At(c, "logout", "revoke")
          /\ revoked' \in {revoked, Put(revoked, call[c].tok, now + call[c].rem)}
          /\ UNCHANGED <<session, version, clobbered>>
       \/ /\ At(c, "reset", "bump")
          /\ SetVersion(c) \/ UNCHANGED <<version, clobbered>>
          /\ UNCHANGED <<session, revoked>>
    /\ Return(c)
    /\ UNCHANGED <<reset, token>>

CacheFails(c) ==
    /\ faults < MaxFaults
    /\ faults' = faults + 1
    /\ FailedRead(c) \/ FailedDel(c) \/ FailedSet(c)
    /\ UNCHANGED <<users, resets, calls, now, spent, ended, chosen>>

Tick ==
    /\ now < MaxTime
    /\ now' = now + 1
    /\ UNCHANGED <<users, cacheVars, token, resets, call, calls, history>>

-----------------------------------------------------------------------------
Empty == [x \in {} |-> 0]

\* One user is registered.
Init ==
    /\ \E u \in Users, e \in Emails, pw \in Passwords :
          /\ users = [v \in Users |-> IF v = u THEN [state |-> "live", email |-> e, password |-> pw]
                                      ELSE NoRow]
          /\ chosen = [v \in Users |-> IF v = u THEN {pw} ELSE {}]
    /\ session = Empty /\ reset = Empty /\ version = Empty /\ revoked = Empty
    /\ token = <<>> /\ resets = 0
    /\ call = [c \in Clients |-> NoCall]
    /\ calls = 0 /\ now = 0
    /\ faults = 0 /\ clobbered = {} /\ spent = {} /\ ended = {}

Request(c) ==
    \/ \E e \in Emails, pw \in Passwords : Login(c, e, pw)
    \/ \E i \in DOMAIN token : Refresh(c, i)
    \/ \E i \in DOMAIN token, both \in BOOLEAN : Logout(c, i, both)
    \/ \E e \in Emails : ForgotPassword(c, e)
    \/ \E r \in DOMAIN reset, pw \in Passwords : ResetPassword(c, r, pw)
    \/ \E u \in Users, e \in Emails, pw \in Passwords : CreateUser(c, u, e, pw)
    \/ \E u \in Users, e \in Emails : UpdateUser(c, u, e)
    \/ \E u \in Users : DeleteUser(c, u)

Continue(c) ==
    \/ IssueRead(c) \/ IssueStore(c)
    \/ RefreshVersion(c) \/ RefreshDel(c) \/ RefreshUser(c)
    \/ LogoutRevoke(c) \/ LogoutDrop(c)
    \/ ResetFind(c) \/ ResetSave(c) \/ ResetConsume(c) \/ ResetReadVersion(c) \/ ResetBump(c)
    \/ CreateInsert(c) \/ UpdateExists(c) \/ UpdateSave(c) \/ DeleteRow(c)

Next == (\E c \in Clients : Request(c) \/ Continue(c) \/ CacheFails(c)) \/ Tick

Spec == Init /\ [][Next]_vars

-----------------------------------------------------------------------------
(* Properties. *)

\* Types; rows differ in their email, and a stored session is that of a signed
\* refresh token of the same user.
TypeOK ==
    /\ users \in [Users -> Row]
    /\ \A u, v \in Users : u # v /\ users[u].state # "none" => users[u].email # users[v].email
    /\ DOMAIN session \subseteq DOMAIN token
    /\ \A i \in DOMAIN session : session[i].sub = token[i].sub
    /\ DOMAIN reset \subseteq 1 .. resets /\ resets \in 0 .. MaxTokens
    /\ DOMAIN revoked \subseteq DOMAIN token
    /\ calls \in 0 .. MaxCalls /\ now \in 0 .. MaxTime

\* Refresh, Logout, ResetPassword: once the request has been answered, the
\* token it used up opens nothing any more: the session of a rotated or logged
\* out refresh token, a used reset token, an access token after logout.  A
\* request whose own cache command failed promises nothing, and harms no other.
SpentTokensAreGone ==
    \A i \in 1 .. MaxTokens :
        /\ <<"refresh", i>> \in spent => i \notin DOMAIN session
        /\ <<"access", i>> \in spent => ~Middleware(i)
        /\ <<"reset", i>> \in spent => i \notin DOMAIN reset

\* "Invalidate all active refresh sessions by bumping the user's password
\* version": a Refresh that starts after a ResetPassword has been answered,
\* with a session stored before that reset read the user, is refused.  Neither
\* request may have lost a cache command of its own, no reset of the user may
\* have replaced a version other than the one it read (because two resets
\* overlapped, the key had expired or the read failed), and the Refresh must
\* not take so long that the version key expires under it.
EndedSessionsAreRefused ==
    \A c \in Clients :
        /\ call[c].stale /\ ~call[c].failed /\ call[c].u \notin clobbered
        /\ now < token[call[c].old].at + VersionTTL
        => call[c].pc \in {"version", "reject"}

\* ResetPassword and UpdateUser write the whole row: the password of a user is
\* the one last set, and only an UpdateUser that had read the row before a reset
\* saved it brings the old one back.
PasswordsLastUnlessOverwritten ==
    \A u \in Users : users[u].state = "live" => users[u].password \in chosen[u]
=============================================================================
