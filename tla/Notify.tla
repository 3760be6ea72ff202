------------------------------- MODULE Notify -------------------------------
(***************************************************************************)
(* Notifications sent while a request is handled, and the trail they leave:*)
(* pkg/notification/firebase and email, the request's journal              *)
(* (pkg/journal, middleware/access_log.go) and the daily log files         *)
(* (pkg/logger/sinks.go).                                                  *)
(*                                                                         *)
(* Each sender is a goroutine that calls Send once, within the handler or  *)
(* in its background.  A tick is the HTTP client's timeout; whatever does  *)
(* not wait for a server takes no time.  Files are named by their day.     *)
(***************************************************************************)
EXTENDS Integers, FiniteSets

CONSTANTS
    Senders,
    Timeout,       \* of the push client and of the SMTP dial, in ticks
    Margin,        \* the 30 s taken off a token's lifetime
    Lifetimes,     \* expires_in values the token server gives
    Ports,         \* SMTP ports in use
    MaxAge,        \* days a log file is kept
    MaxDays,       \* bound: midnights
    MaxFaults      \* bound: log files that cannot be opened

ASSUME NotifyAssumption ==
    /\ Timeout \in Nat \ {0} /\ Margin \in Nat /\ 2 * Timeout <= Margin
    /\ Lifetimes \subseteq Nat \ {0} /\ Ports \subseteq {25, 465, 587}
    /\ MaxAge \in Nat \ {0} /\ {MaxDays, MaxFaults} \subseteq Nat

VARIABLES
    sender,     \* what each goroutine is doing
    lock,       \* who holds the token mutex
    token,      \* the cached token: life is what the server still grants it,
                \* fresh what is left until tokenExpiry
    handler,    \* the handler of the request runs, or its access line is written
    journal,    \* the entries of the request's journal
    record,     \* the thirdparty array of the access line
    today,      \* the local date
    file,       \* the day of the open log file
    files,      \* the days whose file is on disk
    logged,     \* history: the days of which a line was written
    faults

vars == <<sender, lock, token, handler, journal, record, today, file, files, logged, faults>>
logVars == <<today, file, files, logged, faults>>
tokenVars == <<lock, token>>

None == "none"
NoFile == -1
Monus(m, n) == IF m > n THEN m - n ELSE 0

At(s, pc) == sender[s].pc = pc
Go(s, r) == sender' = [sender EXCEPT ![s] = r]

\* The end of Send; ok is the outcome the journal has of the delivery, if any.
Outcomes == {"sent", "failed"}
Ending(s, pc, ok) == [pc |-> pc, bg |-> sender[s].bg, ok |-> ok]
Returned(s, ok) == Ending(s, "returned", ok)
Entering(s, ok) == Ending(s, "entry", ok)

-----------------------------------------------------------------------------
(* Push messages.                                                          *)

\* The handler calls Send, itself or in a goroutine it does not wait for.
SendPush(s, bg) ==
    /\ At(s, "idle") /\ handler = "running"
    /\ Go(s, [pc |-> "lock", bg |-> bg])
    /\ UNCHANGED <<tokenVars, handler, journal, record, logVars>>

\* Mutant: the cached token is used until the server stops accepting it.
UsableToTheEnd(t) == t.life > 0

\* accessToken is there and now is before tokenExpiry.
Usable(t) == t.fresh > 0

Posting(s, t) ==
    [pc |-> "post", bg |-> sender[s].bg, left |-> Timeout, life |-> t.life, given |-> t.given]

\* cachedAccessToken: the lock, and the cached token or a request for one.
CachedAccessToken(s) ==
    /\ At(s, "lock") /\ lock = None
    /\ IF Usable(token) THEN Go(s, Posting(s, token)) /\ UNCHANGED lock
       ELSE Go(s, [pc |-> "fetch", bg |-> sender[s].bg, left |-> Timeout]) /\ lock' = s
    /\ UNCHANGED <<token, handler, journal, record, logVars>>

\* tokenExpiry, in ticks from the answer: 30 s are taken off.
Expiry(given, elapsed) == Monus(given, Margin + elapsed)

\* fetchAccessToken succeeds: the lifetime counts from when the server issued
\* the token, tokenExpiry from before the request.
Fetched(s) ==
    /\ At(s, "fetch")
    /\ \E given \in Lifetimes, age \in 0 .. Timeout - sender[s].left :
          LET t == [life |-> Monus(given, age), given |-> given,
                    fresh |-> Expiry(given, Timeout - sender[s].left)]
          IN  token' = t /\ Go(s, Posting(s, t))
    /\ lock' = None
    /\ UNCHANGED <<handler, journal, record, logVars>>

\* Mutant: the lock is not released on the way out.
FetchFailsLocked(s) ==
    /\ At(s, "fetch") /\ Go(s, Returned(s, "unentered"))
    /\ UNCHANGED <<tokenVars, handler, journal, record, logVars>>

\* It fails, or the client's timeout ends it: Send returns without an entry.
FetchFails(s) ==
    /\ At(s, "fetch") /\ lock' = None /\ Go(s, Returned(s, "unentered"))
    /\ UNCHANGED <<token, handler, journal, record, logVars>>
FetchExpires(s) == sender[s].pc = "fetch" /\ sender[s].left = 0 /\ FetchFails(s)

\* The push server answers 200 or not, or the request fails.
Posted(s) ==
    /\ At(s, "post") /\ \E ok \in Outcomes : Go(s, Entering(s, ok))
    /\ UNCHANGED <<tokenVars, handler, journal, record, logVars>>
PostExpires(s) ==
    /\ At(s, "post") /\ sender[s].left = 0 /\ Go(s, Entering(s, "failed"))
    /\ UNCHANGED <<tokenVars, handler, journal, record, logVars>>

-----------------------------------------------------------------------------
(* Mail: one SMTP dialogue per Send, under no deadline once it is dialled. *)

\* Send dials, unless the message has no recipient.
SendMail(s, port, bg) ==
    /\ At(s, "idle") /\ handler = "running"
    /\ \/ Go(s, [pc |-> "dial", bg |-> bg, port |-> port, left |-> Timeout])
       \/ Go(s, [pc |-> "returned", bg |-> bg, ok |-> "unentered"])
    /\ UNCHANGED <<tokenVars, handler, journal, record, logVars>>

Mailing(s, pc, port, tls) == [pc |-> pc, bg |-> sender[s].bg, port |-> port, tls |-> tls]

Dialled(s) ==
    /\ At(s, "dial")
    /\ LET p == sender[s].port
       IN  Go(s, Mailing(s, IF p = 465 THEN "auth" ELSE "hello", p, p = 465))
    /\ UNCHANGED <<tokenVars, handler, journal, record, logVars>>

\* Mutant: without STARTTLS the dialogue goes on in the clear on every port.
StartTLSOptional(port, offered) == IF offered THEN "tls" ELSE "auth"

\* What follows EHLO.
StartTLS(port, offered) ==
    IF offered THEN "tls" ELSE IF port = 587 THEN "refused" ELSE "auth"

Hello(s) ==
    /\ At(s, "hello")
    /\ LET p == sender[s].port
       IN  \E offered \in BOOLEAN :
             LET pc == StartTLS(p, offered)
             IN  Go(s, IF pc = "refused" THEN Entering(s, "failed") ELSE Mailing(s, pc, p, FALSE))
    /\ UNCHANGED <<tokenVars, handler, journal, record, logVars>>

\* The answers from STARTTLS to DATA; "rcpt" stands for MAIL and every RCPT.
Following == [tls |-> "auth", auth |-> "rcpt", rcpt |-> "data"]
MailStep(s) ==
    /\ sender[s].pc \in DOMAIN Following
    /\ LET m == sender[s]
       IN  Go(s, Mailing(s, Following[m.pc], m.port, m.tls \/ m.pc = "tls"))
    /\ UNCHANGED <<tokenVars, handler, journal, record, logVars>>

\* Any answer may be an error; Send enters it.
InDialogue(s) == sender[s].pc \in {"dial", "hello", "tls", "auth", "rcpt", "data"}
MailFails(s) ==
    /\ InDialogue(s) /\ Go(s, Entering(s, "failed"))
    /\ UNCHANGED <<tokenVars, handler, journal, record, logVars>>
DialExpires(s) == sender[s].pc = "dial" /\ sender[s].left = 0 /\ MailFails(s)

\* The text is written; the server's answer to it is not looked at.
MailWritten(s) ==
    /\ At(s, "data") /\ Go(s, Entering(s, "sent"))
    /\ UNCHANGED <<tokenVars, handler, journal, record, logVars>>

-----------------------------------------------------------------------------
(* The journal, the access line and the sinks.                             *)

\* Mutant: the entry is kept back until its line is written.
EntryAfterLine(s) ==
    /\ At(s, "entry") /\ Go(s, Ending(s, "line", sender[s].ok))
    /\ UNCHANGED <<tokenVars, handler, journal, record, logVars>>

\* AddThirdParty under the journal's mutex; late is history: the access line is
\* written already.
AddThirdParty(s) ==
    /\ At(s, "entry") /\ Go(s, Ending(s, "line", sender[s].ok))
    /\ journal' = journal \cup {[who |-> s, ok |-> sender[s].ok, late |-> handler = "returned"]}
    /\ UNCHANGED <<tokenVars, handler, record, logVars>>

\* Mutant: the cutoff is a day later.
OldEarlier(d, zone) == d < today - MaxAge + 1 + zone

\* cleanup: a name is read as the beginning of that day in UTC, the cutoff is the
\* moment MaxAge days ago: where the local date is ahead of UTC's it is up to a
\* day before today - MaxAge begins, where UTC's is ahead up to two days after.
Old(d, zone) == d < today - MaxAge + zone

\* The line of the entry goes through dailyWriter.Write, which on a new day
\* closes the old file, opens today's and cleans up.
WriteLine(s) ==
    /\ At(s, "line") /\ Go(s, Returned(s, sender[s].ok))
    /\ \/ file = today /\ UNCHANGED <<file, files>>
       \/ /\ file # today /\ file' = today
          /\ \E zone \in 0 .. 2 : files' = {d \in files \cup {today} : ~Old(d, zone)}
    /\ logged' = logged \cup {today}
    /\ UNCHANGED <<tokenVars, handler, journal, record, today, faults>>

\* rotate cannot open the file: the old one is closed but still of its day.
WriteFails(s) ==
    /\ At(s, "line") /\ file # today /\ faults < MaxFaults
    /\ Go(s, Returned(s, sender[s].ok))
    /\ faults' = faults + 1
    /\ UNCHANGED <<tokenVars, handler, journal, record, today, file, files, logged>>

\* The handler returns when the calls it made itself have; AccessLog copies the
\* entries into its line.
HandlerReturns ==
    /\ handler = "running" /\ handler' = "returned"
    /\ \A s \in Senders : sender[s].pc \in {"idle", "returned"} \/ sender[s].bg
    /\ record' = journal
    /\ UNCHANGED <<sender, tokenVars, journal, logVars>>

Midnight ==
    /\ today < MaxDays /\ today' = today + 1
    /\ UNCHANGED <<sender, tokenVars, handler, journal, record, file, files, logged, faults>>

\* Time passes while every sender waits for a server, for the lock, or is done.
Timed(s) == sender[s].pc \in {"fetch", "post", "dial"}
Tick ==
    /\ \A s \in Senders :
          /\ Timed(s) => sender[s].left > 0
          /\ sender[s].pc \notin {"entry", "line"}
          /\ At(s, "lock") => lock # None
    /\ \E s \in Senders : Timed(s)
    /\ sender' = [s \in Senders |->
          IF At(s, "post")
          THEN [sender[s] EXCEPT !.left = sender[s].left - 1, !.life = Monus(sender[s].life, 1)]
          ELSE IF Timed(s) THEN [sender[s] EXCEPT !.left = sender[s].left - 1]
          ELSE sender[s]]
    /\ token' = [token EXCEPT !.life = Monus(token.life, 1), !.fresh = Monus(token.fresh, 1)]
    /\ UNCHANGED <<lock, handler, journal, record, logVars>>

Init ==
    /\ sender = [s \in Senders |-> [pc |-> "idle", bg |-> FALSE]]
    /\ lock = None /\ handler = "running" /\ journal = {} /\ record = {}
    /\ \E given \in Lifetimes : \E life \in 0 .. given :
          token = [life |-> life, given |-> given,
                   fresh |-> Monus(life, Margin)]
    /\ today = 0 /\ file = NoFile /\ files = -MaxAge - 1 .. -1 /\ logged = files
    /\ faults = 0

\* What a sender does by itself, and by a timeout of its own.
Step(s) ==
    \/ CachedAccessToken(s) \/ FetchExpires(s) \/ PostExpires(s) \/ DialExpires(s)
    \/ AddThirdParty(s) \/ WriteLine(s)

Next ==
    \/ HandlerReturns \/ Midnight \/ Tick
    \/ \E s \in Senders :
          \/ Step(s) \/ WriteFails(s)
          \/ Fetched(s) \/ FetchFails(s) \/ Posted(s)
          \/ Dialled(s) \/ Hello(s) \/ MailStep(s) \/ MailFails(s) \/ MailWritten(s)
          \/ \E bg \in BOOLEAN :
                SendPush(s, bg) \/ \E port \in Ports : SendMail(s, port, bg)

Spec == Init /\ [][Next]_vars

\* Goroutines run, Go's mutex starves nobody, time passes; no server owes an answer.
FairSpec == Spec /\ SF_vars(Tick) /\ \A s \in Senders : SF_vars(Step(s))

-----------------------------------------------------------------------------
(* Properties. *)

\* Types of the shared state.
TypeOK ==
    /\ lock \in Senders \cup {None}
    /\ token.fresh <= token.life /\ token.life <= token.given
    /\ \A e \in journal \cup record : e.who \in Senders /\ e.ok \in Outcomes
    /\ handler \in {"running", "returned"}
    /\ today \in 0 .. MaxDays /\ file \in {NoFile} \cup 0 .. today
    /\ faults \in 0 .. MaxFaults

\* The 30 s taken off the lifetime cover the request that carries the token:
\* no push is under way with an expired token, though its sender waited for
\* the lock, unless the server grants tokens that live no longer than that.
PushTokenIsValid ==
    \A s \in Senders :
        At(s, "post") /\ sender[s].given > Margin => sender[s].life > 0

\* Credentials and text of a mail cross the submission ports encrypted.
SubmissionIsEncrypted ==
    \A s \in Senders : sender[s].pc \in {"auth", "rcpt", "data"} /\ sender[s].port # 25 => sender[s].tls

\* Every delivery attempted, by the handler or behind its back, has the entry
\* with its outcome in the journal; the access line has it too, unless a
\* goroutine that the handler did not wait for made it after the line.  (A push
\* that gets no token attempts none, and has none.)
RecordIsComplete ==
    \A s \in Senders :
        At(s, "returned") /\ sender[s].ok \in Outcomes =>
            \E e \in journal :
                /\ e.who = s /\ e.ok = sender[s].ok
                /\ e.late => sender[s].bg
                /\ handler = "returned" /\ ~e.late => e \in record

\* Whatever zone and hour the rotations come at and however many files could not
\* be opened, clean-up leaves the lines of the last MaxAge - 1 days, today's
\* among them, and a new day's file finds none older than MaxAge days beside it.
\* (For MaxAge = 1 that is no promise for today: its open file may be removed.)
LinesAreKept ==
    /\ \A d \in logged : d > today - MaxAge + 1 => d \in files
    /\ file = today => \A d \in files : d >= today - MaxAge

\* A push ends whatever the servers do: each sender in front of the lock holds
\* it for no more than the client's timeout.
PushesEnd == \A s \in Senders : At(s, "lock") ~> At(s, "returned")
=============================================================================
