---------------------------- MODULE NotifyProofs ----------------------------
(***************************************************************************)
(* Proofs about Notify, for any number of senders, any timeout, margin and *)
(* lifetimes.  NotifyInv says how much of its lifetime a token must still  *)
(* have at each point of a push, which ports a dialogue can have reached   *)
(* without TLS, and where the entry of a delivery is.                      *)
(***************************************************************************)
EXTENDS Notify, TLAPS

-----------------------------------------------------------------------------
(* The inductive invariant. *)

\* The records a sender goes through.
Waiting   == [pc : {"idle", "lock"}, bg : BOOLEAN]
Fetching  == [pc : {"fetch"}, bg : BOOLEAN, left : 0 .. Timeout]
Pushing   == [pc : {"post"}, bg : BOOLEAN, left : 0 .. Timeout, life : Nat, given : Nat]
Dialling  == [pc : {"dial"}, bg : BOOLEAN, port : Ports, left : 0 .. Timeout]
Talking   == [pc : {"hello", "tls", "auth", "rcpt", "data"}, bg : BOOLEAN, port : Ports, tls : BOOLEAN]
Finishing == [pc : {"entry", "line", "returned"}, bg : BOOLEAN, ok : Outcomes \cup {"unentered"}]
SenderState == Waiting \cup Fetching \cup Pushing \cup Dialling \cup Talking \cup Finishing

\* What a record k carries: a token that outlives the request by what the
\* margin leaves when both timeouts are taken off it; a connection in the clear
\* only where that is still to be decided, or on port 25.
Good(k) ==
    /\ k \in SenderState
    /\ k.pc = "post" /\ k.given > Margin => k.life > Margin - 2 * Timeout + k.left
    /\ k.pc = "hello" => k.port # 465
    /\ k.pc \in {"auth", "rcpt", "data"} /\ k.port # 25 => k.tls
    /\ k.pc \in {"entry", "line"} => k.ok \in Outcomes

\* While the cached token counts as usable the server grants it the margin on
\* top of what is left until tokenExpiry.
TokenOK ==
    /\ token \in [life : Nat, given : Nat, fresh : Nat]
    /\ token.fresh > 0 => token.life >= token.fresh + Margin

\* The outcome of a delivery whose entry is behind it is in the journal, and
\* late only if it is of the background.
HasEntry(s, k, j) == \E e \in j : e.who = s /\ e.ok = k.ok /\ (e.late => k.bg)
Entered ==
    \A s \in Senders :
        sender[s].pc \in {"line", "returned"} /\ sender[s].ok \in Outcomes
            => HasEntry(s, sender[s], journal)

\* The access line has what was in the journal before it.
Copied == handler = "returned" => \A e \in journal : ~e.late => e \in record

\* Once the handler has returned none of its own calls is under way.
Waited ==
    handler = "returned" =>
        \A s \in Senders : sender[s].pc \in {"idle", "returned"} \/ sender[s].bg

NotifyInv ==
    /\ TypeOK
    /\ TokenOK
    /\ \A s \in Senders : Good(sender[s])
    /\ sender = [s \in Senders |-> sender[s]]
    /\ Entered
    /\ Waited
    /\ Copied

SharedVars == <<tokenVars, handler, journal, record, logVars>>

-----------------------------------------------------------------------------
(* Facts about the constants and the records. *)

LEMMA Constants ==
    /\ Timeout \in Nat \ {0} /\ Margin \in Nat /\ 2 * Timeout <= Margin
    /\ Lifetimes \subseteq Nat \ {0} /\ Ports \subseteq {25, 465, 587}
    /\ MaxAge \in Nat \ {0} /\ MaxDays \in Nat /\ MaxFaults \in Nat
  BY NotifyAssumption

LEMMA MonusFacts ==
    ASSUME NEW m \in Nat, NEW n \in Nat
    PROVE  Monus(m, n) \in Nat /\ Monus(m, n) <= m /\ Monus(m, n) >= m - n
           /\ (Monus(m, n) > 0 => Monus(m, n) = m - n)
  BY DEF Monus

\* The background flag of a sender.
LEMMA Background ==
    ASSUME NEW k \in SenderState
    PROVE  k.bg \in BOOLEAN
  BY DEF SenderState, Waiting, Fetching, Pushing, Dialling, Talking, Finishing

\* The record of a sender is the one its step names.
LEMMA Kinds ==
    ASSUME NEW k \in SenderState
    PROVE  /\ k.pc = "fetch" => k \in Fetching
           /\ k.pc = "post" => k \in Pushing
           /\ k.pc = "dial" => k \in Dialling
           /\ k.pc \in {"hello", "tls", "auth", "rcpt", "data"} => k \in Talking
           /\ k.pc \in {"entry", "line", "returned"} => k \in Finishing
           /\ k.pc \in {"idle", "lock"} => k \in Waiting
  BY DEF SenderState, Waiting, Fetching, Pushing, Dialling, Talking, Finishing

LEMMA EndingGood ==
    ASSUME NotifyInv, NEW s \in Senders, NEW pc \in {"entry", "line", "returned"},
           NEW ok \in Outcomes \cup {"unentered"}, pc # "returned" => ok \in Outcomes
    PROVE  /\ Good(Ending(s, pc, ok))
           /\ Ending(s, pc, ok).pc = pc /\ Ending(s, pc, ok).ok = ok
           /\ Ending(s, pc, ok).bg = sender[s].bg
<1>1. sender[s].bg \in BOOLEAN
  BY Background DEF NotifyInv, Good
<1>2. Ending(s, pc, ok) \in Finishing /\ Ending(s, pc, ok).pc = pc
      /\ Ending(s, pc, ok).ok = ok /\ Ending(s, pc, ok).bg = sender[s].bg
  BY <1>1 DEF Ending, Finishing
<1> QED
  BY <1>2 DEF Good, SenderState

\* A push starts with a token that outlives both timeouts.
LEMMA PostingGood ==
    ASSUME NotifyInv, NEW s \in Senders, NEW t \in [life : Nat, given : Nat, fresh : Nat],
           t.given > Margin => t.life > Margin - Timeout
    PROVE  Good(Posting(s, t)) /\ Posting(s, t).bg = sender[s].bg /\ Posting(s, t).pc = "post"
<1>1. sender[s].bg \in BOOLEAN
  BY Background DEF NotifyInv, Good
<1>2. Timeout \in 0 .. Timeout
  BY Constants
<1>3. /\ Posting(s, t) \in Pushing
      /\ Posting(s, t).pc = "post" /\ Posting(s, t).bg = sender[s].bg
      /\ Posting(s, t).left = Timeout /\ Posting(s, t).life = t.life /\ Posting(s, t).given = t.given
  BY <1>1, <1>2 DEF Posting, Pushing
<1>4. t.given > Margin => t.life > Margin - 2 * Timeout + Timeout
  BY Constants
<1> QED
  BY <1>3, <1>4 DEF Good, SenderState

LEMMA MailingGood ==
    ASSUME NotifyInv, NEW s \in Senders, NEW pc \in {"hello", "tls", "auth", "rcpt", "data"},
           NEW port \in Ports, NEW tls \in BOOLEAN,
           pc = "hello" => port # 465,
           pc \in {"auth", "rcpt", "data"} /\ port # 25 => tls
    PROVE  Good(Mailing(s, pc, port, tls)) /\ Mailing(s, pc, port, tls).bg = sender[s].bg
           /\ Mailing(s, pc, port, tls).pc = pc
<1>1. sender[s].bg \in BOOLEAN
  BY Background DEF NotifyInv, Good
<1>2. /\ Mailing(s, pc, port, tls) \in Talking
      /\ Mailing(s, pc, port, tls).pc = pc /\ Mailing(s, pc, port, tls).bg = sender[s].bg
      /\ Mailing(s, pc, port, tls).port = port /\ Mailing(s, pc, port, tls).tls = tls
  BY <1>1 DEF Mailing, Talking
<1> QED
  BY <1>2 DEF Good, SenderState

-----------------------------------------------------------------------------
(* Init, and the frame of a step of one sender. *)

LEMMA NotifyInit == Init => NotifyInv
<1> SUFFICES ASSUME Init PROVE NotifyInv
  OBVIOUS
<1>1. PICK given \in Lifetimes : \E life \in 0 .. given :
          token = [life |-> life, given |-> given, fresh |-> Monus(life, Margin)]
  BY DEF Init
<1>2. PICK life \in 0 .. given : token = [life |-> life, given |-> given, fresh |-> Monus(life, Margin)]
  BY <1>1
<1>3. given \in Nat /\ life \in Nat /\ Margin \in Nat
  BY Constants
<1>4. Monus(life, Margin) \in Nat /\ Monus(life, Margin) <= life
      /\ (Monus(life, Margin) > 0 => Monus(life, Margin) = life - Margin)
  BY <1>3, MonusFacts
<1>5. TokenOK /\ token.fresh <= token.life /\ token.life <= token.given
  BY <1>2, <1>3, <1>4 DEF TokenOK
<1>6. \A s \in Senders : sender[s] = [pc |-> "idle", bg |-> FALSE]
  BY DEF Init
<1> DEFINE k == [pc |-> "idle", bg |-> FALSE]
<1>0. k.pc = "idle" /\ k \in Waiting
  BY DEF Waiting
<1> HIDE DEF k
<1>7. \A s \in Senders : sender[s].pc = "idle" /\ sender[s] \in Waiting
  BY <1>0, <1>6 DEF k
<1>8. TypeOK
  BY <1>5, Constants DEF Init, TypeOK, NoFile
<1> QED
  BY <1>5, <1>7, <1>8 DEF Init, NotifyInv, Good, SenderState, Entered, Waited, Copied

\* Sender s goes on with the record r; the journal may gain its entry.
LEMMA SenderMoves ==
    ASSUME NotifyInv, NEW s \in Senders, NEW r, Good(r), Go(s, r),
           TypeOK', TokenOK', handler' = handler, record' = record,
           journal \subseteq journal',
           \A e \in journal' \ journal : e.late \/ handler = "running",
           r.pc \in {"line", "returned"} /\ r.ok \in Outcomes => HasEntry(s, r, journal'),
           \/ handler = "running"
           \/ r.bg = sender[s].bg /\ sender[s].pc \notin {"idle", "returned"}
    PROVE  NotifyInv'
<1>1. sender' = [sender EXCEPT ![s] = r] /\ sender = [u \in Senders |-> sender[u]]
  BY DEF Go, NotifyInv
<1>2. sender' = [u \in Senders |-> sender'[u]] /\ sender'[s] = r
      /\ \A u \in Senders \ {s} : sender'[u] = sender[u]
  BY <1>1
<1>3. \A u \in Senders : Good(sender[u])'
  <2> SUFFICES ASSUME NEW u \in Senders PROVE Good(sender'[u])
    BY DEF Good, SenderState, Waiting, Fetching, Pushing, Dialling, Talking, Finishing
  <2> QED
    BY <1>2 DEF NotifyInv
<1>4. Entered'
  <2> SUFFICES ASSUME NEW u \in Senders, sender'[u].pc \in {"line", "returned"}, sender'[u].ok \in Outcomes
               PROVE  HasEntry(u, sender'[u], journal')
    BY DEF Entered, HasEntry
  <2>1. CASE u = s
    BY <1>2, <2>1
  <2>2. CASE u # s
    BY <1>2, <2>2 DEF Entered, HasEntry, NotifyInv
  <2> QED
    BY <2>1, <2>2
<1>5. handler = "returned" => sender[s].pc \notin {"idle", "returned"} /\ sender[s].bg /\ r.bg
  BY DEF NotifyInv, Waited
<1>6. Waited'
  BY <1>2, <1>5 DEF Waited, NotifyInv
<1>7. Copied'
  BY DEF Copied, NotifyInv, TypeOK
<1> QED
  BY <1>2, <1>3, <1>4, <1>6, <1>7 DEF NotifyInv

\* The other conjuncts when the shared state stays as it is.
LEMMA SharedSame ==
    ASSUME NotifyInv, UNCHANGED SharedVars
    PROVE  /\ TypeOK' /\ TokenOK' /\ handler' = handler /\ record' = record
           /\ journal' = journal
  BY DEF NotifyInv, TypeOK, TokenOK, SharedVars, tokenVars, logVars

-----------------------------------------------------------------------------
(* Pushes. *)

LEMMA SendPushStep ==
    ASSUME NotifyInv, NEW s \in Senders, NEW bg \in BOOLEAN, SendPush(s, bg)
    PROVE  NotifyInv'
<1> DEFINE r == [pc |-> "lock", bg |-> bg]
<1>1. Good(r) /\ r.pc = "lock"
  BY DEF Good, SenderState, Waiting
<1>2. Go(s, r) /\ handler = "running" /\ UNCHANGED SharedVars
  BY DEF SendPush, SharedVars
<1> HIDE DEF r
<1> QED
  BY <1>1, <1>2, SharedSame, SenderMoves

LEMMA CachedAccessTokenStep ==
    ASSUME NotifyInv, NEW s \in Senders, CachedAccessToken(s)
    PROVE  NotifyInv'
<1>0. sender[s].pc = "lock"
  BY DEF CachedAccessToken, At
<1>1. TypeOK' /\ TokenOK' /\ handler' = handler /\ record' = record /\ journal' = journal
  BY DEF CachedAccessToken, NotifyInv, TypeOK, TokenOK, logVars, Go
<1>2. CASE Usable(token)
  <2>1. Go(s, Posting(s, token))
    BY <1>2 DEF CachedAccessToken
  <2>2. token \in [life : Nat, given : Nat, fresh : Nat] /\ token.life >= token.fresh + Margin
        /\ token.fresh > 0
    BY <1>2 DEF NotifyInv, TokenOK, Usable
  <2>3. token.life > Margin - Timeout
    BY <2>2, Constants
  <2>4. Good(Posting(s, token)) /\ Posting(s, token).bg = sender[s].bg /\ Posting(s, token).pc = "post"
    BY <2>2, <2>3, PostingGood
  <2> QED
    BY <1>0, <1>1, <2>1, <2>4, SenderMoves
<1>3. CASE ~Usable(token)
  <2> DEFINE r == [pc |-> "fetch", bg |-> sender[s].bg, left |-> Timeout]
  <2>1. sender[s].bg \in BOOLEAN /\ Timeout \in 0 .. Timeout
    BY Background, Constants DEF NotifyInv, Good
  <2>2. Good(r) /\ r.pc = "fetch" /\ r.bg = sender[s].bg
    BY <2>1 DEF Good, SenderState, Fetching
  <2>3. Go(s, r)
    BY <1>3 DEF CachedAccessToken
  <2> HIDE DEF r
  <2> QED
    BY <1>0, <1>1, <2>2, <2>3, SenderMoves
<1> QED
  BY <1>2, <1>3

LEMMA FetchedStep ==
    ASSUME NotifyInv, NEW s \in Senders, Fetched(s)
    PROVE  NotifyInv'
<1>0. sender[s].pc = "fetch" /\ sender[s] \in Fetching
  BY Kinds DEF Fetched, At, NotifyInv, Good
<1> DEFINE elapsed == Timeout - sender[s].left
<1>1. elapsed \in 0 .. Timeout
  BY <1>0, Constants DEF Fetching
<1> HIDE DEF elapsed
<1>2. PICK given \in Lifetimes, age \in 0 .. elapsed :
          LET t == [life |-> Monus(given, age), given |-> given, fresh |-> Expiry(given, elapsed)]
          IN  token' = t /\ Go(s, Posting(s, t))
  BY DEF Fetched, elapsed
<1> DEFINE t == [life |-> Monus(given, age), given |-> given, fresh |-> Expiry(given, elapsed)]
<1>3. token' = t /\ Go(s, Posting(s, t))
  BY <1>2
<1>4. given \in Nat /\ age \in Nat /\ elapsed \in Nat /\ age <= elapsed /\ elapsed <= Timeout
      /\ Margin \in Nat /\ Timeout \in Nat
  BY <1>1, Constants
<1>5. /\ Monus(given, age) \in Nat /\ Monus(given, age) <= given /\ Monus(given, age) >= given - age
      /\ Expiry(given, elapsed) \in Nat
      /\ Expiry(given, elapsed) > 0 => Expiry(given, elapsed) = given - (Margin + elapsed)
  <2>1. Margin + elapsed \in Nat
    BY <1>4
  <2>2. Monus(given, Margin + elapsed) \in Nat
        /\ (Monus(given, Margin + elapsed) > 0
              => Monus(given, Margin + elapsed) = given - (Margin + elapsed))
    BY <1>4, <2>1, MonusFacts
  <2>3. Monus(given, age) \in Nat /\ Monus(given, age) <= given /\ Monus(given, age) >= given - age
    BY <1>4, MonusFacts
  <2> QED
    BY <2>2, <2>3 DEF Expiry
<1>6. /\ t \in [life : Nat, given : Nat, fresh : Nat]
      /\ t.life = Monus(given, age) /\ t.given = given /\ t.fresh = Expiry(given, elapsed)
  BY <1>4, <1>5
<1> HIDE DEF t
<1>7. /\ t.fresh <= t.life /\ t.life <= t.given
      /\ t.fresh > 0 => t.life >= t.fresh + Margin
      /\ t.given > Margin => t.life > Margin - Timeout
  BY <1>4, <1>5, <1>6
<1>8. Good(Posting(s, t)) /\ Posting(s, t).bg = sender[s].bg /\ Posting(s, t).pc = "post"
  BY <1>6, <1>7, PostingGood
<1>9. TypeOK' /\ TokenOK' /\ handler' = handler /\ record' = record /\ journal' = journal
  BY <1>3, <1>6, <1>7 DEF Fetched, NotifyInv, TypeOK, TokenOK, logVars
<1> QED
  BY <1>0, <1>3, <1>8, <1>9, SenderMoves

LEMMA FetchFailsStep ==
    ASSUME NotifyInv, NEW s \in Senders, FetchFails(s)
    PROVE  NotifyInv'
<1>1. sender[s].pc = "fetch" /\ Go(s, Ending(s, "returned", "unentered"))
  BY DEF FetchFails, At, Returned
<1>2. TypeOK' /\ TokenOK' /\ handler' = handler /\ record' = record /\ journal' = journal
  BY DEF FetchFails, NotifyInv, TypeOK, TokenOK, logVars
<1>3. "unentered" \notin Outcomes
  BY DEF Outcomes
<1>4. /\ Good(Ending(s, "returned", "unentered"))
      /\ Ending(s, "returned", "unentered").ok = "unentered"
      /\ Ending(s, "returned", "unentered").bg = sender[s].bg
  BY EndingGood
<1> QED
  BY <1>1, <1>2, <1>3, <1>4, SenderMoves

\* A step on the way that ends in the entry of an outcome.
LEMMA EnteringStep ==
    ASSUME NotifyInv, NEW s \in Senders, NEW ok \in Outcomes, Go(s, Entering(s, ok)),
           sender[s].pc \notin {"idle", "returned"}, UNCHANGED SharedVars
    PROVE  NotifyInv'
<1>1. /\ Good(Ending(s, "entry", ok)) /\ Ending(s, "entry", ok).pc = "entry"
      /\ Ending(s, "entry", ok).bg = sender[s].bg
  BY EndingGood
<1> QED
  BY <1>1, SharedSame, SenderMoves DEF Entering

LEMMA PostedStep ==
    ASSUME NotifyInv, NEW s \in Senders, Posted(s) \/ PostExpires(s)
    PROVE  NotifyInv'
<1>1. PICK ok \in Outcomes : Go(s, Entering(s, ok))
  BY DEF Posted, PostExpires, Outcomes
<1> QED
  BY <1>1, EnteringStep DEF Posted, PostExpires, At, SharedVars

-----------------------------------------------------------------------------
(* Mail. *)

LEMMA SendMailStep ==
    ASSUME NotifyInv, NEW s \in Senders, NEW port \in Ports, NEW bg \in BOOLEAN, SendMail(s, port, bg)
    PROVE  NotifyInv'
<1> DEFINE r == [pc |-> "dial", bg |-> bg, port |-> port, left |-> Timeout]
           e == [pc |-> "returned", bg |-> bg, ok |-> "unentered"]
<1>1. Timeout \in 0 .. Timeout
  BY Constants
<1>2. Good(r) /\ r.pc = "dial"
  BY <1>1 DEF Good, SenderState, Dialling
<1>3. Good(e) /\ e.ok \notin Outcomes
  BY DEF Good, SenderState, Finishing, Outcomes
<1>4. (Go(s, r) \/ Go(s, e)) /\ handler = "running" /\ UNCHANGED SharedVars
  BY DEF SendMail, SharedVars
<1> HIDE DEF r, e
<1> QED
  BY <1>2, <1>3, <1>4, SharedSame, SenderMoves

\* A step of the dialogue that goes on with TLS or not.
LEMMA TalkingStep ==
    ASSUME NotifyInv, NEW s \in Senders, NEW pc \in {"hello", "tls", "auth", "rcpt", "data"},
           NEW port \in Ports, NEW tls \in BOOLEAN, Go(s, Mailing(s, pc, port, tls)),
           pc = "hello" => port # 465,
           pc \in {"auth", "rcpt", "data"} /\ port # 25 => tls,
           sender[s].pc \notin {"idle", "returned"}, UNCHANGED SharedVars
    PROVE  NotifyInv'
<1>1. Good(Mailing(s, pc, port, tls)) /\ Mailing(s, pc, port, tls).bg = sender[s].bg
      /\ Mailing(s, pc, port, tls).pc = pc
  BY MailingGood
<1>2. TypeOK' /\ TokenOK' /\ handler' = handler /\ record' = record /\ journal' = journal
  BY SharedSame
<1> DEFINE r == Mailing(s, pc, port, tls)
<1>3. Good(r) /\ Go(s, r) /\ r.bg = sender[s].bg /\ r.pc \notin {"line", "returned"}
  BY <1>1
<1> HIDE DEF r
<1> QED
  BY <1>2, <1>3, SenderMoves

LEMMA DialledStep ==
    ASSUME NotifyInv, NEW s \in Senders, Dialled(s)
    PROVE  NotifyInv'
<1>1. sender[s].pc = "dial" /\ sender[s].port \in Ports
  BY Kinds DEF Dialled, At, NotifyInv, Good, Dialling
<1>2. UNCHANGED SharedVars
  BY DEF Dialled, SharedVars
<1>3. CASE sender[s].port = 465
  <2>1. Go(s, Mailing(s, "auth", sender[s].port, TRUE))
    BY <1>3 DEF Dialled
  <2> QED
    BY <1>1, <1>2, <2>1, TalkingStep
<1>4. CASE sender[s].port # 465
  <2>1. Go(s, Mailing(s, "hello", sender[s].port, FALSE))
    BY <1>4 DEF Dialled
  <2> QED
    BY <1>1, <1>2, <1>4, <2>1, TalkingStep
<1> QED
  BY <1>3, <1>4

LEMMA HelloStep ==
    ASSUME NotifyInv, NEW s \in Senders, Hello(s)
    PROVE  NotifyInv'
<1> DEFINE p == sender[s].port
<1>1. sender[s].pc = "hello" /\ p \in Ports /\ p # 465
  BY Kinds DEF Hello, At, NotifyInv, Good, Talking
<1>2. UNCHANGED SharedVars
  BY DEF Hello, SharedVars
<1>3. PICK offered \in BOOLEAN :
        LET pc == StartTLS(p, offered)
        IN  Go(s, IF pc = "refused" THEN Entering(s, "failed") ELSE Mailing(s, pc, p, FALSE))
  BY DEF Hello
<1> HIDE DEF p
<1>4. CASE StartTLS(p, offered) = "refused"
  BY <1>1, <1>2, <1>3, <1>4, EnteringStep DEF Outcomes
<1>5. CASE StartTLS(p, offered) # "refused"
  <2>1. \/ StartTLS(p, offered) = "tls"
        \/ StartTLS(p, offered) = "auth" /\ p = 25
    BY <1>1, <1>5, Constants DEF StartTLS
  <2>2. Go(s, Mailing(s, StartTLS(p, offered), p, FALSE))
    BY <1>3, <1>5
  <2>3. CASE StartTLS(p, offered) = "tls"
    BY <1>1, <1>2, <2>2, <2>3, TalkingStep
  <2>4. CASE StartTLS(p, offered) = "auth" /\ p = 25
    BY <1>1, <1>2, <2>2, <2>4, TalkingStep
  <2> QED
    BY <2>1, <2>3, <2>4
<1> QED
  BY <1>4, <1>5

LEMMA MailStepStep ==
    ASSUME NotifyInv, NEW s \in Senders, MailStep(s)
    PROVE  NotifyInv'
<1> DEFINE m == sender[s]
           pc == Following[m.pc]
           tls == m.tls \/ m.pc = "tls"
<1>1. m.pc \in {"tls", "auth", "rcpt"}
  BY DEF MailStep, Following
<1>2. m \in Talking /\ (m.pc \in {"auth", "rcpt"} /\ m.port # 25 => m.tls)
  BY <1>1, Kinds DEF NotifyInv, Good
<1>3. pc \in {"auth", "rcpt", "data"}
  BY <1>1 DEF Following
<1>4. tls \in BOOLEAN /\ m.port \in Ports /\ (m.port # 25 => tls)
  BY <1>1, <1>2 DEF Talking
<1>5. Go(s, Mailing(s, pc, m.port, tls)) /\ UNCHANGED SharedVars
  BY DEF MailStep, SharedVars
<1>6. m.pc \notin {"idle", "returned"}
  BY <1>1
<1> HIDE DEF pc, tls
<1> QED
  BY <1>3, <1>4, <1>5, <1>6, TalkingStep

LEMMA MailEndsStep ==
    ASSUME NotifyInv, NEW s \in Senders, MailFails(s) \/ MailWritten(s)
    PROVE  NotifyInv'
<1>1. sender[s].pc \notin {"idle", "returned"} /\ UNCHANGED SharedVars
  BY DEF MailFails, MailWritten, InDialogue, At, SharedVars
<1>2. PICK ok \in Outcomes : Go(s, Entering(s, ok))
  BY DEF MailFails, MailWritten, Outcomes
<1> QED
  BY <1>1, <1>2, EnteringStep
-----------------------------------------------------------------------------
(* The journal, the files and time. *)

LEMMA AddThirdPartyStep ==
    ASSUME NotifyInv, NEW s \in Senders, AddThirdParty(s)
    PROVE  NotifyInv'
<1> DEFINE ok == sender[s].ok
           r == Ending(s, "line", ok)
<1>1. sender[s].pc = "entry" /\ ok \in Outcomes
  BY DEF AddThirdParty, At, NotifyInv, Good
<1>2. Good(r) /\ r.ok = ok /\ r.bg = sender[s].bg
  BY <1>1, EndingGood
<1> DEFINE late == handler = "returned"
           e == [who |-> s, ok |-> ok, late |-> late]
<1>3. Go(s, r) /\ journal' = journal \cup {e}
  BY DEF AddThirdParty
<1>4. e.who = s /\ e.ok = ok /\ e.late = late
  OBVIOUS
<1>5. journal' = journal \cup {e}
  BY <1>3
<1>9. late => sender[s].bg
  BY <1>1 DEF NotifyInv, Waited
<1> HIDE DEF e, ok
<1>6. \A x \in journal' \cup record' : x.who \in Senders /\ x.ok \in Outcomes
  BY <1>1, <1>4, <1>5 DEF AddThirdParty, NotifyInv, TypeOK
<1>7. TypeOK' /\ TokenOK' /\ handler' = handler /\ record' = record
  BY <1>6 DEF AddThirdParty, NotifyInv, TypeOK, TokenOK, tokenVars, logVars
<1>8. HasEntry(s, r, journal') /\ journal \subseteq journal'
  BY <1>2, <1>4, <1>5, <1>9 DEF HasEntry
<1>10. \A x \in journal' \ journal : x.late \/ handler = "running"
  BY <1>4, <1>5 DEF NotifyInv, TypeOK
<1> HIDE DEF r
<1> QED
  BY <1>1, <1>2, <1>3, <1>7, <1>8, <1>10, SenderMoves

LEMMA WriteStep ==
    ASSUME NotifyInv, NEW s \in Senders, WriteLine(s) \/ WriteFails(s)
    PROVE  NotifyInv'
<1> DEFINE ok == sender[s].ok
           r == Ending(s, "returned", ok)
<1>1. sender[s].pc = "line" /\ ok \in Outcomes
  BY DEF WriteLine, WriteFails, At, NotifyInv, Good
<1>2. Good(r) /\ r.ok = ok /\ r.bg = sender[s].bg
  BY <1>1, EndingGood
<1>3. Go(s, r)
  BY DEF WriteLine, WriteFails, Returned
<1>4. file' \in {NoFile} \cup 0 .. today' /\ today' = today /\ faults' \in 0 .. MaxFaults
  <2>1. today \in 0 .. MaxDays /\ faults \in 0 .. MaxFaults /\ file \in {NoFile} \cup 0 .. today
    BY DEF NotifyInv, TypeOK
  <2>2. today \in 0 .. today
    BY <2>1, Constants
  <2>3. CASE WriteLine(s)
    BY <2>1, <2>2, <2>3 DEF WriteLine
  <2>4. CASE WriteFails(s)
    BY <2>1, <2>4, Constants DEF WriteFails
  <2> QED
    BY <2>3, <2>4
<1>5. UNCHANGED <<lock, token, handler, journal, record, today>>
  BY DEF WriteLine, WriteFails, tokenVars
<1>6. TypeOK' /\ TokenOK'
  BY <1>4, <1>5 DEF NotifyInv, TypeOK, TokenOK
<1>7. HasEntry(s, r, journal')
  BY <1>1, <1>2, <1>5 DEF NotifyInv, Entered, HasEntry
<1> HIDE DEF r
<1> QED
  BY <1>1, <1>2, <1>3, <1>5, <1>6, <1>7, SenderMoves

LEMMA HandlerReturnsStep ==
    ASSUME NotifyInv, HandlerReturns
    PROVE  NotifyInv'
<1>1. TypeOK' /\ TokenOK'
  BY DEF HandlerReturns, NotifyInv, TypeOK, TokenOK, tokenVars, logVars
<1>2. UNCHANGED <<sender, journal>> /\ record' = journal
  BY DEF HandlerReturns
<1>3. \A s \in Senders : Good(sender[s])'
  BY <1>2 DEF NotifyInv, Good, SenderState, Waiting, Fetching, Pushing, Dialling, Talking, Finishing
<1>4. Entered' /\ Copied'
  BY <1>2 DEF NotifyInv, Entered, HasEntry, Copied
<1>5. Waited'
  BY <1>2 DEF HandlerReturns, Waited
<1> QED
  BY <1>1, <1>2, <1>3, <1>4, <1>5 DEF NotifyInv

LEMMA MidnightStep ==
    ASSUME NotifyInv, Midnight
    PROVE  NotifyInv'
<1>1. today' \in 0 .. MaxDays /\ file' \in {NoFile} \cup 0 .. today'
  BY Constants DEF Midnight, NotifyInv, TypeOK
<1>2. UNCHANGED <<sender, lock, token, handler, journal, record, faults>>
  BY DEF Midnight, tokenVars
<1>3. TypeOK' /\ TokenOK'
  BY <1>1, <1>2 DEF NotifyInv, TypeOK, TokenOK
<1>4. \A s \in Senders : Good(sender[s])'
  BY <1>2 DEF NotifyInv, Good, SenderState, Waiting, Fetching, Pushing, Dialling, Talking, Finishing
<1> QED
  BY <1>2, <1>3, <1>4 DEF NotifyInv, Entered, HasEntry, Waited, Copied

\* A sender under a deadline after a tick.
LEMMA AgedGood ==
    ASSUME NotifyInv, NEW s \in Senders, Timed(s), sender[s].left > 0,
           NEW r, r = IF At(s, "post")
                      THEN [sender[s] EXCEPT !.left = sender[s].left - 1, !.life = Monus(sender[s].life, 1)]
                      ELSE [sender[s] EXCEPT !.left = sender[s].left - 1]
    PROVE  Good(r) /\ r.pc = sender[s].pc /\ r.bg = sender[s].bg
<1> DEFINE k == sender[s]
<1>1. Good(k) /\ k \in SenderState
  BY DEF NotifyInv, Good
<1>2. CASE k.pc = "post"
  <2>1. k \in Pushing
    BY <1>1, <1>2, Kinds
  <2>2. k.left - 1 \in 0 .. Timeout /\ k.life \in Nat /\ k.given \in Nat
    BY <2>1, Constants DEF Pushing
  <2>3. Monus(k.life, 1) \in Nat /\ Monus(k.life, 1) >= k.life - 1
    BY <2>2, MonusFacts
  <2>4. r = [k EXCEPT !.left = k.left - 1, !.life = Monus(k.life, 1)]
    BY <1>2 DEF At
  <2> HIDE DEF k
  <2>5. /\ r \in Pushing /\ r.left = k.left - 1 /\ r.life = Monus(k.life, 1)
        /\ r.given = k.given /\ r.pc = k.pc /\ r.bg = k.bg
    BY <2>1, <2>2, <2>3, <2>4 DEF Pushing
  <2>6. k.given > Margin => k.life > Margin - 2 * Timeout + k.left
    BY <1>1, <1>2 DEF Good
  <2>7. r.given > Margin => r.life > Margin - 2 * Timeout + r.left
    <3>1. k.left \in Int /\ Margin \in Int /\ Timeout \in Int /\ k.life \in Int
          /\ Monus(k.life, 1) \in Int
      BY <2>1, <2>2, <2>3, Constants DEF Pushing
    <3>2. ASSUME k.given > Margin
          PROVE  Monus(k.life, 1) > Margin - 2 * Timeout + (k.left - 1)
      BY <2>3, <2>6, <3>1, <3>2
    <3> QED
      BY <2>5, <3>2
  <2>8. Good(r)
    BY <1>2, <2>5, <2>7 DEF Good, SenderState
  <2> QED
    BY <2>5, <2>8 DEF k
<1>3. CASE k.pc = "fetch"
  <2>1. k \in Fetching
    BY <1>1, <1>3, Kinds
  <2>2. k.left - 1 \in 0 .. Timeout
    BY <2>1, Constants DEF Fetching
  <2>3. r = [k EXCEPT !.left = k.left - 1]
    BY <1>3 DEF At
  <2> HIDE DEF k
  <2>4. r \in Fetching /\ r.pc = k.pc /\ r.bg = k.bg
    BY <2>1, <2>2, <2>3 DEF Fetching
  <2>5. Good(r)
    BY <1>3, <2>4 DEF Good, SenderState
  <2> QED
    BY <2>4, <2>5 DEF k
<1>4. CASE k.pc = "dial"
  <2>1. k \in Dialling
    BY <1>1, <1>4, Kinds
  <2>2. k.left - 1 \in 0 .. Timeout
    BY <2>1, Constants DEF Dialling
  <2>3. r = [k EXCEPT !.left = k.left - 1]
    BY <1>4 DEF At
  <2> HIDE DEF k
  <2>4. r \in Dialling /\ r.pc = k.pc /\ r.bg = k.bg
    BY <2>1, <2>2, <2>3 DEF Dialling
  <2>5. Good(r)
    BY <1>4, <2>4 DEF Good, SenderState
  <2> QED
    BY <2>4, <2>5 DEF k
<1> QED
  BY <1>2, <1>3, <1>4 DEF Timed

LEMMA TickStep ==
    ASSUME NotifyInv, Tick
    PROVE  NotifyInv'
<1>1. \A s \in Senders :
        /\ Good(sender'[s]) /\ sender'[s].pc = sender[s].pc /\ sender'[s].bg = sender[s].bg
        /\ sender[s].pc \in {"line", "returned"} => sender'[s] = sender[s]
  <2> SUFFICES ASSUME NEW s \in Senders
               PROVE  /\ Good(sender'[s]) /\ sender'[s].pc = sender[s].pc /\ sender'[s].bg = sender[s].bg
                      /\ sender[s].pc \in {"line", "returned"} => sender'[s] = sender[s]
    OBVIOUS
  <2>1. CASE Timed(s)
    <3>1. sender'[s] = IF At(s, "post")
             THEN [sender[s] EXCEPT !.left = sender[s].left - 1, !.life = Monus(sender[s].life, 1)]
             ELSE [sender[s] EXCEPT !.left = sender[s].left - 1]
      BY <2>1 DEF Tick
    <3>2. sender[s].left > 0
      BY <2>1 DEF Tick
    <3>3. Good(sender'[s]) /\ sender'[s].pc = sender[s].pc /\ sender'[s].bg = sender[s].bg
      BY <2>1, <3>1, <3>2, AgedGood
    <3> QED
      BY <2>1, <3>3 DEF Timed
  <2>2. CASE ~Timed(s)
    <3>1. sender'[s] = sender[s]
      BY <2>2 DEF Tick, Timed, At
    <3> QED
      BY <3>1 DEF NotifyInv
  <2> QED
    BY <2>1, <2>2
<1>2. sender' = [s \in Senders |-> sender'[s]]
  BY DEF Tick
<1>3. /\ token' \in [life : Nat, given : Nat, fresh : Nat]
      /\ token'.life = Monus(token.life, 1) /\ token'.fresh = Monus(token.fresh, 1)
      /\ token'.given = token.given
  <2>1. token \in [life : Nat, given : Nat, fresh : Nat]
    BY DEF NotifyInv, TokenOK
  <2>2. Monus(token.life, 1) \in Nat /\ Monus(token.fresh, 1) \in Nat
    BY <2>1, MonusFacts
  <2> QED
    BY <2>1, <2>2 DEF Tick
<1>4. TokenOK' /\ (token.fresh <= token.life /\ token.life <= token.given)'
  BY <1>3, Constants DEF NotifyInv, TokenOK, TypeOK, Monus
<1>5. TypeOK'
  BY <1>4 DEF Tick, NotifyInv, TypeOK, logVars
<1>6. \A s \in Senders : Good(sender[s])'
  BY <1>1 DEF Good, SenderState, Waiting, Fetching, Pushing, Dialling, Talking, Finishing
<1>7. UNCHANGED <<handler, journal, record>>
  BY DEF Tick
<1>8. Entered' /\ Waited' /\ Copied'
  BY <1>1, <1>7 DEF NotifyInv, Entered, HasEntry, Waited, Copied
<1> QED
  BY <1>2, <1>4, <1>5, <1>6, <1>8 DEF NotifyInv

-----------------------------------------------------------------------------
(* The theorems. *)

LEMMA NotifyNext ==
    ASSUME NotifyInv, [Next]_vars
    PROVE  NotifyInv'
<1>1. CASE UNCHANGED vars
  <2>1. UNCHANGED <<sender, SharedVars>>
    BY <1>1 DEF vars, SharedVars, tokenVars, logVars
  <2>2. TypeOK' /\ TokenOK' /\ UNCHANGED <<handler, record, journal>>
    BY <2>1, SharedSame
  <2>3. \A s \in Senders : Good(sender[s])'
    BY <2>1 DEF NotifyInv, Good, SenderState, Waiting, Fetching, Pushing, Dialling, Talking, Finishing
  <2> QED
    BY <2>1, <2>2, <2>3 DEF NotifyInv, Entered, HasEntry, Waited, Copied
<1>2. CASE HandlerReturns \/ Midnight \/ Tick
  BY <1>2, HandlerReturnsStep, MidnightStep, TickStep
<1>3. ASSUME NEW s \in Senders, Step(s)
      PROVE  NotifyInv'
  <2>1. \/ CachedAccessToken(s) \/ FetchFails(s) \/ PostExpires(s) \/ MailFails(s)
        \/ AddThirdParty(s) \/ WriteLine(s)
    BY <1>3 DEF Step, FetchExpires, DialExpires
  <2> QED
    BY <2>1, CachedAccessTokenStep, FetchFailsStep, PostedStep, MailEndsStep, AddThirdPartyStep,
       WriteStep
<1>4. ASSUME NEW s \in Senders,
             WriteFails(s) \/ Fetched(s) \/ FetchFails(s) \/ Posted(s)
             \/ Dialled(s) \/ Hello(s) \/ MailStep(s) \/ MailFails(s) \/ MailWritten(s)
      PROVE  NotifyInv'
  BY <1>4, WriteStep, FetchedStep, FetchFailsStep, PostedStep, DialledStep, HelloStep, MailStepStep,
     MailEndsStep
<1>5. ASSUME NEW s \in Senders, NEW bg \in BOOLEAN,
             SendPush(s, bg) \/ \E port \in Ports : SendMail(s, port, bg)
      PROVE  NotifyInv'
  BY <1>5, SendPushStep, SendMailStep
<1> QED
  BY <1>1, <1>2, <1>3, <1>4, <1>5 DEF Next

LEMMA NotifyInvariant == Spec => []NotifyInv
  BY NotifyInit, NotifyNext, PTL DEF Spec

\* Types of the shared state, and no token counts as fresh for longer than it lives.
THEOREM NotifyTypeCorrect == Spec => []TypeOK
<1>1. NotifyInv => TypeOK  BY DEF NotifyInv
<1> QED  BY <1>1, NotifyInvariant, PTL

\* However long the sender waited for the token lock and for the two servers, the
\* token a push carries has not expired when it was granted for more than the
\* margin fetchAccessToken takes off it: two timeouts fit into that margin.
THEOREM PushTokensAreValid == Spec => []PushTokenIsValid
<1>1. NotifyInv => PushTokenIsValid
  <2> SUFFICES ASSUME NotifyInv, NEW s \in Senders, At(s, "post"), sender[s].given > Margin
               PROVE  sender[s].life > 0
    BY DEF PushTokenIsValid
  <2>1. sender[s] \in Pushing /\ sender[s].life > Margin - 2 * Timeout + sender[s].left
    BY Kinds DEF NotifyInv, Good, At
  <2> QED
    BY <2>1, Constants DEF Pushing
<1> QED  BY <1>1, NotifyInvariant, PTL

\* Whatever the server offers and whichever command fails, the dialogue passes
\* AUTH, MAIL and DATA on a submission port only under TLS.
THEOREM SubmissionsAreEncrypted == Spec => []SubmissionIsEncrypted
<1>1. NotifyInv => SubmissionIsEncrypted  BY DEF NotifyInv, Good, SubmissionIsEncrypted
<1> QED  BY <1>1, NotifyInvariant, PTL

\* Whoever else writes to the journal at the time, every attempted delivery of
\* the handler and of its background goroutines has its entry, and AccessLog's
\* line has all that were made before it.
THEOREM RecordsAreComplete == Spec => []RecordIsComplete
<1>1. NotifyInv => RecordIsComplete
  BY DEF NotifyInv, RecordIsComplete, Entered, HasEntry, Copied, At
<1> QED  BY <1>1, NotifyInvariant, PTL
-----------------------------------------------------------------------------
(* The daily files. *)

\* Only the line of an entry changes what is on the disk, and only midnight the day.
LEMMA OnlyLinesRotate ==
    ASSUME [Next]_vars
    PROVE  \/ UNCHANGED <<today, file, files, logged>>
           \/ Midnight
           \/ \E s \in Senders : WriteLine(s)
<1>1. CASE UNCHANGED vars
  BY <1>1 DEF vars
<1>2. CASE HandlerReturns \/ Midnight \/ Tick
  BY <1>2 DEF HandlerReturns, Tick, logVars
<1>3. ASSUME NEW s \in Senders, Step(s)
      PROVE  UNCHANGED <<today, file, files, logged>> \/ WriteLine(s)
  BY <1>3 DEF Step, CachedAccessToken, FetchExpires, FetchFails, PostExpires, DialExpires, MailFails,
              AddThirdParty, logVars
<1>4. ASSUME NEW s \in Senders,
             WriteFails(s) \/ Fetched(s) \/ FetchFails(s) \/ Posted(s)
             \/ Dialled(s) \/ Hello(s) \/ MailStep(s) \/ MailFails(s) \/ MailWritten(s)
      PROVE  UNCHANGED <<today, file, files, logged>>
  BY <1>4 DEF WriteFails, Fetched, FetchFails, Posted, Dialled, Hello, MailStep, MailFails, MailWritten,
              logVars
<1>5. ASSUME NEW s \in Senders, NEW bg \in BOOLEAN,
             SendPush(s, bg) \/ \E port \in Ports : SendMail(s, port, bg)
      PROVE  UNCHANGED <<today, file, files, logged>>
  BY <1>5 DEF SendPush, SendMail, logVars
<1> QED
  BY <1>1, <1>2, <1>3, <1>4, <1>5 DEF Next

\* Files and lines belong to days up to today; the open file has a line.
FilesInv ==
    /\ files \subseteq Int /\ logged \subseteq Int
    /\ file = NoFile \/ file \in logged
    /\ LinesAreKept

\* Whatever zone, hour and order the rotations come in, and for every age from
\* one day on: cleanup leaves the lines of the last MaxAge - 1 days, and behind a
\* rotation no file is older than MaxAge.
THEOREM LinesAreKeptForTheirAge == Spec => []LinesAreKept
<1>1. Init => FilesInv
  BY Constants DEF Init, FilesInv, LinesAreKept, NoFile
<1>2. ASSUME NotifyInv, FilesInv, [Next]_vars
      PROVE  FilesInv'
  <2>1. today \in Nat /\ file \in {NoFile} \cup 0 .. today /\ MaxAge \in Nat \ {0} /\ NoFile = -1
    BY <1>2, Constants DEF NotifyInv, TypeOK, NoFile
  <2>2. CASE UNCHANGED <<today, file, files, logged>>
    BY <1>2, <2>2 DEF FilesInv, LinesAreKept
  <2>3. CASE Midnight
    <3>1. today' = today + 1 /\ UNCHANGED <<file, files, logged>>
      BY <2>3 DEF Midnight
    <3> QED
      BY <1>2, <2>1, <3>1 DEF FilesInv, LinesAreKept
  <2>4. ASSUME NEW s \in Senders, WriteLine(s)
        PROVE  FilesInv'
    <3>1. logged' = logged \cup {today} /\ today' = today
      BY <2>4 DEF WriteLine
    <3>2. CASE file = today /\ UNCHANGED <<file, files>>
      BY <1>2, <2>1, <3>1, <3>2 DEF FilesInv, LinesAreKept
    <3>3. CASE file # today /\ file' = today
               /\ \E zone \in 0 .. 2 : files' = {d \in files \cup {today} : ~Old(d, zone)}
      <4>1. PICK zone \in 0 .. 2 : files' = {d \in files \cup {today} : ~Old(d, zone)}
        BY <3>3
      <4>2. files' \subseteq Int
        <5>1. files' \subseteq files \cup {today} /\ files \subseteq Int /\ today \in Int
          BY <1>2, <2>1, <4>1 DEF FilesInv
        <5> QED
          BY <5>1
      <4>4. logged' \subseteq Int /\ file' \in logged'
        <5>1. logged \subseteq Int /\ today \in Int /\ file' = today
          BY <1>2, <2>1, <3>3 DEF FilesInv
        <5> QED
          BY <3>1, <5>1
      <4>3. LinesAreKept'
        BY <1>2, <2>1, <3>1, <3>3, <4>1 DEF FilesInv, LinesAreKept, Old
      <4> QED
        BY <4>2, <4>3, <4>4 DEF FilesInv
    <3> QED
      BY <2>4, <3>2, <3>3 DEF WriteLine
  <2> QED
    BY <1>2, <2>2, <2>3, <2>4, OnlyLinesRotate
<1>3. FilesInv => LinesAreKept
  BY DEF FilesInv
<1> QED
  BY <1>1, <1>2, <1>3, NotifyInvariant, PTL DEF Spec
=============================================================================
