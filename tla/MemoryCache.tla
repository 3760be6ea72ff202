----------------------------- MODULE MemoryCache -----------------------------
(***************************************************************************)
(* The in-process Cacher of internal/repository/memory/cache.go under      *)
(* concurrent goroutines.  A critical section of the RWMutex is one step;  *)
(* every read of the clock outside it is a step of its own, because the    *)
(* code reads the clock before it locks (Set) and after it unlocks (Get,   *)
(* Exists).                                                                *)
(***************************************************************************)
EXTENDS Integers, FiniteSets, Functions

CONSTANTS
    Clients,         \* goroutines that use the cache
    Keys,            \* prefixed keys
    Values,          \* marshalled values
    TTLs,            \* time-to-live arguments, 0 = no expiry
    SweepThreshold,  \* sweepThreshold
    MaxTime,         \* bound on the clock
    NoValue          \* "miss"

ASSUME CacheAssumption ==
    /\ TTLs \subseteq Nat
    /\ SweepThreshold \in Nat \ {0}
    /\ MaxTime \in Nat \ {0}
    /\ NoValue \notin Values

VARIABLES
    m,       \* c.m: a function on the stored keys
    now,     \* the clock
    call,    \* each goroutine's call in progress
    seen     \* history: what an atomic lookup of the call's key would have
             \* answered at some moment since the call began

vars == <<m, now, call, seen>>

-----------------------------------------------------------------------------
Never == 0                                  \* the zero time.Time
Entry == [data : Values, expiresAt : Nat]

\* !e.expiresAt.IsZero() && !now.Before(e.expiresAt)
ExpiredAt(e, t) == e.expiresAt # Never /\ t >= e.expiresAt
Expired(e) == ExpiredAt(e, now)

\* The answer of an atomic lookup of k in the map f at time t.
Lookup(f, t, k) == IF k \in DOMAIN f /\ ~ExpiredAt(f[k], t) THEN f[k].data ELSE NoValue

NoEntry == [data |-> NoValue, expiresAt |-> Never]
NoCall == [op |-> "none", key |-> NoValue, e |-> NoEntry, answer |-> NoValue]

Op == {"none", "set", "read", "check", "evict", "answer"}
Call == [op : Op, key : Keys \cup {NoValue}, e : Entry \cup {NoEntry},
         answer : Values \cup {NoValue}]

Begin(c, op, k, e) == call' = [call EXCEPT ![c] = [op |-> op, key |-> k, e |-> e,
                                                   answer |-> NoValue]]

\* The history variable follows every change of the map and of the clock.
Observe == seen' = [c \in Clients |->
    IF call'[c].op = "none" THEN {}
    ELSE seen[c] \cup {Lookup(m', now', call'[c].key)}]

Idle(c) == call[c].op = "none"

Without(f, S) == Restrict(f, DOMAIN f \ S)

-----------------------------------------------------------------------------
\* Set: the expiry is computed before the lock is taken.
SetCall(c, k, v, ttl) ==
    /\ Idle(c)
    /\ Begin(c, "set", k, [data |-> v, expiresAt |-> IF ttl > 0 THEN now + ttl ELSE Never])
    /\ UNCHANGED <<m, now>>
    /\ Observe

\* Mutant of Swept: the sweep comes one entry late.
SweptLate == IF Cardinality(DOMAIN m) > SweepThreshold
             THEN Without(m, {k \in DOMAIN m : Expired(m[k])}) ELSE m

\* sweepLocked, run once the map has grown to the threshold.
Swept == IF Cardinality(DOMAIN m) >= SweepThreshold
         THEN Without(m, {k \in DOMAIN m : Expired(m[k])}) ELSE m

SetLocked(c) ==
    /\ call[c].op = "set"
    /\ m' = [k \in DOMAIN Swept \cup {call[c].key} |->
                IF k = call[c].key THEN call[c].e ELSE Swept[k]]
    /\ call' = [call EXCEPT ![c] = NoCall]
    /\ UNCHANGED now
    /\ Observe

\* Get and Exists take the same steps; Exists answers whether there is a value.
GetCall(c, k) ==
    /\ Idle(c)
    /\ Begin(c, "read", k, NoEntry)
    /\ UNCHANGED <<m, now>>
    /\ Observe

\* RLock; e, ok := c.m[full]; RUnlock.  !ok answers a miss at once.
GetRead(c) ==
    /\ call[c].op = "read"
    /\ call' = [call EXCEPT ![c] =
           IF call[c].key \in DOMAIN m THEN [@ EXCEPT !.op = "check", !.e = m[call[c].key]]
                                       ELSE [@ EXCEPT !.op = "answer"]]
    /\ UNCHANGED <<m, now>>
    /\ Observe

\* Mutant of GetCheck: the expiry is not looked at.
GetUnchecked(c) ==
    /\ call[c].op = "check"
    /\ call' = [call EXCEPT ![c] = [@ EXCEPT !.op = "answer", !.answer = call[c].e.data]]
    /\ UNCHANGED <<m, now>>
    /\ Observe

\* The clock is read after the unlock; an unexpired copy is the answer.
GetCheck(c) ==
    /\ call[c].op = "check"
    /\ call' = [call EXCEPT ![c] =
           IF Expired(call[c].e) THEN [@ EXCEPT !.op = "evict"]
                                 ELSE [@ EXCEPT !.op = "answer", !.answer = call[c].e.data]]
    /\ UNCHANGED <<m, now>>
    /\ Observe

\* Lock; delete(c.m, full); Unlock: whatever the key holds by now.
GetEvict(c) ==
    /\ call[c].op = "evict"
    /\ m' = Without(m, {call[c].key})
    /\ call' = [call EXCEPT ![c].op = "answer"]
    /\ UNCHANGED now
    /\ Observe

Return(c) ==
    /\ call[c].op = "answer"
    /\ call' = [call EXCEPT ![c] = NoCall]
    /\ UNCHANGED <<m, now>>
    /\ Observe

Del(c, S) ==
    /\ Idle(c)
    /\ m' = Without(m, S)
    /\ UNCHANGED <<now, call>>
    /\ Observe

Tick ==
    /\ now < MaxTime
    /\ now' = now + 1
    /\ UNCHANGED <<m, call>>
    /\ Observe

-----------------------------------------------------------------------------
\* The clock starts at 1: 0 is the zero time.
Init ==
    /\ m = [k \in {} |-> NoEntry]
    /\ now = 1
    /\ call = [c \in Clients |-> NoCall]
    /\ seen = [c \in Clients |-> {}]

Next ==
    \/ \E c \in Clients, k \in Keys :
          \/ \E v \in Values, ttl \in TTLs : SetCall(c, k, v, ttl)
          \/ GetCall(c, k)
    \/ \E c \in Clients : SetLocked(c) \/ GetRead(c) \/ GetCheck(c) \/ GetEvict(c) \/ Return(c)
    \/ \E c \in Clients, S \in SUBSET Keys \ {{}} : Del(c, S)
    \/ Tick

Spec == Init /\ [][Next]_vars

-----------------------------------------------------------------------------
(* Properties. *)

\* Types; a call that goes on with an entry has one.
TypeOK ==
    /\ DOMAIN m \subseteq Keys /\ \A k \in DOMAIN m : m[k] \in Entry
    /\ now \in 1 .. MaxTime
    /\ call \in [Clients -> Call]
    /\ \A c \in Clients : call[c].op \in {"set", "check", "evict"} => call[c].e \in Entry

\* Get and Exists: a value answered is one that the key held, unexpired, at
\* some moment of the call, although lock and clock are used separately.
HitsAreJustified ==
    \A c \in Clients : call[c].op = "answer" /\ call[c].answer # NoValue
                         => call[c].answer \in seen[c]

\* Set with sweepLocked: the map gets a new key beyond the threshold only if
\* every entry it keeps beside it is unexpired then.
GrowsOnlyWithLiveEntries ==
    [][Cardinality(DOMAIN m') > SweepThreshold /\ ~(DOMAIN m' \subseteq DOMAIN m) =>
          \A k \in DOMAIN m \cap DOMAIN m' : ~Expired(m[k])]_vars
=============================================================================
