------------------------------- MODULE Migrate -------------------------------
(***************************************************************************)
(* cmd/migrate on the migrations that the generator writes: up, down and   *)
(* force, by several processes on one database, each built from the        *)
(* migrations that were there when it was started.                         *)
(*                                                                         *)
(* The engine, golang-migrate, is external and modelled as the command uses*)
(* it: it takes a lock, refuses a dirty version, and around each migration *)
(* writes the version that follows, dirty before and clean after.  One     *)
(* operator repairs what failed and forces the version that a hint names.  *)
(***************************************************************************)
EXTENDS Generator

CONSTANT Migrators

VARIABLES
    db,         \* schema_migrations
    schema,     \* what each version has done to the tables: none, half or done
    lock,       \* who holds the engine's lock
    mig,        \* what each process is doing
    hint,       \* the version that the last hint told the operator to force
    failing     \* history: the migration begun last, [v, dir]

migVars == <<db, schema, lock, mig, hint, failing>>
vars == <<cliVars, faults, migVars>>

Nil == -1
Nobody == "nobody"
All == MaxClock + 1
Idle == [pc |-> "idle"]

ASSUME MigrateAssumption == Nobody \notin Migrators

-----------------------------------------------------------------------------
(* The migrations. *)

\* The embedded directory: the skeleton's two and the generated ones.
OnDisk ==
    made \cup {[v |-> i, name |-> "skeleton", up |-> "whole", down |-> "whole"] :
                  i \in {j \in 1 .. 2 : files[<<"migrations/init", "migrations/jobs">>[j]] \in {"whole", "edited"}}}
Versions(src) == {m.v : m \in src}
Of(src, v) == CHOOSE m \in src : m.v = v

\* The source refuses two files of one version.
Loads(src) == \A m, n \in src : m.v = n.v => m = n

-----------------------------------------------------------------------------
(* The command. *)

\* exec returns, and the engine gives up its lock; an error goes through
\* withDirtyHint.
Returns(p, err) ==
    /\ mig' = [mig EXCEPT ![p] = IF err THEN [mig[p] EXCEPT !.pc = "hint"] ELSE Idle]
    /\ lock' = IF lock = p THEN Nobody ELSE lock

\* withDirtyHint reads the version without the lock, and prints the command that
\* forces it if it is dirty: also where another process is at work on it.
withDirtyHint(p) ==
    /\ mig[p].pc = "hint" /\ mig' = [mig EXCEPT ![p] = Idle]
    /\ hint' = IF db.dirty /\ db.version # Nil THEN db.version ELSE hint
    /\ UNCHANGED <<cliVars, faults, db, schema, lock, failing>>

\* exec: how many migrations, at most.
Limit(dir, steps) == IF steps > 0 THEN steps ELSE IF dir = "up" THEN All ELSE 1

\* newMigrator, and the call of Up or Steps.
Start(p, dir, steps) ==
    /\ mig[p] = Idle /\ InModule /\ OnDisk # {} /\ Loads(OnDisk)
    /\ mig' = [mig EXCEPT ![p] = [pc |-> "lock", dir |-> dir, steps |-> steps, n |-> 0,
                                    src |-> OnDisk, v |-> Nil]]
    /\ UNCHANGED <<cliVars, faults, db, schema, lock, hint, failing>>

\* Mutant: every process has a lock of its own.
LockedAlone(p) ==
    /\ mig[p].pc = "lock" /\ lock' = p
    /\ mig' = [mig EXCEPT ![p].pc = "read"]
    /\ UNCHANGED <<cliVars, faults, db, schema, hint, failing>>

Locked(p) ==
    /\ mig[p].pc = "lock" /\ lock = Nobody /\ lock' = p
    /\ mig' = [mig EXCEPT ![p].pc = "read"]
    /\ UNCHANGED <<cliVars, faults, db, schema, hint, failing>>

\* The lock is not to be had in time.
LockTimesOut(p) ==
    /\ mig[p].pc = "lock" /\ lock # Nobody /\ Returns(p, TRUE)
    /\ UNCHANGED <<cliVars, faults, db, schema, hint, failing>>

\* Under the lock: a dirty version is refused, one that this build does not
\* have, and a way down from nothing.
Unusable(m) ==
    \/ db.dirty
    \/ db.version # Nil /\ db.version \notin Versions(m.src)
    \/ m.dir = "down" /\ db.version = Nil

Read(p) ==
    /\ mig[p].pc = "read"
    /\ \/ Unusable(mig[p]) /\ Returns(p, TRUE)
       \/ ~Unusable(mig[p]) /\ mig' = [mig EXCEPT ![p].pc = "next"] /\ UNCHANGED lock
    /\ UNCHANGED <<cliVars, faults, db, schema, hint, failing>>

\* The migrations that are left, in the direction of the run.
Ahead(m) == IF m.dir = "up" THEN {v \in Versions(m.src) : v > db.version}
            ELSE {v \in Versions(m.src) : v <= db.version}
Least(S) == CHOOSE v \in S : \A w \in S : v <= w
Greatest(S) == CHOOSE v \in S : \A w \in S : v >= w

\* The version is written, dirty, before the migration runs: an up migration's
\* own, or for a down migration the one below, if any.
Begin(p) ==
    LET m == mig[p]
        v == IF m.dir = "up" THEN Least(Ahead(m)) ELSE Greatest(Ahead(m))
        to == IF m.dir = "up" THEN v ELSE IF Ahead(m) = {v} THEN Nil ELSE Greatest(Ahead(m) \ {v})
    IN  /\ m.pc = "next" /\ m.n < Limit(m.dir, m.steps) /\ Ahead(m) # {}
        /\ db' = [version |-> to, dirty |-> TRUE]
        /\ failing' = [v |-> v, dir |-> m.dir]
        /\ mig' = [mig EXCEPT ![p].pc = "apply", ![p].v = v]
        /\ UNCHANGED <<cliVars, faults, schema, lock, hint>>

\* Nothing is left, or enough is done: done, no change, or, as an error, fewer
\* than asked.
Finish(p) ==
    LET limit == Limit(mig[p].dir, mig[p].steps)
    IN  /\ mig[p].pc = "next" /\ (mig[p].n >= limit \/ Ahead(mig[p]) = {})
        /\ Returns(p, limit # All /\ mig[p].n < limit)
        /\ UNCHANGED <<cliVars, faults, db, schema, hint, failing>>

\* The migration runs to its end.  A missing down file counts as an empty one;
\* one that is cut short may hold nothing.
Effect(m) ==
    LET file == IF m.dir = "up" THEN Of(m.src, m.v).up ELSE Of(m.src, m.v).down
    IN  CASE file = "whole" -> {IF m.dir = "up" THEN "done" ELSE "none"}
          [] file = "absent" -> {schema[m.v]}
          [] file = "cut" -> {schema[m.v], "half"}

Apply(p) ==
    /\ mig[p].pc = "apply"
    /\ \E e \in Effect(mig[p]) : schema' = [schema EXCEPT ![mig[p].v] = e]
    /\ mig' = [mig EXCEPT ![p].pc = "clean"]
    /\ UNCHANGED <<cliVars, faults, db, lock, hint, failing>>

\* It fails: on Postgres nothing of it remains, on MySQL the statements before.
ApplyFails(p) ==
    /\ mig[p].pc = "apply" /\ faults < MaxFaults /\ faults' = faults + 1
    /\ \E e \in {schema[mig[p].v], "half"} : schema' = [schema EXCEPT ![mig[p].v] = e]
    /\ Returns(p, TRUE) /\ UNCHANGED <<cliVars, db, hint, failing>>

Clean(p) ==
    /\ mig[p].pc = "clean" /\ db' = [db EXCEPT !.dirty = FALSE]
    /\ mig' = [mig EXCEPT ![p].pc = "next", ![p].n = @ + 1]
    /\ UNCHANGED <<cliVars, faults, schema, lock, hint, failing>>

\* The process is killed; its connection, and with it the lock, go too.
Kill(p) ==
    /\ mig[p] # Idle /\ faults < MaxFaults /\ faults' = faults + 1
    /\ Returns(p, FALSE)
    /\ IF mig[p].pc = "apply"
       THEN \E e \in {"none", "half", "done"} : schema' = [schema EXCEPT ![mig[p].v] = e]
       ELSE UNCHANGED schema
    /\ UNCHANGED <<cliVars, db, hint, failing>>

\* The operator completes the migration that failed by hand and runs
\* -dir force -version with the hint.  Assumed of the operator, for a hint may be
\* outdated: no process is running, and -dir version shows that version, dirty.
ForceVersion ==
    /\ \A p \in Migrators : mig[p] = Idle
    /\ db.dirty /\ hint # Nil /\ hint = db.version
    /\ schema' = [schema EXCEPT ![failing.v] = IF failing.dir = "up" THEN "done" ELSE "none"]
    /\ db' = [version |-> hint, dirty |-> FALSE]
    /\ UNCHANGED <<cliVars, faults, lock, mig, hint, failing>>

Init ==
    /\ CliInit
    /\ db = [version |-> Nil, dirty |-> FALSE] /\ schema = [v \in 1 .. MaxClock |-> "none"]
    /\ lock = Nobody /\ mig = [p \in Migrators |-> Idle]
    /\ hint = Nil /\ failing = [v |-> Nil, dir |-> "up"]

Migrating(p) ==
    \/ \E steps \in 0 .. 1 : Start(p, "up", steps)
    \/ \E steps \in {0, 2} : Start(p, "down", steps)
    \/ Locked(p) \/ LockTimesOut(p) \/ Read(p) \/ Begin(p) \/ Finish(p)
    \/ Apply(p) \/ ApplyFails(p) \/ Clean(p) \/ withDirtyHint(p) \/ Kill(p)

\* Bound: the other commands touch no migration, so processes are started only
\* where make:migration alone has followed new, and only it follows them.
MigrationsOnly ==
    /\ commands = 1 + Cardinality(made) /\ options = {}
    /\ \A p \in Paths : files[p] = IF p \in Selected({}) THEN "whole" ELSE "absent"
Started == failing.v # Nil \/ \E p \in Migrators : mig[p] # Idle

Next ==
    \/ CliNext /\ (Started => MigrationsOnly') /\ UNCHANGED migVars
    \/ MigrationsOnly /\ \E p \in Migrators : Migrating(p)
    \/ ForceVersion

Spec == Init /\ [][Next]_vars

-----------------------------------------------------------------------------
(* Properties. *)

\* Types.
Versioned == [v : 1 .. MaxClock, name : Names \cup {"skeleton"}, up : {"whole", "cut"},
              down : {"whole", "cut", "absent"}]
Process == [pc : {"lock", "read", "next", "apply", "clean", "hint"}, dir : {"up", "down"}, steps : 0 .. 2,
            n : Nat, src : SUBSET Versioned, v : {Nil} \cup 1 .. MaxClock]
TypeOK ==
    /\ files \in [Paths -> {"absent", "whole", "cut", "edited"}]
    /\ targets \subseteq Workers
    /\ clock \in 3 .. MaxClock /\ made \subseteq Versioned /\ \A m \in made : m.v \in 3 .. clock
    /\ db \in [version : {Nil} \cup 1 .. MaxClock, dirty : BOOLEAN]
    /\ schema \in [1 .. MaxClock -> {"none", "half", "done"}]
    /\ lock \in Migrators \cup {Nobody} /\ hint \in {Nil} \cup 1 .. MaxClock
    /\ mig \in [Migrators -> {Idle} \cup Process]
    /\ failing \in [v : {Nil} \cup 1 .. MaxClock, dir : {"up", "down"}]

\* No command writes over what the user has edited, whatever the commands before
\* it have left behind (make:worker adds lines at the end of the Makefile, and
\* keeps those that are there).
EditedFilesSurvive == [][\A p \in Paths : files[p] = "edited" => files'[p] = "edited"]_vars

\* A target that make:worker has put into the Makefile builds a program that is
\* there in full, through failing, repeated and repaired commands.
TargetsAreBacked == \A w \in targets : files[w] \in {"whole", "edited"}

\* After a successful add the project has every file that new leaves out for
\* want of that feature (the lists of add.go and of skipPath agree); one that an
\* earlier command has cut short counts, for add passes over it.
AddCompletesTheFeature ==
    last.ok => \A i \in 1 .. Len(Skeleton) : Skeleton[i][2] = last.cmd => Exists(Skeleton[i][1])

\* Whenever the version is clean the tables are those of the migrations up to
\* it, through failures, kills, racing processes and repairs by the hint, which
\* may be one that another process printed while this migration ran; for
\* the versions that stand for one migration with both its files.
SchemaMatchesVersion ==
    ~db.dirty => \A m \in OnDisk :
        m.up = "whole" /\ m.down = "whole" /\ (\A n \in OnDisk : n.v = m.v => n = m) =>
            schema[m.v] = IF m.v <= db.version THEN "done" ELSE "none"
=============================================================================
