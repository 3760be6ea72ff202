------------------------------ MODULE Generator ------------------------------
(***************************************************************************)
(* The command line tool (cli/commands, cli/generator) at work on one      *)
(* project directory: wapgo new, add, make:*, make:worker and              *)
(* make:migration.  One command runs at a time; it writes its files one    *)
(* after another and may fail at any of them.                              *)
(*                                                                         *)
(* A path stands for the files of the skeleton, or of one domain, that are *)
(* treated alike; a file is absent, whole, cut short or edited by the user.*)
(***************************************************************************)
EXTENDS Integers, Sequences, FiniteSets, Functions

CONSTANTS
    Features,      \* the features in use, among "redis", "kafka", "google"
    Editable,      \* bound: the paths the user edits
    Names,         \* names of migrations
    MaxClock,      \* bound: the last second, in versions (the skeleton has 1 and 2)
    MaxCommands,   \* bound: commands
    MaxFaults      \* bound: failures, of a command or of a migration

ASSUME GeneratorAssumption ==
    /\ Features \subseteq {"redis", "kafka", "google"}
    /\ {MaxClock, MaxCommands, MaxFaults} \subseteq Nat /\ MaxClock >= 3

VARIABLES
    options,    \* of the project: its features, and "postgres" if that is its database
    files,      \* what is at each path
    made,       \* what make:migration has written: [v, name, up, down]
    targets,    \* workers whose targets were appended to the Makefile
    clock,
    last,       \* history: the last command and whether it succeeded
    commands, faults

cliVars == <<options, files, made, targets, clock, last, commands>>

-----------------------------------------------------------------------------
(* What the commands write. *)

\* The skeleton in the order of the walk, with the option that skipPath asks for.
Skeleton == <<
    <<".", "any">>, <<"Makefile", "any">>, <<"cmd/worker", "postgres">>, <<"go.mod", "any">>,
    <<"handler/google", "google">>, <<"handler/user", "any">>,
    <<"route/google", "google">>, <<"route/user", "any">>, <<"repository/redis", "redis">>,
    <<"migrations/init", "any">>, <<"migrations/jobs", "postgres">>,
    <<"auth/google", "google">>, <<"kafka", "kafka">>,
    <<"ratelimit/memory", "any">>, <<"ratelimit/redis", "redis">> >>

\* Scaffold's walk, and the files it does not skip for these options.
Walk == [i \in 1 .. Len(Skeleton) |-> Skeleton[i][1]]
Selected(opts) == {e[1] : e \in {x \in Range(Skeleton) : x[2] \in opts \cup {"any"}}}

\* Mutant: add redis copies the cache and leaves the limiter.
FeatureFilesFewer(f) ==
    CASE f = "redis" -> <<"repository/redis">>
      [] f = "kafka" -> <<"kafka">>
      [] f = "google" -> <<"auth/google", "handler/google", "handler/user", "route/google", "route/user">>

\* The files of the subtrees that add copies for a feature.
FeatureFiles(f) ==
    CASE f = "redis" -> <<"repository/redis", "ratelimit/memory", "ratelimit/redis">>
      [] f = "kafka" -> <<"kafka">>
      [] f = "google" -> <<"auth/google", "handler/google", "handler/user", "route/google", "route/user">>

\* The files of each make command, for the domain.
runMakeModel == <<"entity", "repository">>
runMakeRepo == <<"db">>
runMakeUsecase == <<"usecase">>
runMakeController == <<"handler", "service">>
runMakeRoute == <<"route">>
runMakeClient == <<"client">>
runMakeTest == <<"usecase_test">>
runMakeHandlerTest == <<"handler_test">>
runMakeEvent == <<"producer", "consumer">>
MakeAll == runMakeModel \o runMakeRepo \o runMakeUsecase \o runMakeController \o runMakeRoute
             \o runMakeClient \o runMakeTest \o runMakeHandlerTest
Layers == {runMakeModel, runMakeRepo, runMakeUsecase, runMakeController, runMakeRoute,
           runMakeClient, runMakeTest, runMakeHandlerTest, runMakeEvent, MakeAll}

Workers == {"cmd/worker", "cmd/worker-order"}
Paths == {e[1] : e \in Range(Skeleton)} \cup (UNION {Range(l) : l \in Layers}) \cup Workers

Exists(p) == files[p] # "absent"

\* ReadModulePath: a go.mod that has its module line.
InModule == files["go.mod"] \in {"whole", "edited"}

-----------------------------------------------------------------------------
(* How a command ends. *)

\* The files at these paths are written.
Written(S) == [p \in Paths |-> IF p \in S THEN "whole" ELSE files[p]]

Ends(cmd, ok) ==
    /\ commands < MaxCommands /\ commands' = commands + 1
    /\ last' = [cmd |-> cmd, ok |-> ok]

\* Every file is written.
Succeeds(cmd, todo) ==
    /\ files' = Written(todo) /\ Ends(cmd, TRUE)
    /\ UNCHANGED faults

\* Of the files to do, in the order of the plan, those before the n-th are
\* written; the n-th is not there or cut short.
WrittenUpTo(plan, todo, n, next) ==
    [Written({plan[i] : i \in 1 .. n - 1} \cap todo) EXCEPT ![plan[n]] = IF next = "cut" THEN "cut" ELSE @]

\* A directory, a file or a template fails: what is written stays.
Fails(cmd, plan, todo) ==
    /\ faults < MaxFaults /\ faults' = faults + 1 /\ Ends(cmd, FALSE)
    /\ \E n \in 1 .. Len(plan), next \in {"absent", "cut"} :
          plan[n] \in todo /\ files' = WrittenUpTo(plan, todo, n, next)

\* Render comes to a file that exists already.
Stops(cmd, todo) ==
    /\ files' = Written(todo) /\ Ends(cmd, FALSE)
    /\ UNCHANGED faults

-----------------------------------------------------------------------------
(* The commands, in the project's directory once new has made it. *)

\* Scaffold: a directory that exists is refused; go mod tidy only warns.
New(opts) ==
    /\ ~Exists(".") /\ options' = opts
    /\ Succeeds("new", Selected(opts)) \/ Fails("new", Walk, Selected(opts))
    /\ UNCHANGED <<made, targets, clock>>

\* Mutant: what exists is written again.
MissingOrNot(plan) == Range(plan)

\* AddFeatureFiles skips what exists.
Missing(plan) == {p \in Range(plan) : ~Exists(p)}

runAdd(f) ==
    /\ InModule
    /\ LET todo == Missing(FeatureFiles(f)) IN Succeeds(f, todo) \/ Fails(f, FeatureFiles(f), todo)
    /\ UNCHANGED <<options, made, targets, clock>>

\* Render, file by file, up to the first that exists.
Rendered(cmd, plan) ==
    LET todo == {plan[i] : i \in {j \in 1 .. Len(plan) : \A h \in 1 .. j : ~Exists(plan[h])}}
    IN  \/ todo = Range(plan) /\ Succeeds(cmd, todo)
        \/ todo # Range(plan) /\ Stops(cmd, todo)
        \/ Fails(cmd, plan, todo)

Make(plan) ==
    /\ InModule /\ Rendered("make", plan)
    /\ UNCHANGED <<options, made, targets, clock>>

\* strings.Contains finds the plain worker's target in that of a named one, and
\* in the skeleton's Makefile for Postgres.
Mentioned(w) == w \in targets \/ (w = "cmd/worker" /\ (targets # {} \/ "postgres" \in options))

\* Mutant: the targets are appended although the file could not be written.
runMakeWorkerAnyway(w) ==
    /\ InModule /\ Rendered("worker", <<w>>)
    /\ targets' = IF Exists("Makefile") /\ ~Mentioned(w) THEN targets \cup {w} ELSE targets
    /\ UNCHANGED <<options, made, clock>>

\* Once the file is there appendWorkerMakeTargets adds to the Makefile, if it has
\* one.  Its errors are ignored: nothing may be appended, or a part of it, with
\* or without the name of the target.
runMakeWorker(w) ==
    /\ InModule /\ Rendered("worker", <<w>>)
    /\ \/ UNCHANGED targets
       \/ last'.ok /\ Exists("Makefile") /\ ~Mentioned(w) /\ targets' = targets \cup {w}
    /\ UNCHANGED <<options, made, clock>>

\* The pair of files named by the second; the up file, then the down file.
runMakeMigration(name) ==
    /\ Exists(".") /\ \A m \in made : <<m.v, m.name>> # <<clock, name>>
    /\ \E pair \in {<<"whole", "whole">>, <<"whole", "cut">>, <<"whole", "absent">>, <<"cut", "absent">>} :
          /\ made' = made \cup {[v |-> clock, name |-> name, up |-> pair[1], down |-> pair[2]]}
          /\ Ends("migration", pair[2] = "whole")
          /\ faults' = IF pair[2] = "whole" THEN faults ELSE faults + 1
    /\ faults' <= MaxFaults
    /\ UNCHANGED <<options, files, targets, clock>>

\* The user edits a file, or deletes one that a failed command has cut short.
Edit(p) ==
    /\ files[p] = "whole" /\ files' = [files EXCEPT ![p] = "edited"]
    /\ UNCHANGED <<options, made, targets, clock, last, commands, faults>>
Delete(p) ==
    /\ files[p] = "cut" /\ files' = [files EXCEPT ![p] = "absent"]
    /\ last' = [cmd |-> "user", ok |-> FALSE]
    /\ UNCHANGED <<options, made, targets, clock, commands, faults>>

\* Until there is a migration the second does not matter.
Second ==
    /\ made # {} /\ clock < MaxClock /\ clock' = clock + 1
    /\ UNCHANGED <<options, files, made, targets, last, commands, faults>>

CliInit ==
    /\ options = {} /\ files = [p \in Paths |-> "absent"]
    /\ made = {} /\ targets = {}
    /\ clock = 3 /\ last = [cmd |-> "none", ok |-> FALSE]
    /\ commands = 0 /\ faults = 0

CliNext ==
    \/ \E opts \in SUBSET (Features \cup {"postgres"}) : New(opts)
    \/ \E f \in Features : runAdd(f)
    \/ \E l \in Layers : Make(l)
    \/ \E w \in Workers : runMakeWorker(w)
    \/ \E name \in Names : runMakeMigration(name)
    \/ \E p \in Editable : Edit(p)
    \/ \E p \in Paths : Delete(p)
    \/ Second
=============================================================================
