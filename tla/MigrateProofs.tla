---------------------------- MODULE MigrateProofs ----------------------------
(***************************************************************************)
(* For any names, processes, faults and length of time.  The files: a      *)
(* command writes only what is not there, so an edited file survives, and  *)
(* so does a program that has its targets.  The tables: SchemaInv says what*)
(* holds while processes are at work, so that SchemaMatchesVersion can be  *)
(* kept when the version becomes clean again.  Its parts are: only the     *)
(* holder of the lock writes the version or the tables; the holder began   *)
(* on a clean version of its own build, and what it has not embedded is    *)
(* newer than all it has; and only the migration begun last may differ     *)
(* from what the version says.                                             *)
(***************************************************************************)
EXTENDS Migrate, WellFoundedInduction, TLAPS

\* Until new has made the directory there is nothing in it.
NothingBeforeNew ==
    files["."] \in {"absent", "cut"} => \A p \in Paths \ {"."} : files[p] = "absent"

FilesInv == TargetsAreBacked /\ AddCompletesTheFeature /\ NothingBeforeNew

-----------------------------------------------------------------------------
(* The migrations on disk and the versions of the table. *)

Proper(m) ==
    m.up = "whole" /\ m.down = "whole" /\ \A n \in OnDisk : n.v = m.v => n = m
Right(m) == schema[m.v] = IF m.v <= db.version THEN "done" ELSE "none"

\* What a process has embedded is on disk, and what came later is newer.  A
\* process at work has the lock; it begins migrations only on a clean version.
ProcessOK(p) ==
    /\ (lock = p) <=> (mig[p].pc \in {"read", "next", "apply", "clean"})
    /\ mig[p] # Idle =>
          /\ mig[p].src \subseteq OnDisk
          /\ \A m \in OnDisk \ mig[p].src, n \in mig[p].src : n.v <= m.v
    /\ mig[p].pc \in {"next", "apply", "clean"} => db.version \in {Nil} \cup Versions(mig[p].src)
    /\ mig[p].pc = "next" => ~db.dirty
    /\ mig[p].pc \in {"apply", "clean"} =>
          /\ db.dirty /\ failing = [v |-> mig[p].v, dir |-> mig[p].dir]
          /\ mig[p].v \in Versions(mig[p].src)
    /\ mig[p].pc = "clean" => \A m \in OnDisk : Proper(m) /\ m.v = mig[p].v =>
          schema[m.v] = IF mig[p].dir = "up" THEN "done" ELSE "none"

\* Before the first migration nothing has changed.
BeforeTheFirst ==
    failing.v = Nil => ~db.dirty /\ db.version = Nil /\ \A v \in 1 .. MaxClock : schema[v] = "none"

\* A dirty version is the one that the migration begun last leads to.
DirtyIsFailing ==
    db.dirty => /\ failing.v \in Versions(OnDisk)
                /\ failing.dir = "up" => db.version = failing.v
                /\ failing.dir = "down" => db.version < failing.v

\* Tables and version agree but for the migration begun last.
RestIsRight ==
    \A m \in OnDisk : Proper(m) /\ (db.dirty => m.v # failing.v) => Right(m)

OnlyFromDisk ==
    /\ db.version \in {Nil} \cup Versions(OnDisk)
    /\ \A v \in 1 .. MaxClock : schema[v] # "none" => v \in Versions(OnDisk)

SchemaInv ==
    /\ Started => MigrationsOnly
    /\ BeforeTheFirst /\ DirtyIsFailing /\ RestIsRight /\ OnlyFromDisk
    /\ \A p \in Migrators : ProcessOK(p)

MigrateInv == TypeOK /\ FilesInv /\ SchemaInv

-----------------------------------------------------------------------------
(* The lists of the generator. *)

\* Where the skeleton's walk begins, and what it asks for.
LEMMA SkeletonFacts ==
  /\ Len(Skeleton) = 15 /\ DOMAIN Skeleton = 1 .. 15
  /\ Skeleton[1] = <<".", "any">>
  /\ \A i \in 2 .. 15 : Skeleton[i][1] # "."
  /\ \A i \in 1 .. 15 : Skeleton[i][2] \in {"any", "postgres", "google", "redis", "kafka"}
<1>1. Len(Skeleton) = 15 /\ DOMAIN Skeleton = 1 .. 15  BY DEF Skeleton
<1>2. Skeleton[1] = <<".", "any">>  BY DEF Skeleton
<1>3. ASSUME NEW i \in 2 .. 15 PROVE Skeleton[i][1] # "."
  BY DEF Skeleton
<1>4. ASSUME NEW i \in 1 .. 15
      PROVE  Skeleton[i][2] \in {"any", "postgres", "google", "redis", "kafka"}
  BY DEF Skeleton
<1> QED  BY <1>1, <1>2, <1>3, <1>4

\* add copies every file that new leaves out without the feature.
LEMMA FeatureListsAgree ==
  ASSUME NEW f \in {"redis", "kafka", "google"}, NEW i \in 1 .. 15, Skeleton[i][2] = f
  PROVE  Skeleton[i][1] \in Range(FeatureFiles(f))
  BY DEF Skeleton, FeatureFiles, Range

\* The lists of the generator name files of the project.
LEMMA PathFacts ==
  /\ "." \in Paths /\ "go.mod" \in Paths /\ "go.mod" # "."
  /\ \A i \in 1 .. 15 : Skeleton[i][1] \in Paths
  /\ Workers \subseteq Paths
  /\ \A l \in Layers : Range(l) \subseteq Paths
  /\ \A f \in {"redis", "kafka", "google"} : Range(FeatureFiles(f)) \subseteq Paths
<1>1. \A i \in 1 .. 15 : Skeleton[i][1] \in Paths  BY SkeletonFacts DEF Paths, Range
<1>2. Skeleton[1][1] = "." /\ Skeleton[4][1] = "go.mod"  BY DEF Skeleton
<1>3. Workers \subseteq Paths /\ \A l \in Layers : Range(l) \subseteq Paths
  <2>1. Workers \subseteq Paths  BY DEF Paths
  <2>2. ASSUME NEW l \in Layers, NEW p \in Range(l) PROVE p \in Paths
    <3>1. p \in UNION {Range(k) : k \in Layers}  BY <2>2, Zenon
    <3> QED  BY <3>1, Zenon DEF Paths
  <2> QED  BY <2>1, <2>2
<1>4. ASSUME NEW f \in {"redis", "kafka", "google"} PROVE Range(FeatureFiles(f)) \subseteq Paths
  <2>1. /\ Skeleton[5][1] = "handler/google" /\ Skeleton[6][1] = "handler/user"
        /\ Skeleton[7][1] = "route/google" /\ Skeleton[8][1] = "route/user"
        /\ Skeleton[9][1] = "repository/redis" /\ Skeleton[12][1] = "auth/google"
        /\ Skeleton[13][1] = "kafka" /\ Skeleton[14][1] = "ratelimit/memory"
        /\ Skeleton[15][1] = "ratelimit/redis"
    BY DEF Skeleton
  <2>2. {"handler/google", "handler/user", "route/google", "route/user", "repository/redis",
         "auth/google", "kafka", "ratelimit/memory", "ratelimit/redis"} \subseteq Paths
    BY <1>1, <2>1
  <2> QED  BY <2>2 DEF FeatureFiles, Range
<1> QED  BY <1>1, <1>2, <1>3, <1>4
-----------------------------------------------------------------------------
(* The commands and the files. *)

FilesType ==
    files \in [Paths -> {"absent", "whole", "cut", "edited"}] /\ targets \subseteq Workers

Untouched == \A p \in Paths : files[p] = "edited" => files'[p] = "edited"

\* What a command has to write is not there yet; it succeeds, stops or fails.
Writes(cmd, plan, todo, ok) ==
    \/ ok /\ Succeeds(cmd, todo)
    \/ Stops(cmd, todo)
    \/ Fails(cmd, plan, todo)

\* A new target is that of a program just written.
TargetsOfWritten == targets' \subseteq Workers /\ \A w \in targets' : w \in targets \/ files'[w] = "whole"

\* A command that only writes what is not there keeps what is known of the files.
LEMMA WritesKeepFiles ==
  ASSUME FilesType, FilesInv, NEW cmd, NEW plan, NEW todo \in SUBSET Paths, NEW ok \in BOOLEAN,
         Writes(cmd, plan, todo, ok), \A p \in todo : ~Exists(p),
         Exists(".") /\ files["."] # "cut", TargetsOfWritten,
         \A i \in 1 .. 15 : Skeleton[i][2] = cmd /\ ok => Skeleton[i][1] \in todo \/ Exists(Skeleton[i][1])
  PROVE  FilesType' /\ FilesInv' /\ Untouched
<1>1. "." \notin todo /\ files["."] \in {"whole", "edited"}
  BY PathFacts DEF FilesType, Exists
<1>t. ASSUME NEW w \in targets PROVE w \in Paths \ todo /\ files[w] \in {"whole", "edited"}
  <2>1. w \in Paths /\ files[w] \in {"whole", "edited"}
    BY <1>t, PathFacts DEF FilesType, FilesInv, TargetsAreBacked
  <2> QED  BY <2>1 DEF Exists
<1>2. ASSUME files' = Written(todo)
      PROVE  /\ FilesType' /\ TargetsAreBacked' /\ NothingBeforeNew' /\ Untouched
             /\ \A p \in Paths : Exists(p) => files'[p] # "absent"
             /\ \A p \in todo : files'[p] = "whole"
  <2>1. \A p \in Paths : files'[p] = IF p \in todo THEN "whole" ELSE files[p]
    BY <1>2 DEF Written
  <2>2. FilesType'  BY <1>2 DEF FilesType, Written, TargetsOfWritten
  <2>3. TargetsAreBacked'  BY <1>t, <2>1 DEF TargetsAreBacked, TargetsOfWritten
  <2>4. NothingBeforeNew'  BY <1>1, <2>1, PathFacts DEF NothingBeforeNew
  <2>5. Untouched  BY <2>1 DEF Untouched, Exists
  <2> QED  BY <2>1, <2>2, <2>3, <2>4, <2>5 DEF Exists
<1>3. CASE ok /\ Succeeds(cmd, todo)
  <2>1. files' = Written(todo) /\ last' = [cmd |-> cmd, ok |-> TRUE]
    BY <1>3 DEF Succeeds, Ends
  <2>2. AddCompletesTheFeature'
    <3> SUFFICES ASSUME NEW i \in 1 .. 15, Skeleton[i][2] = cmd PROVE files'[Skeleton[i][1]] # "absent"
      BY <2>1, SkeletonFacts DEF AddCompletesTheFeature, Exists
    <3>1. Skeleton[i][1] \in todo \/ Exists(Skeleton[i][1])  BY <1>3
    <3> QED  BY <1>2, <2>1, <3>1, PathFacts
  <2> QED  BY <1>2, <2>1, <2>2 DEF FilesInv
<1>4. CASE Stops(cmd, todo)
  <2>1. files' = Written(todo) /\ last' = [cmd |-> cmd, ok |-> FALSE]
    BY <1>4 DEF Stops, Ends
  <2>2. AddCompletesTheFeature'  BY <2>1 DEF AddCompletesTheFeature
  <2> QED  BY <1>2, <2>1, <2>2 DEF FilesInv
<1>5. CASE Fails(cmd, plan, todo)
  <2>1. PICK n \in 1 .. Len(plan), next \in {"absent", "cut"} :
           plan[n] \in todo /\ files' = WrittenUpTo(plan, todo, n, next)
    BY <1>5 DEF Fails
  <2>2. last' = [cmd |-> cmd, ok |-> FALSE]  BY <1>5 DEF Fails, Ends
  <2>3. \A p \in Paths : \/ files'[p] = files[p]
                         \/ p \in todo /\ files'[p] = "whole"
                         \/ p = plan[n] /\ files'[p] = "cut"
    BY <2>1 DEF WrittenUpTo, Written
  <2>4. FilesType'
    <3>1. files' \in [Paths -> {"absent", "whole", "cut", "edited"}]
      <4>1. DOMAIN files' = Paths /\ files' = [p \in Paths |-> files'[p]]
        BY <2>1 DEF WrittenUpTo, Written
      <4> QED  BY <2>3, <4>1 DEF FilesType
    <3> QED  BY <3>1 DEF FilesType, TargetsOfWritten
  <2>5. TargetsAreBacked'  BY <1>t, <2>1, <2>3 DEF TargetsAreBacked, TargetsOfWritten
  <2>6. NothingBeforeNew'  BY <1>1, <2>1, <2>3, PathFacts DEF NothingBeforeNew
  <2>7. Untouched  BY <2>1, <2>3 DEF Untouched, Exists
  <2>8. AddCompletesTheFeature'  BY <2>2 DEF AddCompletesTheFeature
  <2> QED  BY <2>4, <2>5, <2>6, <2>7, <2>8 DEF FilesInv
<1> QED  BY <1>3, <1>4, <1>5 DEF Writes

\* new: Scaffold walks the skeleton and stops at its first error.
LEMMA NewKeepsFiles ==
  ASSUME FilesType, FilesInv, NEW opts, New(opts)
  PROVE  FilesType' /\ FilesInv' /\ Untouched
<1>1. \A p \in Paths : files[p] = "absent"
  BY PathFacts DEF New, FilesInv, NothingBeforeNew, Exists
<1>2. Untouched  BY <1>1 DEF Untouched
<1>t. targets' = {}
  <2>1. \A w \in targets : w \in Paths /\ files[w] # "absent"
    BY PathFacts DEF FilesType, FilesInv, TargetsAreBacked
  <2> QED  BY <1>1, <2>1 DEF New
<1>3. Selected(opts) \subseteq Paths
  BY DEF Selected, Paths, Range
<1>4. "." \in Selected(opts)
  <2>1. Skeleton[1] \in Range(Skeleton) /\ Skeleton[1][1] = "." /\ Skeleton[1][2] = "any"
    BY SkeletonFacts DEF Range
  <2> QED  BY <2>1 DEF Selected
<1>5. CASE Succeeds("new", Selected(opts))
  <2>1. files' = Written(Selected(opts)) /\ last' = [cmd |-> "new", ok |-> TRUE]
    BY <1>5 DEF Succeeds, Ends
  <2>2. \A p \in Paths : files'[p] = IF p \in Selected(opts) THEN "whole" ELSE "absent"
    BY <1>1, <2>1 DEF Written
  <2>3. AddCompletesTheFeature'
    BY <2>1, SkeletonFacts DEF AddCompletesTheFeature
  <2>4. FilesType'  BY <1>t, <2>1 DEF FilesType, Written
  <2>5. TargetsAreBacked' /\ NothingBeforeNew'
    BY <1>t, <1>4, <2>2, PathFacts DEF TargetsAreBacked, NothingBeforeNew
  <2> QED  BY <1>2, <2>3, <2>4, <2>5 DEF FilesInv
<1>6. CASE Fails("new", Walk, Selected(opts))
  <2>1. PICK n \in 1 .. Len(Walk), next \in {"absent", "cut"} :
           Walk[n] \in Selected(opts) /\ files' = WrittenUpTo(Walk, Selected(opts), n, next)
    BY <1>6 DEF Fails
  <2>2. last' = [cmd |-> "new", ok |-> FALSE]  BY <1>6 DEF Fails, Ends
  <2>w. Len(Walk) = 15 /\ \A i \in 1 .. 15 : Walk[i] = Skeleton[i][1]
    BY SkeletonFacts DEF Walk
  <2> DEFINE S == {Walk[i] : i \in 1 .. n - 1} \cap Selected(opts)
  <2>3. \A p \in Paths : \/ files'[p] = IF p \in S THEN "whole" ELSE "absent"
                         \/ p = Walk[n] /\ files'[p] = "cut"
    BY <1>1, <2>1 DEF WrittenUpTo, Written
  <2>n. n \in 1 .. 15  BY <2>w
  <2>4. "." \in S \/ S = {}
    <3>1. CASE n = 1  BY <3>1
    <3>2. CASE n # 1  BY <1>4, <2>w, <2>n, <3>2, SkeletonFacts
    <3> QED  BY <3>1, <3>2
  <2>5. Walk[n] = "." => S = {}
    <3>1. Walk[n] = "." => n = 1  BY <2>w, <2>n, SkeletonFacts
    <3> QED  BY <3>1
  <2>s. Walk[n] # "." => "." \in S
    <3>1. Walk[n] # "." => n # 1  BY <2>w, SkeletonFacts
    <3> QED  BY <1>4, <2>w, <2>n, <3>1, SkeletonFacts
  <2> HIDE DEF S
  <2>6. NothingBeforeNew'
    BY <2>3, <2>5, <2>s, PathFacts DEF NothingBeforeNew
  <2>7. TargetsAreBacked'  BY <1>t DEF TargetsAreBacked
  <2>8. FilesType'
    <3>1. files' = [p \in Paths |-> files'[p]]  BY <2>1 DEF WrittenUpTo, Written
    <3>2. files' \in [Paths -> {"absent", "whole", "cut", "edited"}]  BY <2>3, <3>1
    <3> QED  BY <1>t, <3>2 DEF FilesType
  <2> QED  BY <1>2, <2>2, <2>6, <2>7, <2>8 DEF FilesInv, AddCompletesTheFeature
<1> QED  BY <1>5, <1>6 DEF New

\* Render writes nothing that exists.
LEMMA RenderedWrites ==
  ASSUME NEW cmd, NEW plan, Rendered(cmd, plan), Range(plan) \subseteq Paths, DOMAIN plan = 1 .. Len(plan)
  PROVE  \E todo \in SUBSET Paths :
            Writes(cmd, plan, todo, TRUE) /\ \A p \in todo : ~Exists(p)
<1> DEFINE J == {j \in 1 .. Len(plan) : \A h \in 1 .. j : ~Exists(plan[h])}
           todo == {plan[i] : i \in J}
<1>1. todo \subseteq Range(plan)  BY DEF Range
<1>2. \A p \in todo : ~Exists(p)
  <2> SUFFICES ASSUME NEW j \in 1 .. Len(plan), \A h \in 1 .. j : ~Exists(plan[h]) PROVE ~Exists(plan[j])
    OBVIOUS
  <2> QED  OBVIOUS
<1>3. Writes(cmd, plan, todo, TRUE)  BY DEF Rendered, Writes
<1> HIDE DEF todo
<1> QED  BY <1>1, <1>2, <1>3

\* No command writes over an edited file, nor takes away what a target builds.
LEMMA CliKeepsFiles ==
  ASSUME FilesType, FilesInv, CliNext
  PROVE  FilesType' /\ FilesInv' /\ Untouched
<1>m. InModule => Exists(".") /\ files["."] # "cut"
  BY PathFacts DEF InModule, FilesInv, NothingBeforeNew, Exists, FilesType
<1>u. ASSUME UNCHANGED <<files, targets>>, last' = last \/ ~\E i \in 1 .. 15 : Skeleton[i][2] = last'.cmd
      PROVE  FilesType' /\ FilesInv' /\ Untouched
  <2>1. FilesType' /\ Untouched /\ TargetsAreBacked' /\ NothingBeforeNew'
    BY <1>u DEF FilesType, Untouched, FilesInv, TargetsAreBacked, NothingBeforeNew
  <2>2. AddCompletesTheFeature'
    BY <1>u, SkeletonFacts DEF FilesInv, AddCompletesTheFeature, Exists
  <2> QED  BY <2>1, <2>2 DEF FilesInv
<1>k. targets' = targets => TargetsOfWritten  BY DEF FilesType, TargetsOfWritten
<1>1. ASSUME NEW opts \in SUBSET (Features \cup {"postgres"}), New(opts)
      PROVE  FilesType' /\ FilesInv' /\ Untouched
  BY <1>1, NewKeepsFiles
<1>2. ASSUME NEW f \in Features, runAdd(f)
      PROVE  FilesType' /\ FilesInv' /\ Untouched
  <2> DEFINE plan == FeatureFiles(f)
             todo == Missing(plan)
  <2>1. f \in {"redis", "kafka", "google"}  BY GeneratorAssumption
  <2>2. todo \subseteq Paths /\ \A p \in todo : ~Exists(p)
    BY <2>1, PathFacts DEF Missing
  <2>3. Writes(f, plan, todo, TRUE)  BY <1>2 DEF runAdd, Writes
  <2>4. ASSUME NEW i \in 1 .. 15, Skeleton[i][2] = f
        PROVE  Skeleton[i][1] \in todo \/ Exists(Skeleton[i][1])
    BY <2>1, <2>4, FeatureListsAgree DEF Missing
  <2>5. InModule /\ TargetsOfWritten  BY <1>2, <1>k DEF runAdd
  <2> HIDE DEF todo, plan
  <2> QED  BY <1>m, <2>2, <2>3, <2>4, <2>5, WritesKeepFiles
<1>r. ASSUME NEW cmd \in {"make", "worker"}, NEW plan, Rendered(cmd, plan), InModule, TargetsOfWritten,
             Range(plan) \subseteq Paths, DOMAIN plan = 1 .. Len(plan)
      PROVE  FilesType' /\ FilesInv' /\ Untouched
  <2>1. PICK todo \in SUBSET Paths : Writes(cmd, plan, todo, TRUE) /\ \A p \in todo : ~Exists(p)
    BY <1>r, RenderedWrites
  <2>2. \A i \in 1 .. 15 : Skeleton[i][2] # cmd  BY SkeletonFacts
  <2> QED  BY <1>m, <1>r, <2>1, <2>2, WritesKeepFiles
<1>3. ASSUME NEW l \in Layers, Make(l)
      PROVE  FilesType' /\ FilesInv' /\ Untouched
  <2>1. DOMAIN l = 1 .. Len(l)
    BY DEF Layers, runMakeModel, runMakeRepo, runMakeUsecase, runMakeController, runMakeRoute,
           runMakeClient, runMakeTest, runMakeHandlerTest, runMakeEvent, MakeAll
  <2> QED  BY <1>3, <1>k, <1>r, <2>1, PathFacts DEF Make
<1>4. ASSUME NEW w \in Workers, runMakeWorker(w)
      PROVE  FilesType' /\ FilesInv' /\ Untouched
  <2>1. Range(<<w>>) \subseteq Paths /\ DOMAIN <<w>> = 1 .. Len(<<w>>)
    BY PathFacts DEF Range
  <2>2. last'.ok => files'[w] = "whole"
    <3>1. \/ \E todo : todo = Range(<<w>>) /\ Succeeds("worker", todo)
          \/ \E todo : Stops("worker", todo) \/ Fails("worker", <<w>>, todo)
      BY <1>4 DEF runMakeWorker, Rendered
    <3>2. CASE \E todo : todo = Range(<<w>>) /\ Succeeds("worker", todo)
      <4>1. files' = Written(Range(<<w>>)) /\ w \in Range(<<w>>) /\ w \in Paths
        BY <2>1, <3>2 DEF Succeeds, Range
      <4> QED  BY <4>1 DEF Written
    <3>3. CASE \E todo : Stops("worker", todo) \/ Fails("worker", <<w>>, todo)
      BY <3>3 DEF Stops, Fails, Ends
    <3> QED  BY <3>1, <3>2, <3>3
  <2>3. targets' = targets \/ (last'.ok /\ targets' = targets \cup {w})  BY <1>4 DEF runMakeWorker
  <2>4. TargetsOfWritten  BY <2>2, <2>3 DEF FilesType, TargetsOfWritten
  <2> QED  BY <1>4, <1>r, <2>1, <2>4 DEF runMakeWorker
<1>5. ASSUME NEW name \in Names, runMakeMigration(name)
      PROVE  FilesType' /\ FilesInv' /\ Untouched
  <2>1. UNCHANGED <<files, targets>> /\ \E ok \in BOOLEAN : last' = [cmd |-> "migration", ok |-> ok]
    BY <1>5 DEF runMakeMigration, Ends
  <2> QED  BY <1>u, <2>1, SkeletonFacts
<1>7. ASSUME NEW p \in Editable, Edit(p)
      PROVE  FilesType' /\ FilesInv' /\ Untouched
  <2>1. /\ files[p] = "whole" /\ files' = [files EXCEPT ![p] = "edited"]
        /\ targets' = targets /\ last' = last
    BY <1>7 DEF Edit
  <2>2. \A q \in Paths : files'[q] = IF q = p THEN "edited" ELSE files[q]
    BY <2>1 DEF FilesType
  <2>3. FilesType' /\ Untouched  BY <2>1, <2>2 DEF FilesType, Untouched
  <2>t. TargetsAreBacked'  BY <2>1, <2>2, PathFacts DEF FilesType, FilesInv, TargetsAreBacked
  <2>4. NothingBeforeNew'
    BY <2>1, <2>2, PathFacts DEF FilesInv, NothingBeforeNew
  <2>5. AddCompletesTheFeature'
    BY <2>1, <2>2, PathFacts, SkeletonFacts DEF FilesInv, AddCompletesTheFeature, Exists
  <2> QED  BY <2>3, <2>t, <2>4, <2>5 DEF FilesInv
<1>8. ASSUME NEW p \in Paths, Delete(p)
      PROVE  FilesType' /\ FilesInv' /\ Untouched
  <2>1. /\ files[p] = "cut" /\ files' = [files EXCEPT ![p] = "absent"]
        /\ targets' = targets /\ last' = [cmd |-> "user", ok |-> FALSE]
    BY <1>8 DEF Delete
  <2>2. \A q \in Paths : files'[q] = IF q = p THEN "absent" ELSE files[q]
    BY <2>1 DEF FilesType
  <2>3. FilesType' /\ Untouched  BY <2>1, <2>2 DEF FilesType, Untouched
  <2>t. TargetsAreBacked'  BY <2>1, <2>2, PathFacts DEF FilesType, FilesInv, TargetsAreBacked
  <2>4. NothingBeforeNew'
    BY <2>1, <2>2, PathFacts DEF FilesInv, NothingBeforeNew
  <2> QED  BY <2>1, <2>3, <2>t, <2>4 DEF FilesInv, AddCompletesTheFeature
<1>9. CASE Second  BY <1>9, <1>u DEF Second
<1> QED  BY <1>1, <1>2, <1>3, <1>4, <1>5, <1>7, <1>8, <1>9 DEF CliNext
-----------------------------------------------------------------------------
(* Versions. *)

\* The engine's next migration up exists: versions are numbers.
LEMMA LeastExists ==
  ASSUME NEW S \in SUBSET Nat, S # {}
  PROVE  Least(S) \in S /\ \A w \in S : Least(S) <= w
<1>1. PICK x \in S : \A y \in S : ~(<<y, x>> \in OpToRel(<, Nat))
  BY NatLessThanWellFounded, WFMin
<1>2. ASSUME NEW y \in S PROVE x <= y
  <2>1. ~(<<y, x>> \in OpToRel(<, Nat)) /\ x \in Nat /\ y \in Nat  BY <1>1
  <2> QED  BY <2>1 DEF OpToRel
<1> QED  BY <1>2 DEF Least

\* The engine's next migration down exists: versions are bounded.
LEMMA GreatestExists ==
  ASSUME NEW N \in Nat, NEW S \in SUBSET (0 .. N), S # {}
  PROVE  Greatest(S) \in S /\ \A w \in S : Greatest(S) >= w
<1> DEFINE T == {N - v : v \in S}
<1>1. T \in SUBSET Nat /\ T # {}
  <2>1. \A v \in S : N - v \in Nat  OBVIOUS
  <2> QED  BY <2>1
<1>2. PICK x \in T : \A y \in T : ~(<<y, x>> \in OpToRel(<, Nat))
  BY <1>1, NatLessThanWellFounded, WFMin
<1>3. PICK v \in S : x = N - v  BY <1>2
<1>4. ASSUME NEW w \in S PROVE v >= w
  <2>1. N - w \in T  OBVIOUS
  <2>2. ~(<<N - w, N - v>> \in OpToRel(<, Nat))  BY <1>2, <1>3, <2>1
  <2> QED  BY <2>2 DEF OpToRel
<1> QED  BY <1>4 DEF Greatest

\* What the types say of the migrations, of the version and of each process.
LEMMA MigrateTypes ==
  ASSUME TypeOK
  PROVE  /\ MaxClock \in Nat /\ MaxClock >= 3 /\ clock \in Nat /\ clock <= MaxClock /\ clock >= 3
         /\ OnDisk \subseteq Versioned /\ made \subseteq OnDisk
         /\ \A m \in OnDisk : m.v \in 1 .. MaxClock /\ m.v <= clock
         /\ db.version \in {Nil} \cup 1 .. MaxClock /\ db.dirty \in BOOLEAN /\ Nil = -1
         /\ \A p \in Migrators :
               /\ mig[p] = Idle \/ mig[p] \in Process
               /\ mig[p] = Idle <=> mig[p].pc = "idle"
               /\ mig[p] # Idle => mig[p].src \subseteq Versioned /\ mig[p].dir \in {"up", "down"}
<1>1. MaxClock \in Nat /\ MaxClock >= 3 /\ clock \in Nat /\ clock <= MaxClock /\ clock >= 3
  BY GeneratorAssumption DEF TypeOK
<1>2. ASSUME NEW m \in OnDisk PROVE m \in Versioned /\ m.v \in 1 .. MaxClock /\ m.v <= clock
  <2>1. CASE m \in made  BY <1>1, <2>1 DEF TypeOK, Versioned
  <2>2. CASE m \notin made
    <3>1. PICK i \in 1 .. 2 : m = [v |-> i, name |-> "skeleton", up |-> "whole", down |-> "whole"]
      BY <2>2 DEF OnDisk
    <3> QED  BY <1>1, <3>1 DEF Versioned
  <2> QED  BY <2>1, <2>2
<1>3. ASSUME NEW p \in Migrators
      PROVE  /\ mig[p] = Idle \/ mig[p] \in Process
             /\ mig[p] = Idle <=> mig[p].pc = "idle"
             /\ mig[p] # Idle => mig[p].src \subseteq Versioned /\ mig[p].dir \in {"up", "down"}
  BY DEF TypeOK, Idle, Process
<1>4. db.version \in {Nil} \cup 1 .. MaxClock /\ db.dirty \in BOOLEAN  BY DEF TypeOK
<1>5. made \subseteq OnDisk  BY DEF OnDisk
<1> QED  BY <1>1, <1>2, <1>3, <1>4, <1>5 DEF Nil

\* The versions on disk after a step lie within the clock's bound.
LEMMA DiskTypedNext ==
  ASSUME TypeOK'
  PROVE  \A m \in OnDisk' : m.v \in 1 .. MaxClock
<1>1. MaxClock \in Nat /\ MaxClock >= 3 /\ made' \subseteq Versioned
  BY GeneratorAssumption DEF TypeOK
<1>2. \A m \in OnDisk' : m \in made' \/ m.v \in 1 .. 2  BY DEF OnDisk
<1> QED  BY <1>1, <1>2 DEF Versioned

\* The migrations on disk depend on the files only.
LEMMA SameDisk ==
  ASSUME UNCHANGED <<files, made>>
  PROVE  OnDisk' = OnDisk /\ \A m : Proper(m)' <=> Proper(m)
<1>1. OnDisk' = OnDisk  BY DEF OnDisk
<1> QED  BY <1>1 DEF Proper

-----------------------------------------------------------------------------
(* The commands and the migrations. *)

\* make:migration adds one of the current second, and nothing else does.
LEMMA CliMakes ==
  ASSUME CliNext, TypeOK
  PROVE  /\ \/ made' = made
            \/ \E m \in Versioned : m.v = clock /\ made' = made \cup {m} /\ clock' = clock
         /\ clock' \in clock .. MaxClock
         /\ targets' \subseteq Workers
<1>0. clock \in 3 .. MaxClock /\ clock \in Nat /\ MaxClock \in Nat /\ clock <= MaxClock
      /\ targets \subseteq Workers
  BY MigrateTypes DEF TypeOK
<1>1. ASSUME NEW opts \in SUBSET (Features \cup {"postgres"}), New(opts)
      PROVE  UNCHANGED <<made, clock, targets>>
  BY <1>1 DEF New
<1>2. ASSUME NEW f \in Features, runAdd(f) PROVE UNCHANGED <<made, clock, targets>>
  BY <1>2 DEF runAdd
<1>3. ASSUME NEW l \in Layers, Make(l) PROVE UNCHANGED <<made, clock, targets>>
  BY <1>3 DEF Make
<1>4. ASSUME NEW w \in Workers, runMakeWorker(w)
      PROVE  UNCHANGED <<made, clock>> /\ targets' \subseteq Workers
  BY <1>0, <1>4 DEF runMakeWorker
<1>5. ASSUME NEW name \in Names, runMakeMigration(name)
      PROVE  /\ \E m \in Versioned : m.v = clock /\ made' = made \cup {m}
             /\ UNCHANGED <<clock, targets>>
  <2>1. PICK pair \in {<<"whole", "whole">>, <<"whole", "cut">>, <<"whole", "absent">>, <<"cut", "absent">>} :
           made' = made \cup {[v |-> clock, name |-> name, up |-> pair[1], down |-> pair[2]]}
    BY <1>5 DEF runMakeMigration
  <2>2. [v |-> clock, name |-> name, up |-> pair[1], down |-> pair[2]] \in Versioned
    BY <1>0 DEF Versioned
  <2> QED  BY <1>5, <2>1, <2>2 DEF runMakeMigration
<1>7. ASSUME NEW p, Edit(p) \/ Delete(p) PROVE UNCHANGED <<made, clock, targets>>
  BY <1>7 DEF Edit, Delete
<1>8. CASE Second
  BY <1>0, <1>8 DEF Second
<1>9. ASSUME UNCHANGED <<made, clock, targets>>
      PROVE  /\ made' = made /\ clock' \in clock .. MaxClock
             /\ targets' \subseteq Workers
  BY <1>0, <1>9
<1> QED  BY <1>0, <1>1, <1>2, <1>3, <1>4, <1>5, <1>7, <1>8, <1>9 DEF CliNext

\* A command of the generator keeps the types.
LEMMA CliTypes ==
  ASSUME TypeOK, FilesInv, CliNext, UNCHANGED migVars
  PROVE  TypeOK'
<1>1. FilesType  BY DEF TypeOK, FilesType
<1>2. FilesType'  BY <1>1, CliKeepsFiles
<1>3. made' \subseteq Versioned /\ \A m \in made' : m.v \in 3 .. clock'
  <2>1. clock \in Nat /\ clock >= 3 /\ clock' \in clock .. MaxClock /\ MaxClock \in Nat
    BY CliMakes, MigrateTypes
  <2>2. made \subseteq Versioned /\ \A m \in made : m.v \in 3 .. clock  BY DEF TypeOK
  <2>3. \A m \in made : m.v \in 3 .. clock'  BY <2>1, <2>2
  <2> QED  BY <2>1, <2>2, <2>3, CliMakes
<1>4. clock' \in 3 .. MaxClock  BY CliMakes, MigrateTypes
<1> QED  BY <1>2, <1>3, <1>4, CliMakes DEF TypeOK, FilesType, migVars

\* A command before any process was started.
LEMMA CliBefore ==
  ASSUME TypeOK, SchemaInv, TypeOK', UNCHANGED migVars, ~Started
  PROVE  SchemaInv'
<1>1. /\ db' = db /\ schema' = schema /\ lock' = lock /\ mig' = mig /\ hint' = hint
      /\ failing' = failing
  BY DEF migVars
<1>2. failing.v = Nil /\ \A p \in Migrators : mig[p] = Idle  BY DEF Started
<1>3. ~db.dirty /\ db.version = Nil /\ \A v \in 1 .. MaxClock : schema[v] = "none"
  BY <1>2 DEF SchemaInv, BeforeTheFirst
<1>4. ~Started'  BY <1>1, <1>2 DEF Started
<1>5. RestIsRight'
  <2>1. \A m \in OnDisk' : m.v \in 1 .. MaxClock  BY DiskTypedNext
  <2>2. \A v \in 1 .. MaxClock : ~(v <= db.version)  BY <1>3, MigrateTypes
  <2> QED  BY <1>1, <1>3, <2>1, <2>2 DEF RestIsRight, Right
<1>6. BeforeTheFirst' /\ DirtyIsFailing' /\ OnlyFromDisk'
  BY <1>1, <1>3 DEF BeforeTheFirst, DirtyIsFailing, OnlyFromDisk
<1>7. ASSUME NEW p \in Migrators PROVE ProcessOK(p)'
  <2>1. ProcessOK(p) /\ mig[p] = Idle /\ Idle.pc = "idle"  BY <1>2 DEF SchemaInv, Idle
  <2> QED  BY <1>1, <2>1 DEF ProcessOK
<1> QED  BY <1>4, <1>5, <1>6, <1>7 DEF SchemaInv

\* A migration is made while processes are at work or have been.
LEMMA CliDuring ==
  ASSUME TypeOK, SchemaInv, TypeOK', UNCHANGED migVars, CliNext, Started, MigrationsOnly'
  PROVE  SchemaInv'
<1>1. /\ db' = db /\ schema' = schema /\ lock' = lock /\ mig' = mig /\ hint' = hint
      /\ failing' = failing
  BY DEF migVars
<1>2. files' = files
  <2>1. \A p \in Paths : files'[p] = files[p]  BY DEF SchemaInv, MigrationsOnly
  <2> QED  BY <2>1 DEF TypeOK
<1>3. /\ OnDisk \subseteq OnDisk'
      /\ \A m \in OnDisk' : m \in OnDisk \/ m.v = clock
  <2>1. CASE made' = made
    <3>1. OnDisk' = OnDisk  BY <1>2, <2>1, SameDisk
    <3> QED  BY <3>1
  <2>2. ASSUME NEW x \in Versioned, x.v = clock, made' = made \cup {x} PROVE OnDisk' = OnDisk \cup {x}
    BY <1>2, <2>2 DEF OnDisk
  <2> QED  BY <2>1, <2>2, CliMakes
<1>4. \A m \in OnDisk : m.v <= clock /\ m.v \in 1 .. MaxClock  BY MigrateTypes
<1>d. \A m \in OnDisk' : m.v \in 1 .. MaxClock  BY DiskTypedNext
<1>5. ASSUME NEW m \in OnDisk', Proper(m)' PROVE (m \in OnDisk /\ Proper(m)) \/ (m.v = clock /\ clock \notin Versions(OnDisk))
  <2>1. \A n \in OnDisk' : n.v = m.v => n = m  BY <1>5 DEF Proper
  <2>2. CASE m \in OnDisk  BY <1>3, <1>5, <2>2 DEF Proper
  <2>3. CASE m \notin OnDisk
    <3>1. m.v = clock  BY <1>3, <2>3
    <3>2. \A n \in OnDisk : n.v # clock  BY <1>3, <2>1, <2>3, <3>1
    <3> QED  BY <3>1, <3>2 DEF Versions
  <2> QED  BY <2>2, <2>3
<1>v. Versions(OnDisk) \subseteq Versions(OnDisk')  BY <1>3 DEF Versions
<1>6. RestIsRight'
  <2> SUFFICES ASSUME NEW m \in OnDisk', Proper(m)', db.dirty => m.v # failing.v PROVE Right(m)'
    BY <1>1 DEF RestIsRight
  <2>1. CASE m \in OnDisk /\ Proper(m)
    BY <1>1, <2>1 DEF SchemaInv, RestIsRight, Right
  <2>2. CASE m.v = clock /\ clock \notin Versions(OnDisk)
    <3>1. schema[clock] = "none"  BY <1>d, <2>2 DEF SchemaInv, OnlyFromDisk
    <3>2. db.version \in {Nil} \cup Versions(OnDisk)  BY DEF SchemaInv, OnlyFromDisk
    <3>3. db.version = Nil \/ (db.version \in Nat /\ db.version <= clock /\ db.version # clock)
      BY <1>4, <2>2, <3>2 DEF Versions
    <3>4. ~(clock <= db.version)  BY <3>3, MigrateTypes
    <3> QED  BY <1>1, <2>2, <3>1, <3>4 DEF Right
  <2> QED  BY <1>5, <2>1, <2>2
<1>7. BeforeTheFirst' /\ DirtyIsFailing' /\ OnlyFromDisk'
  BY <1>1, <1>v DEF SchemaInv, BeforeTheFirst, DirtyIsFailing, OnlyFromDisk
<1>8. ASSUME NEW p \in Migrators PROVE ProcessOK(p)'
  <2>1. ProcessOK(p)  BY DEF SchemaInv
  <2>2. mig[p] # Idle =>
          /\ mig[p].src \subseteq OnDisk'
          /\ \A m \in OnDisk' \ mig[p].src, n \in mig[p].src : n.v <= m.v
    <3> SUFFICES ASSUME mig[p] # Idle
                 PROVE  /\ mig[p].src \subseteq OnDisk'
                        /\ \A m \in OnDisk' \ mig[p].src, n \in mig[p].src : n.v <= m.v
      OBVIOUS
    <3>1. /\ mig[p].src \subseteq OnDisk
          /\ \A m \in OnDisk \ mig[p].src, n \in mig[p].src : n.v <= m.v
      BY <2>1 DEF ProcessOK
    <3> QED  BY <1>3, <1>4, <3>1
  <2>3. mig[p].pc = "clean" => \A m \in OnDisk' : Proper(m)' /\ m.v = mig[p].v =>
          schema[m.v] = IF mig[p].dir = "up" THEN "done" ELSE "none"
    <3> SUFFICES ASSUME mig[p].pc = "clean", NEW m \in OnDisk', Proper(m)', m.v = mig[p].v
                 PROVE  schema[m.v] = IF mig[p].dir = "up" THEN "done" ELSE "none"
      OBVIOUS
    <3>1. mig[p].v \in Versions(mig[p].src) /\ mig[p] # Idle
      BY <2>1 DEF ProcessOK, Idle
    <3>2. mig[p].v \in Versions(OnDisk)  BY <2>1, <3>1 DEF ProcessOK, Versions
    <3>3. m \in OnDisk /\ Proper(m)  BY <1>5, <3>2
    <3> QED  BY <2>1, <3>3 DEF ProcessOK
  <2> QED  BY <1>1, <2>1, <2>2, <2>3 DEF ProcessOK
<1> QED  BY <1>6, <1>7, <1>8 DEF SchemaInv
-----------------------------------------------------------------------------
(* The processes. *)

\* A step that leaves the project alone leaves the migrations on disk alone.
LEMMA CliSame ==
  ASSUME UNCHANGED cliVars
  PROVE  /\ UNCHANGED <<files, made, targets, clock, last, options, commands>>
         /\ OnDisk' = OnDisk /\ \A m : Proper(m)' <=> Proper(m)
         /\ MigrationsOnly' <=> MigrationsOnly
         /\ FilesInv => FilesInv'
<1>1. UNCHANGED <<files, made, targets, clock, last, options, commands>>
  BY DEF cliVars
<1>2. MigrationsOnly' <=> MigrationsOnly  BY <1>1 DEF MigrationsOnly
<1>3. FilesInv => FilesInv'
  BY <1>1 DEF FilesInv, TargetsAreBacked, AddCompletesTheFeature, NothingBeforeNew, Exists
<1> QED  BY <1>1, <1>2, <1>3, SameDisk

\* The types after a step of process p.
LEMMA MigTypes ==
  ASSUME TypeOK, UNCHANGED cliVars, NEW p \in Migrators, NEW r \in {Idle} \cup Process,
         mig' = [mig EXCEPT ![p] = r],
         db' \in [version : {Nil} \cup 1 .. MaxClock, dirty : BOOLEAN],
         schema' \in [1 .. MaxClock -> {"none", "half", "done"}],
         lock' \in Migrators \cup {Nobody}, hint' \in {Nil} \cup 1 .. MaxClock,
         failing' \in [v : {Nil} \cup 1 .. MaxClock, dir : {"up", "down"}]
  PROVE  TypeOK'
  BY CliSame DEF TypeOK

\* Process p moves, with or without the lock: the others are as they were.
LEMMA OthersAreOK ==
  ASSUME TypeOK, SchemaInv, UNCHANGED cliVars, NEW p \in Migrators, NEW r,
         mig' = [mig EXCEPT ![p] = r],
         lock = p \/ UNCHANGED <<db, schema, failing>>,
         lock' = lock \/ (lock = Nobody /\ lock' = p) \/ (lock = p /\ lock' = Nobody)
  PROVE  \A q \in Migrators \ {p} : ProcessOK(q)'
<1> SUFFICES ASSUME NEW q \in Migrators, q # p PROVE ProcessOK(q)'  OBVIOUS
<1>1. mig'[q] = mig[q]  BY DEF TypeOK
<1>2. ProcessOK(q)  BY DEF SchemaInv
<1>3. lock' = q <=> lock = q  BY MigrateAssumption
<1>4. CASE lock = p
  <2>1. mig[q].pc \notin {"read", "next", "apply", "clean"}  BY <1>2, <1>4 DEF ProcessOK
  <2> QED  BY <1>1, <1>2, <1>3, <2>1, CliSame DEF ProcessOK
<1>5. CASE UNCHANGED <<db, schema, failing>>
  BY <1>1, <1>2, <1>3, <1>5, CliSame DEF ProcessOK
<1> QED  BY <1>4, <1>5

\* The table of versions and the tables stay as they are.
LEMMA SameTables ==
  ASSUME SchemaInv, UNCHANGED cliVars, UNCHANGED <<db, schema, failing>>
  PROVE  BeforeTheFirst' /\ DirtyIsFailing' /\ RestIsRight' /\ OnlyFromDisk'
  BY CliSame DEF SchemaInv, BeforeTheFirst, DirtyIsFailing, RestIsRight, OnlyFromDisk, Right

\* A process returns: it is without the lock, idle or about to print a hint.
LEMMA ReturnsOK ==
  ASSUME TypeOK, SchemaInv, NEW p \in Migrators, mig[p] # Idle, NEW err,
         UNCHANGED cliVars, Returns(p, err), UNCHANGED <<db, hint, failing>>, MigrationsOnly,
         lock = p \/ UNCHANGED schema,
         schema' \in [1 .. MaxClock -> {"none", "half", "done"}],
         BeforeTheFirst' /\ DirtyIsFailing' /\ RestIsRight' /\ OnlyFromDisk'
  PROVE  TypeOK' /\ SchemaInv'
<1>1. PICK r \in {Idle, [mig[p] EXCEPT !.pc = "hint"]} :
         mig' = [mig EXCEPT ![p] = r] /\ lock' = IF lock = p THEN Nobody ELSE lock
  BY DEF Returns
<1>2. mig[p] \in Process /\ ProcessOK(p)  BY MigrateTypes DEF SchemaInv
<1>3. r = Idle \/ (r \in Process /\ r.pc = "hint" /\ r.src = mig[p].src)  BY <1>2 DEF Process
<1>4. TypeOK'
  <2>1. /\ db' \in [version : {Nil} \cup 1 .. MaxClock, dirty : BOOLEAN]
        /\ lock' \in Migrators \cup {Nobody} /\ hint' \in {Nil} \cup 1 .. MaxClock
        /\ failing' \in [v : {Nil} \cup 1 .. MaxClock, dir : {"up", "down"}]
    BY <1>1 DEF TypeOK
  <2> QED  BY <1>1, <1>3, <2>1, MigTypes
<1>5. \A q \in Migrators \ {p} : ProcessOK(q)'  BY <1>1, OthersAreOK
<1>6. ProcessOK(p)'
  <2>1. mig'[p] = r /\ lock' # p  BY <1>1, MigrateAssumption DEF TypeOK
  <2>2. /\ mig[p].src \subseteq OnDisk
        /\ \A m \in OnDisk \ mig[p].src, n \in mig[p].src : n.v <= m.v
    BY <1>2 DEF ProcessOK
  <2>3. CASE r = Idle  BY <2>1, <2>3 DEF ProcessOK, Idle
  <2>4. CASE r # Idle  BY <1>3, <2>1, <2>2, <2>4, CliSame DEF ProcessOK
  <2> QED  BY <2>3, <2>4
<1> QED  BY <1>4, <1>5, <1>6, CliSame DEF SchemaInv

\* withDirtyHint prints what it has read, the holder of the lock being where it
\* may: nothing but the hint changes.
LEMMA HintOK ==
  ASSUME TypeOK, SchemaInv, NEW p \in Migrators, MigrationsOnly, withDirtyHint(p)
  PROVE  TypeOK' /\ SchemaInv'
<1>1. /\ mig[p].pc = "hint" /\ mig' = [mig EXCEPT ![p] = Idle]
      /\ hint' = IF db.dirty /\ db.version # Nil THEN db.version ELSE hint
      /\ UNCHANGED cliVars /\ UNCHANGED <<db, schema, lock, failing>>
  BY DEF withDirtyHint
<1>2. lock # p  BY <1>1 DEF SchemaInv, ProcessOK
<1>3. TypeOK'
  <2>1. hint' \in {Nil} \cup 1 .. MaxClock  BY <1>1 DEF TypeOK
  <2> QED  BY <1>1, <2>1, MigTypes DEF TypeOK
<1>4. \A q \in Migrators \ {p} : ProcessOK(q)'  BY <1>1, OthersAreOK
<1>5. ProcessOK(p)'
  <2>1. mig'[p] = Idle /\ Idle.pc = "idle" /\ lock' # p  BY <1>1, <1>2 DEF TypeOK, Idle
  <2> QED  BY <2>1 DEF ProcessOK
<1> QED  BY <1>1, <1>3, <1>4, <1>5, CliSame, SameTables DEF SchemaInv

\* A process is started: it embeds what is on disk and waits for the lock.
LEMMA StartOK ==
  ASSUME TypeOK, SchemaInv, NEW p \in Migrators, MigrationsOnly,
         NEW dir \in {"up", "down"}, NEW steps \in 0 .. 2, Start(p, dir, steps)
  PROVE  TypeOK' /\ SchemaInv'
<1> DEFINE r == [pc |-> "lock", dir |-> dir, steps |-> steps, n |-> 0, src |-> OnDisk, v |-> Nil]
<1>1. /\ mig[p] = Idle /\ mig' = [mig EXCEPT ![p] = r]
      /\ UNCHANGED cliVars /\ UNCHANGED <<db, schema, lock, hint, failing>>
  BY DEF Start
<1>2. r \in Process  BY MigrateTypes DEF Process
<1>3. mig'[p] = r  BY <1>1 DEF TypeOK
<1>4. r # Idle  BY DEF Idle
<1>5. TypeOK'
  <2> HIDE DEF r
  <2> QED  BY <1>1, <1>2, MigTypes DEF TypeOK
<1>6. \A q \in Migrators \ {p} : ProcessOK(q)'
  <2> HIDE DEF r
  <2> QED  BY <1>1, OthersAreOK
<1>7. ProcessOK(p)'
  <2>1. lock # p  BY <1>1 DEF SchemaInv, ProcessOK, Idle
  <2> QED  BY <1>1, <1>3, <1>4, <2>1, CliSame DEF ProcessOK
<1> QED  BY <1>1, <1>5, <1>6, <1>7, CliSame, SameTables DEF SchemaInv

\* The lock is taken, or the process gets past the version.
LEMMA LockedOK ==
  ASSUME TypeOK, SchemaInv, NEW p \in Migrators, MigrationsOnly,
         NEW pc \in {"read", "next"}, mig' = [mig EXCEPT ![p].pc = pc], mig[p] # Idle,
         \/ pc = "read" /\ lock = Nobody /\ lock' = p
         \/ pc = "next" /\ lock = p /\ lock' = p /\ ~Unusable(mig[p]),
         UNCHANGED cliVars, UNCHANGED <<db, schema, hint, failing>>
  PROVE  TypeOK' /\ SchemaInv'
<1> DEFINE r == [mig[p] EXCEPT !.pc = pc]
<1>0. mig[p] \in Process  BY MigrateTypes
<1>1. mig' = [mig EXCEPT ![p] = r]  OBVIOUS
<1>2. r \in Process /\ r.pc = pc /\ r.src = mig[p].src  BY <1>0 DEF Process
<1>3. mig'[p] = r  BY <1>1 DEF TypeOK
<1>4. r # Idle  BY <1>2 DEF Idle
<1> HIDE DEF r
<1>5. TypeOK'
  <2>1. lock' \in Migrators \cup {Nobody} /\ r \in {Idle} \cup Process  BY <1>2
  <2>2. /\ db' \in [version : {Nil} \cup 1 .. MaxClock, dirty : BOOLEAN]
        /\ schema' \in [1 .. MaxClock -> {"none", "half", "done"}]
        /\ hint' \in {Nil} \cup 1 .. MaxClock
        /\ failing' \in [v : {Nil} \cup 1 .. MaxClock, dir : {"up", "down"}]
    BY DEF TypeOK
  <2> QED  BY <1>1, <2>1, <2>2, MigTypes
<1>6. \A q \in Migrators \ {p} : ProcessOK(q)'  BY <1>1, OthersAreOK
<1>7. ProcessOK(p)'
  <2>1. ProcessOK(p)  BY DEF SchemaInv
  <2>2. pc = "next" => ~db.dirty /\ db.version \in {Nil} \cup Versions(mig[p].src)
    BY DEF Unusable
  <2>3. lock' = p  OBVIOUS
  <2>4. /\ mig[p].src \subseteq OnDisk
        /\ \A m \in OnDisk \ mig[p].src, n \in mig[p].src : n.v <= m.v
    BY <2>1 DEF ProcessOK
  <2> QED  BY <1>2, <1>3, <2>2, <2>3, <2>4, CliSame DEF ProcessOK
<1> QED  BY <1>5, <1>6, <1>7, CliSame, SameTables DEF SchemaInv

\* The steps that leave version and tables alone.
LEMMA WaitingOK ==
  ASSUME TypeOK, SchemaInv, NEW p \in Migrators, MigrationsOnly,
         Locked(p) \/ LockTimesOut(p) \/ Read(p) \/ Finish(p)
  PROVE  TypeOK' /\ SchemaInv'
<1>0. UNCHANGED cliVars /\ UNCHANGED <<db, schema, hint, failing>>
  BY DEF Locked, LockTimesOut, Read, Finish
<1>i. mig[p] # Idle
  <2>1. mig[p].pc \in {"lock", "read", "next"}
    <3>1. CASE Locked(p) \/ LockTimesOut(p)  BY <3>1 DEF Locked, LockTimesOut
    <3>2. CASE Read(p)  BY <3>2 DEF Read
    <3>3. CASE Finish(p)  BY <3>3 DEF Finish
    <3> QED  BY <3>1, <3>2, <3>3
  <2> QED  BY <2>1 DEF Idle
<1>r. ASSUME NEW err, Returns(p, err) PROVE TypeOK' /\ SchemaInv'
  BY <1>0, <1>i, <1>r, SameTables, ReturnsOK DEF TypeOK
<1>1. CASE Locked(p)
  <2>1. /\ lock = Nobody /\ lock' = p /\ mig' = [mig EXCEPT ![p].pc = "read"] /\ hint' = hint
    BY <1>1 DEF Locked
  <2> QED  BY <1>0, <1>i, <2>1, LockedOK
<1>2. CASE LockTimesOut(p)  BY <1>2, <1>r DEF LockTimesOut
<1>3. CASE Read(p)
  <2>1. CASE Returns(p, TRUE)  BY <1>r, <2>1
  <2>2. CASE ~Returns(p, TRUE)
    <3>1. /\ ~Unusable(mig[p]) /\ mig' = [mig EXCEPT ![p].pc = "next"] /\ lock' = lock /\ hint' = hint
      BY <1>3, <2>2 DEF Read
    <3>2. lock = p  BY <1>3 DEF Read, SchemaInv, ProcessOK
    <3> QED  BY <1>0, <1>i, <3>1, <3>2, LockedOK
  <2> QED  BY <2>1, <2>2
<1>4. CASE Finish(p)  BY <1>4, <1>r DEF Finish
<1> QED  BY <1>1, <1>2, <1>3, <1>4

\* A process that has the lock goes on with its work.
LEMMA WorksOn ==
  ASSUME TypeOK, SchemaInv, NEW p \in Migrators, MigrationsOnly, UNCHANGED cliVars,
         lock = p, lock' = p, hint' = hint,
         NEW r \in Process, mig' = [mig EXCEPT ![p] = r],
         db' \in [version : {Nil} \cup 1 .. MaxClock, dirty : BOOLEAN],
         schema' \in [1 .. MaxClock -> {"none", "half", "done"}],
         failing' \in [v : {Nil} \cup 1 .. MaxClock, dir : {"up", "down"}],
         BeforeTheFirst' /\ DirtyIsFailing' /\ RestIsRight' /\ OnlyFromDisk',
         mig'[p] = r => ProcessOK(p)'
  PROVE  TypeOK' /\ SchemaInv'
<1>1. TypeOK'
  <2>1. lock' \in Migrators \cup {Nobody} /\ r \in {Idle} \cup Process
        /\ hint' \in {Nil} \cup 1 .. MaxClock
    BY DEF TypeOK
  <2> QED  BY <2>1, MigTypes
<1>2. mig'[p] = r /\ r # Idle  BY DEF TypeOK, Process, Idle
<1>3. \A q \in Migrators \ {p} : ProcessOK(q)'  BY OthersAreOK
<1> QED  BY <1>1, <1>2, <1>3, CliSame DEF SchemaInv

\* What a process with the lock has embedded.
LEMMA HolderFacts ==
  ASSUME TypeOK, SchemaInv, NEW p \in Migrators, mig[p].pc \in {"next", "apply", "clean"}
  PROVE  /\ lock = p /\ mig[p] # Idle /\ mig[p] \in Process
         /\ mig[p].src \subseteq OnDisk /\ Versions(mig[p].src) \subseteq Versions(OnDisk)
         /\ Versions(mig[p].src) \subseteq 1 .. MaxClock
         /\ \A m \in OnDisk \ mig[p].src, n \in mig[p].src : n.v <= m.v
         /\ mig[p].dir \in {"up", "down"}
<1>1. ProcessOK(p)  BY DEF SchemaInv
<1>2. mig[p] # Idle  BY DEF Idle
<1>3. mig[p] \in Process /\ mig[p].dir \in {"up", "down"}  BY <1>2, MigrateTypes
<1>4. /\ lock = p /\ mig[p].src \subseteq OnDisk
      /\ \A m \in OnDisk \ mig[p].src, n \in mig[p].src : n.v <= m.v
  BY <1>1, <1>2 DEF ProcessOK
<1>5. Versions(mig[p].src) \subseteq Versions(OnDisk)  BY <1>4 DEF Versions
<1>6. Versions(mig[p].src) \subseteq 1 .. MaxClock  BY <1>4, MigrateTypes DEF Versions
<1> QED  BY <1>2, <1>3, <1>4, <1>5, <1>6

\* An up migration begins: it is the first above the version.
LEMMA NextUp ==
  ASSUME TypeOK, SchemaInv, NEW p \in Migrators, mig[p].pc = "next",
         mig[p].dir = "up", Ahead(mig[p]) # {},
         NEW v, v = Least(Ahead(mig[p]))
  PROVE  /\ v \in Versions(mig[p].src) /\ v > db.version
         /\ \A m \in OnDisk : m.v # v => (m.v <= v <=> m.v <= db.version)
<1>1. Ahead(mig[p]) = {w \in Versions(mig[p].src) : w > db.version}  BY DEF Ahead
<1>2. Ahead(mig[p]) \in SUBSET Nat  BY <1>1, HolderFacts, MigrateTypes
<1>3. v \in Ahead(mig[p]) /\ \A w \in Ahead(mig[p]) : v <= w  BY <1>2, LeastExists
<1>4. v \in Versions(mig[p].src) /\ v > db.version /\ v \in Nat  BY <1>1, <1>2, <1>3
<1>5. ASSUME NEW m \in OnDisk, m.v # v, m.v <= v PROVE m.v <= db.version
  <2>1. m.v \in 1 .. MaxClock  BY MigrateTypes
  <2>2. CASE m \in mig[p].src
    <3>1. m.v \in Versions(mig[p].src)  BY <2>2 DEF Versions
    <3> QED  BY <1>1, <1>3, <1>4, <1>5, <2>1, <3>1, MigrateTypes
  <2>3. CASE m \notin mig[p].src
    <3>1. PICK n \in mig[p].src : n.v = v  BY <1>4 DEF Versions
    <3>2. v <= m.v  BY <2>3, <3>1, HolderFacts
    <3> QED  BY <1>4, <1>5, <2>1, <3>2
  <2> QED  BY <2>2, <2>3
<1>6. ASSUME NEW m \in OnDisk, m.v <= db.version PROVE m.v <= v
  BY <1>4, <1>6, MigrateTypes
<1> QED  BY <1>4, <1>5, <1>6

\* A down migration begins: it is the version's own, and leads to the one below.
LEMMA NextDown ==
  ASSUME TypeOK, SchemaInv, NEW p \in Migrators, mig[p].pc = "next",
         mig[p].dir = "down", Ahead(mig[p]) # {},
         NEW v, v = Greatest(Ahead(mig[p])),
         NEW to, to = IF Ahead(mig[p]) = {v} THEN Nil ELSE Greatest(Ahead(mig[p]) \ {v})
  PROVE  /\ v \in Versions(mig[p].src) /\ v = db.version
         /\ to \in {Nil} \cup Versions(mig[p].src) /\ to < v
         /\ \A m \in OnDisk : m.v # v => (m.v <= to <=> m.v <= db.version)
<1> DEFINE A == Ahead(mig[p])
<1>1. A = {w \in Versions(mig[p].src) : w <= db.version}  BY DEF Ahead
<1>2. A \in SUBSET (0 .. MaxClock) /\ MaxClock \in Nat  BY <1>1, HolderFacts, MigrateTypes
<1>3. v \in A /\ \A w \in A : v >= w  BY <1>2, GreatestExists
<1>4. v \in Versions(mig[p].src) /\ v <= db.version /\ v \in Nat /\ v >= 1
  <2>1. v \in Versions(mig[p].src) /\ v <= db.version  BY <1>1, <1>3
  <2>2. v \in 1 .. MaxClock  BY <2>1, HolderFacts
  <2> QED  BY <1>2, <2>1, <2>2
<1>5. v = db.version
  <2>1. db.version \in {Nil} \cup Versions(mig[p].src)  BY DEF SchemaInv, ProcessOK
  <2>2. db.version \in Versions(mig[p].src)  BY <1>4, <2>1, MigrateTypes
  <2>3. db.version \in A  BY <1>1, <2>2, HolderFacts
  <2> QED  BY <1>3, <1>4, <2>3, MigrateTypes
<1>6. ASSUME A # {v}
      PROVE  /\ to \in A \ {v} /\ to \in Nat /\ \A w \in A \ {v} : to >= w
  <2>1. A \ {v} # {} /\ A \ {v} \in SUBSET (0 .. MaxClock)  BY <1>2, <1>3, <1>6
  <2>2. to = Greatest(A \ {v})  BY <1>6
  <2> DEFINE B == A \ {v}
  <2>3. to = Greatest(B) /\ B # {} /\ B \in SUBSET (0 .. MaxClock)  BY <2>1, <2>2
  <2>4. B \subseteq Nat  BY <1>2, <2>3
  <2> HIDE DEF B
  <2>5. to \in B /\ to \in Nat /\ \A w \in B : to >= w  BY <1>2, <2>3, <2>4, GreatestExists
  <2> QED  BY <2>5 DEF B
<1>7. to \in {Nil} \cup Versions(mig[p].src) /\ to < v /\ to \in {Nil} \cup Nat
  <2>1. CASE A = {v}  BY <1>4, <2>1, MigrateTypes
  <2>2. CASE A # {v}
    <3>1. to \in A /\ to # v /\ to \in Nat /\ v >= to  BY <1>3, <1>6, <2>2
    <3>2. to < v  BY <1>4, <3>1
    <3>3. to \in Versions(mig[p].src)  BY <1>1, <3>1
    <3> QED  BY <3>1, <3>2, <3>3
  <2> QED  BY <2>1, <2>2
<1>8. ASSUME NEW m \in OnDisk, m.v # v, m.v <= db.version PROVE m.v <= to
  <2>1. m.v \in 1 .. MaxClock  BY MigrateTypes
  <2>2. m \in mig[p].src
    <3>1. PICK n \in mig[p].src : n.v = v  BY <1>4 DEF Versions
    <3>2. m \notin mig[p].src => v <= m.v  BY <3>1, HolderFacts
    <3> QED  BY <1>4, <1>5, <1>8, <2>1, <3>2
  <2>3. m.v \in Versions(mig[p].src)  BY <2>2 DEF Versions
  <2>4. m.v \in A \ {v}  BY <1>1, <1>8, <2>3
  <2> QED  BY <1>6, <2>4
<1>9. ASSUME NEW m \in OnDisk, m.v <= to PROVE m.v <= db.version
  BY <1>4, <1>5, <1>7, <1>9, MigrateTypes
<1> QED  BY <1>4, <1>5, <1>7, <1>8, <1>9

\* The version is written, dirty, before the migration runs.
LEMMA BeginOK ==
  ASSUME TypeOK, SchemaInv, NEW p \in Migrators, MigrationsOnly, Begin(p)
  PROVE  TypeOK' /\ SchemaInv'
<1> DEFINE m == mig[p]
           v == IF m.dir = "up" THEN Least(Ahead(m)) ELSE Greatest(Ahead(m))
           to == IF m.dir = "up" THEN v ELSE IF Ahead(m) = {v} THEN Nil ELSE Greatest(Ahead(m) \ {v})
           r == [m EXCEPT !.pc = "apply", !.v = v]
<1>1. /\ m.pc = "next" /\ Ahead(m) # {}
      /\ db' = [version |-> to, dirty |-> TRUE] /\ failing' = [v |-> v, dir |-> m.dir]
      /\ mig' = [mig EXCEPT ![p] = r]
      /\ UNCHANGED cliVars /\ UNCHANGED <<schema, lock, hint>>
  BY DEF Begin
<1>2. /\ lock = p /\ m # Idle /\ m \in Process /\ m.src \subseteq OnDisk
      /\ Versions(m.src) \subseteq Versions(OnDisk) /\ Versions(m.src) \subseteq 1 .. MaxClock
      /\ (\A k \in OnDisk \ m.src, n \in m.src : n.v <= k.v) /\ m.dir \in {"up", "down"}
  BY <1>1, HolderFacts
<1>3. ~db.dirty  BY <1>1 DEF SchemaInv, ProcessOK
<1>4. /\ v \in Versions(m.src) /\ to \in {Nil} \cup Versions(m.src)
      /\ m.dir = "up" => to = v
      /\ m.dir = "down" => to < v
      /\ \A k \in OnDisk : k.v # v => (k.v <= to <=> k.v <= db.version)
  <2>1. CASE m.dir = "up"
    <3>1. v = Least(Ahead(m)) /\ to = v  BY <2>1
    <3> HIDE DEF v, to
    <3> QED  BY <1>1, <2>1, <3>1, NextUp
  <2>2. CASE m.dir = "down"
    <3>1. /\ v = Greatest(Ahead(m))
          /\ to = IF Ahead(m) = {v} THEN Nil ELSE Greatest(Ahead(m) \ {v})
      BY <2>2
    <3> HIDE DEF v, to
    <3> QED  BY <1>1, <2>2, <3>1, NextDown
  <2> QED  BY <1>2, <2>1, <2>2
<1> HIDE DEF v, to
<1>5. v \in 1 .. MaxClock /\ to \in {Nil} \cup 1 .. MaxClock  BY <1>2, <1>4
<1>6. /\ r \in Process /\ r.pc = "apply" /\ r.v = v /\ r.src = m.src /\ r.dir = m.dir
  BY <1>2, <1>5 DEF Process
<1>7. /\ db'.version = to /\ db'.dirty /\ failing'.v = v /\ failing'.dir = m.dir
      /\ db' \in [version : {Nil} \cup 1 .. MaxClock, dirty : BOOLEAN]
      /\ failing' \in [v : {Nil} \cup 1 .. MaxClock, dir : {"up", "down"}]
      /\ schema' \in [1 .. MaxClock -> {"none", "half", "done"}]
  BY <1>1, <1>2, <1>5 DEF TypeOK
<1>8. BeforeTheFirst'  BY <1>5, <1>7, MigrateTypes DEF BeforeTheFirst
<1>9. DirtyIsFailing'  BY <1>1, <1>2, <1>4, <1>7, CliSame DEF DirtyIsFailing
<1>10. OnlyFromDisk'
  BY <1>1, <1>2, <1>4, <1>7, CliSame DEF OnlyFromDisk, SchemaInv
<1>11. RestIsRight'
  <2> SUFFICES ASSUME NEW k \in OnDisk, Proper(k), k.v # v PROVE Right(k)'
    BY <1>1, <1>7, CliSame DEF RestIsRight
  <2>1. Right(k)  BY <1>3 DEF SchemaInv, RestIsRight
  <2> QED  BY <1>1, <1>4, <1>7, <2>1 DEF Right
<1>12. ASSUME mig'[p] = r PROVE ProcessOK(p)'
  <2> HIDE DEF r
  <2> QED  BY <1>1, <1>2, <1>4, <1>6, <1>7, <1>12, CliSame DEF ProcessOK
<1> QED
  <2> HIDE DEF r
  <2> QED  BY <1>1, <1>2, <1>6, <1>7, <1>8, <1>9, <1>10, <1>11, <1>12, WorksOn

\* Only the tables of the migration begun last change, while its version is dirty.
LEMMA OnlyTheFailing ==
  ASSUME TypeOK, SchemaInv, UNCHANGED cliVars, UNCHANGED <<db, failing>>, db.dirty,
         NEW e \in {"none", "half", "done"}, schema' = [schema EXCEPT ![failing.v] = e]
  PROVE  /\ schema' \in [1 .. MaxClock -> {"none", "half", "done"}]
         /\ BeforeTheFirst' /\ DirtyIsFailing' /\ RestIsRight' /\ OnlyFromDisk'
<1>1. failing.v \in Versions(OnDisk)  BY DEF SchemaInv, DirtyIsFailing
<1>2. failing.v \in 1 .. MaxClock  BY <1>1, MigrateTypes DEF Versions
<1>3. \A v \in 1 .. MaxClock : schema'[v] = IF v = failing.v THEN e ELSE schema[v]
  BY <1>2 DEF TypeOK
<1>4. schema' \in [1 .. MaxClock -> {"none", "half", "done"}]  BY DEF TypeOK
<1>5. BeforeTheFirst' /\ DirtyIsFailing'
  BY <1>2, CliSame, MigrateTypes DEF SchemaInv, BeforeTheFirst, DirtyIsFailing
<1>6. RestIsRight'
  <2> SUFFICES ASSUME NEW m \in OnDisk, Proper(m), m.v # failing.v PROVE Right(m)'
    BY CliSame DEF RestIsRight
  <2>1. Right(m) /\ m.v \in 1 .. MaxClock  BY MigrateTypes DEF SchemaInv, RestIsRight
  <2> QED  BY <1>3, <2>1 DEF Right
<1>7. OnlyFromDisk'  BY <1>1, <1>3, CliSame DEF SchemaInv, OnlyFromDisk
<1> QED  BY <1>4, <1>5, <1>6, <1>7

\* The migration of a version that stands for one migration with both its
\* files makes the tables what the direction says.
LEMMA EffectFacts ==
  ASSUME TypeOK, SchemaInv, NEW p \in Migrators, mig[p].pc = "apply", NEW e \in Effect(mig[p])
  PROVE  /\ e \in {"none", "half", "done"}
         /\ \A m \in OnDisk : Proper(m) /\ m.v = mig[p].v =>
               e = IF mig[p].dir = "up" THEN "done" ELSE "none"
<1> DEFINE m == mig[p]
           x == Of(m.src, m.v)
           file == IF m.dir = "up" THEN x.up ELSE x.down
<1>1. m.v \in Versions(m.src)  BY DEF SchemaInv, ProcessOK
<1>2. x \in m.src /\ x.v = m.v  BY <1>1 DEF Versions, Of
<1>3. x \in OnDisk /\ x \in Versioned  BY <1>2, HolderFacts, MigrateTypes
<1>4. file \in {"whole", "cut", "absent"}  BY <1>3 DEF Versioned
<1>5. schema[m.v] \in {"none", "half", "done"}
  <2>1. m.v \in 1 .. MaxClock  BY <1>1, HolderFacts
  <2> QED  BY <2>1 DEF TypeOK
<1>6. e \in CASE file = "whole" -> {IF m.dir = "up" THEN "done" ELSE "none"}
              [] file = "absent" -> {schema[m.v]}
              [] file = "cut" -> {schema[m.v], "half"}
  BY DEF Effect
<1>7. e \in {"none", "half", "done"}
  <2> HIDE DEF file, m
  <2>1. CASE file = "whole"  BY <1>6, <2>1
  <2>2. CASE file = "absent"  BY <1>5, <1>6, <2>2
  <2>3. CASE file = "cut"  BY <1>5, <1>6, <2>3
  <2> QED  BY <1>4, <2>1, <2>2, <2>3
<1>8. ASSUME NEW k \in OnDisk, Proper(k), k.v = m.v
      PROVE  e = IF m.dir = "up" THEN "done" ELSE "none"
  <2>1. x = k /\ k.up = "whole" /\ k.down = "whole"  BY <1>2, <1>3, <1>8 DEF Proper
  <2>2. file = "whole"  BY <2>1
  <2> HIDE DEF file, m
  <2> QED  BY <1>6, <2>2
<1> QED  BY <1>7, <1>8

\* The migration runs to its end.
LEMMA ApplyOK ==
  ASSUME TypeOK, SchemaInv, NEW p \in Migrators, MigrationsOnly, Apply(p)
  PROVE  TypeOK' /\ SchemaInv'
<1> DEFINE m == mig[p]
           r == [m EXCEPT !.pc = "clean"]
<1>1. /\ m.pc = "apply" /\ mig' = [mig EXCEPT ![p] = r]
      /\ UNCHANGED cliVars /\ UNCHANGED <<db, lock, hint, failing>>
  BY DEF Apply
<1>2. PICK e \in Effect(mig[p]) : schema' = [schema EXCEPT ![mig[p].v] = e]  BY DEF Apply
<1>3. /\ lock = p /\ m \in Process /\ m.src \subseteq OnDisk
      /\ Versions(m.src) \subseteq 1 .. MaxClock
      /\ (\A k \in OnDisk \ m.src, n \in m.src : n.v <= k.v)
  BY <1>1, HolderFacts
<1>4. /\ db.dirty /\ failing = [v |-> m.v, dir |-> m.dir] /\ m.v \in Versions(m.src)
      /\ db.version \in {Nil} \cup Versions(m.src)
  BY <1>1 DEF SchemaInv, ProcessOK
<1>5. /\ e \in {"none", "half", "done"}
      /\ \A k \in OnDisk : Proper(k) /\ k.v = m.v => e = IF m.dir = "up" THEN "done" ELSE "none"
  BY <1>1, EffectFacts
<1>6. schema' = [schema EXCEPT ![failing.v] = e]  BY <1>2, <1>4
<1>7. /\ schema' \in [1 .. MaxClock -> {"none", "half", "done"}]
      /\ BeforeTheFirst' /\ DirtyIsFailing' /\ RestIsRight' /\ OnlyFromDisk'
  BY <1>1, <1>4, <1>5, <1>6, OnlyTheFailing
<1>8. r \in Process /\ r.pc = "clean" /\ r.v = m.v /\ r.dir = m.dir /\ r.src = m.src
  BY <1>3 DEF Process
<1>9. schema'[m.v] = e  BY <1>2, <1>3, <1>4 DEF TypeOK
<1>10. ASSUME mig'[p] = r PROVE ProcessOK(p)'
  <2> HIDE DEF r, m
  <2>1. \A k \in OnDisk : Proper(k) /\ k.v = m.v => schema'[k.v] = IF m.dir = "up" THEN "done" ELSE "none"
    BY <1>5, <1>9
  <2> QED  BY <1>1, <1>3, <1>4, <1>8, <1>10, <2>1, CliSame DEF ProcessOK
<1>11. /\ db' \in [version : {Nil} \cup 1 .. MaxClock, dirty : BOOLEAN]
       /\ failing' \in [v : {Nil} \cup 1 .. MaxClock, dir : {"up", "down"}]
  BY <1>1 DEF TypeOK
<1> HIDE DEF r
<1> QED  BY <1>1, <1>3, <1>7, <1>8, <1>10, <1>11, WorksOn

\* The migration fails: its version stays dirty, and the lock is given up.
LEMMA ApplyFailsOK ==
  ASSUME TypeOK, SchemaInv, NEW p \in Migrators, MigrationsOnly, ApplyFails(p)
  PROVE  TypeOK' /\ SchemaInv'
<1>1. /\ mig[p].pc = "apply" /\ UNCHANGED cliVars /\ UNCHANGED <<db, hint, failing>>
      /\ Returns(p, TRUE)
  BY DEF ApplyFails
<1>2. PICK e \in {schema[mig[p].v], "half"} : schema' = [schema EXCEPT ![mig[p].v] = e]
  BY DEF ApplyFails
<1>3. lock = p /\ mig[p] # Idle /\ Versions(mig[p].src) \subseteq 1 .. MaxClock
  BY <1>1, HolderFacts
<1>4. db.dirty /\ failing.v = mig[p].v /\ mig[p].v \in Versions(mig[p].src)
  BY <1>1 DEF SchemaInv, ProcessOK
<1>5. e \in {"none", "half", "done"}  BY <1>3, <1>4 DEF TypeOK
<1>6. schema' = [schema EXCEPT ![failing.v] = e]  BY <1>2, <1>4
<1>7. /\ schema' \in [1 .. MaxClock -> {"none", "half", "done"}]
      /\ BeforeTheFirst' /\ DirtyIsFailing' /\ RestIsRight' /\ OnlyFromDisk'
  BY <1>1, <1>4, <1>5, <1>6, OnlyTheFailing
<1> QED  BY <1>1, <1>3, <1>7, ReturnsOK

\* The version becomes clean once the tables of the migration are right.
LEMMA SettledIsRight ==
  ASSUME TypeOK, SchemaInv, UNCHANGED cliVars, UNCHANGED failing, db.dirty,
         db' = [version |-> db.version, dirty |-> FALSE],
         \A m \in OnDisk : m.v # failing.v => schema'[m.v] = schema[m.v],
         \A m \in OnDisk : Proper(m) /\ m.v = failing.v =>
            schema'[m.v] = IF failing.dir = "up" THEN "done" ELSE "none"
  PROVE  BeforeTheFirst' /\ DirtyIsFailing' /\ RestIsRight'
<1>0. db'.version = db.version /\ ~db'.dirty  OBVIOUS
<1>1. /\ failing.v \in Versions(OnDisk)
      /\ failing.dir = "up" => db.version = failing.v
      /\ failing.dir = "down" => db.version < failing.v
  BY DEF SchemaInv, DirtyIsFailing
<1>2. failing.v \in 1 .. MaxClock  BY <1>1, MigrateTypes DEF Versions
<1>3. failing.v # Nil  BY <1>2, MigrateTypes
<1>4. failing.dir \in {"up", "down"}  BY DEF TypeOK
<1>5. RestIsRight'
  <2> SUFFICES ASSUME NEW m \in OnDisk, Proper(m) PROVE Right(m)'
    BY CliSame DEF RestIsRight
  <2>1. CASE m.v # failing.v
    <3>1. Right(m)  BY <2>1 DEF SchemaInv, RestIsRight
    <3> QED  BY <1>0, <2>1, <3>1 DEF Right
  <2>2. CASE m.v = failing.v
    <3>1. failing.v <= db.version <=> failing.dir = "up"
      BY <1>1, <1>2, <1>4, MigrateTypes
    <3> QED  BY <1>0, <1>4, <2>2, <3>1 DEF Right
  <2> QED  BY <2>1, <2>2
<1> QED  BY <1>0, <1>3, <1>5 DEF BeforeTheFirst, DirtyIsFailing

\* The version becomes clean once the migration has run.
LEMMA CleanOK ==
  ASSUME TypeOK, SchemaInv, NEW p \in Migrators, MigrationsOnly, Clean(p)
  PROVE  TypeOK' /\ SchemaInv'
<1> DEFINE m == mig[p]
           r == [m EXCEPT !.pc = "next", !.n = @ + 1]
<1>1. /\ m.pc = "clean" /\ mig' = [mig EXCEPT ![p] = r] /\ db' = [db EXCEPT !.dirty = FALSE]
      /\ UNCHANGED cliVars /\ UNCHANGED <<schema, lock, hint, failing>>
  BY DEF Clean
<1>2. /\ lock = p /\ m \in Process /\ m.src \subseteq OnDisk
      /\ (\A k \in OnDisk \ m.src, n \in m.src : n.v <= k.v)
  BY <1>1, HolderFacts
<1>3. /\ db.dirty /\ failing = [v |-> m.v, dir |-> m.dir]
      /\ db.version \in {Nil} \cup Versions(m.src)
      /\ \A k \in OnDisk : Proper(k) /\ k.v = m.v =>
            schema[k.v] = IF m.dir = "up" THEN "done" ELSE "none"
  BY <1>1 DEF SchemaInv, ProcessOK
<1>4. /\ db' = [version |-> db.version, dirty |-> FALSE]
      /\ db' \in [version : {Nil} \cup 1 .. MaxClock, dirty : BOOLEAN]
  BY <1>1 DEF TypeOK
<1>5. BeforeTheFirst' /\ DirtyIsFailing' /\ RestIsRight'
  <2> HIDE DEF m
  <2>1. failing.v = m.v /\ failing.dir = m.dir  BY <1>3
  <2> QED  BY <1>1, <1>3, <1>4, <2>1, SettledIsRight
<1>6. OnlyFromDisk'  BY <1>1, <1>4, CliSame DEF SchemaInv, OnlyFromDisk
<1>7. r \in Process /\ r.pc = "next" /\ r.src = m.src
  <2>1. m.n \in Nat /\ m.n + 1 \in Nat  BY <1>2 DEF Process
  <2>2. r = [m EXCEPT !.pc = "next", !.n = m.n + 1]  OBVIOUS
  <2> QED  BY <1>2, <2>1, <2>2 DEF Process
<1>8. ASSUME mig'[p] = r PROVE ProcessOK(p)'
  <2> HIDE DEF r, m
  <2> QED  BY <1>1, <1>2, <1>3, <1>4, <1>7, <1>8, CliSame DEF ProcessOK
<1>9. /\ schema' \in [1 .. MaxClock -> {"none", "half", "done"}]
      /\ failing' \in [v : {Nil} \cup 1 .. MaxClock, dir : {"up", "down"}]
  BY <1>1 DEF TypeOK
<1> HIDE DEF r
<1> QED  BY <1>1, <1>2, <1>4, <1>5, <1>6, <1>7, <1>8, <1>9, WorksOn

\* The process dies, with the lock if it had it, and nobody is told anything.
LEMMA KillOK ==
  ASSUME TypeOK, SchemaInv, NEW p \in Migrators, MigrationsOnly, Kill(p)
  PROVE  TypeOK' /\ SchemaInv'
<1>1. /\ mig[p] # Idle /\ Returns(p, FALSE)
      /\ UNCHANGED cliVars /\ UNCHANGED <<db, hint, failing>>
  BY DEF Kill
<1>2. /\ lock = p \/ UNCHANGED schema
      /\ schema' \in [1 .. MaxClock -> {"none", "half", "done"}]
      /\ BeforeTheFirst' /\ DirtyIsFailing' /\ RestIsRight' /\ OnlyFromDisk'
  <2>1. CASE mig[p].pc = "apply"
    <3>1. PICK e \in {"none", "half", "done"} : schema' = [schema EXCEPT ![mig[p].v] = e]
      BY <2>1 DEF Kill
    <3>2. lock = p /\ db.dirty /\ failing.v = mig[p].v  BY <2>1 DEF SchemaInv, ProcessOK
    <3>3. schema' = [schema EXCEPT ![failing.v] = e]  BY <3>1, <3>2
    <3> QED  BY <1>1, <3>2, <3>3, OnlyTheFailing
  <2>2. CASE mig[p].pc # "apply"
    <3>1. schema' = schema  BY <2>2 DEF Kill
    <3> QED  BY <1>1, <3>1, SameTables DEF TypeOK
  <2> QED  BY <2>1, <2>2
<1> QED  BY <1>1, <1>2, ReturnsOK

\* The version that is forced is the dirty one, and nobody is at work on it, so
\* forcing it after the repair is the step that was interrupted.
LEMMA ForceVersionOK ==
  ASSUME TypeOK, SchemaInv, ForceVersion
  PROVE  TypeOK' /\ SchemaInv'
<1> DEFINE e == IF failing.dir = "up" THEN "done" ELSE "none"
<1>1. /\ \A p \in Migrators : mig[p] = Idle
      /\ db.dirty /\ hint = db.version
      /\ schema' = [schema EXCEPT ![failing.v] = e]
      /\ db' = [version |-> hint, dirty |-> FALSE]
      /\ UNCHANGED cliVars /\ UNCHANGED <<lock, mig, hint, failing>>
  BY DEF ForceVersion
<1>3. failing.v \in Versions(OnDisk)  BY <1>1 DEF SchemaInv, DirtyIsFailing
<1>4. failing.v \in 1 .. MaxClock  BY <1>3, MigrateTypes DEF Versions
<1>5. \A v \in 1 .. MaxClock : schema'[v] = IF v = failing.v THEN e ELSE schema[v]
  BY <1>1, <1>4 DEF TypeOK
<1>6. TypeOK'
  <2>1. schema' \in [1 .. MaxClock -> {"none", "half", "done"}]  BY <1>1 DEF TypeOK
  <2>2. db' \in [version : {Nil} \cup 1 .. MaxClock, dirty : BOOLEAN]
    BY <1>1, MigrateTypes
  <2> QED  BY <1>1, <2>1, <2>2, CliSame DEF TypeOK
<1>7. BeforeTheFirst' /\ DirtyIsFailing' /\ RestIsRight'
  <2>1. \A m \in OnDisk : m.v \in 1 .. MaxClock  BY MigrateTypes
  <2>2. db' = [version |-> db.version, dirty |-> FALSE]  BY <1>1
  <2>3. \A m \in OnDisk : schema'[m.v] = IF m.v = failing.v THEN e ELSE schema[m.v]
    BY <1>5, <2>1
  <2> QED  BY <1>1, <2>2, <2>3, SettledIsRight
<1>8. OnlyFromDisk'  BY <1>1, <1>3, <1>5, CliSame DEF SchemaInv, OnlyFromDisk
<1>9. ASSUME NEW p \in Migrators PROVE ProcessOK(p)'
  <2>1. mig[p] = Idle /\ Idle.pc = "idle" /\ ProcessOK(p)  BY <1>1 DEF Idle, SchemaInv
  <2> QED  BY <1>1, <2>1 DEF ProcessOK
<1>10. Started  BY <1>4, MigrateTypes DEF Started
<1> QED  BY <1>6, <1>7, <1>8, <1>9, <1>10, <1>1, CliSame DEF SchemaInv

-----------------------------------------------------------------------------
(* The invariant. *)

\* An empty directory and an empty database.
LEMMA MigrateInitInv == Init => MigrateInv
<1> SUFFICES ASSUME Init PROVE MigrateInv  OBVIOUS
<1>1. /\ CliInit /\ db = [version |-> Nil, dirty |-> FALSE]
      /\ schema = [v \in 1 .. MaxClock |-> "none"] /\ lock = Nobody
      /\ mig = [p \in Migrators |-> Idle] /\ hint = Nil /\ failing = [v |-> Nil, dir |-> "up"]
  BY DEF Init
<1>2. TypeOK
  BY <1>1, GeneratorAssumption DEF TypeOK, CliInit
<1>3. FilesInv
  BY <1>1 DEF CliInit, FilesInv, TargetsAreBacked, AddCompletesTheFeature, NothingBeforeNew
<1>4. ~Started /\ BeforeTheFirst /\ DirtyIsFailing /\ OnlyFromDisk
  BY <1>1 DEF Started, BeforeTheFirst, DirtyIsFailing, OnlyFromDisk
<1>5. RestIsRight
  <2>1. \A v \in 1 .. MaxClock : ~(v <= db.version) /\ schema[v] = "none"  BY <1>1 DEF Nil
  <2>2. \A m \in OnDisk : m.v \in 1 .. MaxClock  BY <1>2, MigrateTypes
  <2> QED  BY <2>1, <2>2 DEF RestIsRight, Right
<1>6. ASSUME NEW p \in Migrators PROVE ProcessOK(p)
  <2>1. mig[p] = Idle /\ Idle.pc = "idle" /\ lock # p  BY <1>1, MigrateAssumption DEF Idle
  <2> QED  BY <2>1 DEF ProcessOK
<1> QED  BY <1>2, <1>3, <1>4, <1>5, <1>6 DEF MigrateInv, SchemaInv

\* No step of a process or of the operator touches the project's files.
LEMMA MigratingLeavesFiles ==
  ASSUME (\E p \in Migrators : Migrating(p)) \/ ForceVersion
  PROVE  UNCHANGED cliVars
<1>1. CASE ForceVersion  BY <1>1 DEF ForceVersion
<1>2. ASSUME NEW p \in Migrators, Migrating(p) PROVE UNCHANGED cliVars
  BY <1>2 DEF Migrating, Start, Locked, LockTimesOut, Read, Begin, Finish, Apply, ApplyFails,
              Clean, withDirtyHint, Kill
<1> QED  BY <1>1, <1>2

\* Every command, every step of a process and every repair preserves it.
LEMMA MigrateNextInv == MigrateInv /\ [Next]_vars => MigrateInv'
<1> SUFFICES ASSUME MigrateInv, [Next]_vars PROVE MigrateInv'  OBVIOUS
<1>0. TypeOK /\ FilesInv /\ SchemaInv  BY DEF MigrateInv
<1>1. CASE CliNext /\ (Started => MigrationsOnly') /\ UNCHANGED migVars
  <2>1. TypeOK'  BY <1>0, <1>1, CliTypes
  <2>2. FilesInv'
    <3>1. FilesType  BY <1>0 DEF TypeOK, FilesType
    <3> QED  BY <1>0, <1>1, <3>1, CliKeepsFiles
  <2>3. SchemaInv'
    <3>1. CASE Started  BY <1>0, <1>1, <2>1, <3>1, CliDuring
    <3>2. CASE ~Started  BY <1>0, <1>1, <2>1, <3>2, CliBefore
    <3> QED  BY <3>1, <3>2
  <2> QED  BY <2>1, <2>2, <2>3 DEF MigrateInv
<1>2. ASSUME MigrationsOnly, NEW p \in Migrators, Migrating(p) PROVE MigrateInv'
  <2>1. FilesInv'
    <3>1. UNCHANGED cliVars  BY <1>2, MigratingLeavesFiles
    <3> QED  BY <1>0, <3>1, CliSame
  <2>2. TypeOK' /\ SchemaInv'
    <3>1. ASSUME NEW steps \in 0 .. 1, Start(p, "up", steps) PROVE TypeOK' /\ SchemaInv'
      <4>1. steps \in 0 .. 2 /\ "up" \in {"up", "down"}  OBVIOUS
      <4> QED  BY <1>0, <1>2, <3>1, <4>1, StartOK
    <3>2. ASSUME NEW steps \in {0, 2}, Start(p, "down", steps) PROVE TypeOK' /\ SchemaInv'
      <4>1. steps \in 0 .. 2 /\ "down" \in {"up", "down"}  OBVIOUS
      <4> QED  BY <1>0, <1>2, <3>2, <4>1, StartOK
    <3>3. CASE Locked(p) \/ LockTimesOut(p) \/ Read(p) \/ Finish(p)
      BY <1>0, <1>2, <3>3, WaitingOK
    <3>4. CASE Begin(p)  BY <1>0, <1>2, <3>4, BeginOK
    <3>5. CASE Apply(p)  BY <1>0, <1>2, <3>5, ApplyOK
    <3>6. CASE ApplyFails(p)  BY <1>0, <1>2, <3>6, ApplyFailsOK
    <3>7. CASE Clean(p)  BY <1>0, <1>2, <3>7, CleanOK
    <3>8. CASE withDirtyHint(p)  BY <1>0, <1>2, <3>8, HintOK
    <3>9. CASE Kill(p)  BY <1>0, <1>2, <3>9, KillOK
    <3> QED  BY <1>2, <3>1, <3>2, <3>3, <3>4, <3>5, <3>6, <3>7, <3>8, <3>9 DEF Migrating
  <2> QED  BY <2>1, <2>2 DEF MigrateInv
<1>3. CASE ForceVersion
  <2>1. UNCHANGED cliVars  BY <1>3, MigratingLeavesFiles
  <2>2. FilesInv'  BY <1>0, <2>1, CliSame
  <2> QED  BY <1>0, <1>3, <2>2, ForceVersionOK DEF MigrateInv
<1>4. CASE UNCHANGED vars
  <2>1. UNCHANGED cliVars /\ UNCHANGED <<db, schema, lock, mig, hint, failing>>
    BY <1>4 DEF vars, migVars
  <2>2. TypeOK' /\ FilesInv'  BY <1>0, <2>1, CliSame DEF TypeOK
  <2>4. \A p \in Migrators : ProcessOK(p)'
    BY <1>0, <2>1, CliSame DEF SchemaInv, ProcessOK
  <2>5. BeforeTheFirst' /\ DirtyIsFailing' /\ RestIsRight' /\ OnlyFromDisk'
    BY <1>0, <2>1, SameTables
  <2>6. Started' => MigrationsOnly'
    <3>1. Started' => Started  BY <2>1 DEF Started
    <3> QED  BY <1>0, <2>1, <3>1, CliSame DEF SchemaInv
  <2> QED  BY <2>2, <2>4, <2>5, <2>6 DEF SchemaInv, MigrateInv
<1> QED  BY <1>1, <1>2, <1>3, <1>4 DEF Next

\* The inductive invariant of generator and engine together.
LEMMA MigrateInvariant == Spec => []MigrateInv
  BY MigrateInitInv, MigrateNextInv, PTL DEF Spec

-----------------------------------------------------------------------------
(* The theorems. *)

\* The project's files, the table of versions and the processes of cmd/migrate
\* keep their types; generated versions never lie ahead of the clock.
THEOREM MigrateTypeCorrect == Spec => []TypeOK
<1>1. MigrateInv => TypeOK  BY DEF MigrateInv
<1> QED  BY <1>1, MigrateInvariant, PTL

\* Every target that make:worker has put into the Makefile has its program in
\* full, whatever commands failed, were repeated or repaired on the way: the
\* target is appended after the file is written, nothing writes over a file that
\* exists, and the user deletes only what is cut short.
THEOREM TargetsStayBacked == Spec => []TargetsAreBacked
<1>1. MigrateInv => TargetsAreBacked  BY DEF MigrateInv, FilesInv
<1> QED  BY <1>1, MigrateInvariant, PTL

\* A successful wapgo add leaves the project with every file of the feature,
\* although its list and skipPath's are kept apart.
THEOREM AddIsComplete == Spec => []AddCompletesTheFeature
<1>1. MigrateInv => AddCompletesTheFeature  BY DEF MigrateInv, FilesInv
<1> QED  BY <1>1, MigrateInvariant, PTL

\* A clean version in schema_migrations tells the truth about the tables, for
\* any number of racing cmd/migrate processes, failures, kills and repairs.
THEOREM CleanVersionsAreTrue == Spec => []SchemaMatchesVersion
<1>1. MigrateInv => SchemaMatchesVersion
  BY DEF MigrateInv, SchemaInv, RestIsRight, Right, Proper, SchemaMatchesVersion
<1> QED  BY <1>1, MigrateInvariant, PTL

\* No wapgo command and no run of cmd/migrate writes over a file that the user
\* has edited: Scaffold refuses a directory that exists, AddFeatureFiles skips a
\* file that exists and Render refuses it, whatever an earlier command left.
THEOREM EditsSurvive == Spec => EditedFilesSurvive
<1>1. MigrateInv /\ [Next]_vars =>
        [\A p \in Paths : files[p] = "edited" => files'[p] = "edited"]_vars
  <2> SUFFICES ASSUME MigrateInv, [Next]_vars PROVE Untouched \/ UNCHANGED vars
    BY DEF Untouched
  <2>1. CASE CliNext
    <3>1. FilesType /\ FilesInv  BY DEF MigrateInv, TypeOK, FilesType
    <3> QED  BY <2>1, <3>1, CliKeepsFiles
  <2>2. CASE (\E p \in Migrators : Migrating(p)) \/ ForceVersion
    <3>1. files' = files  BY <2>2, MigratingLeavesFiles, CliSame
    <3> QED  BY <3>1 DEF Untouched
  <2> QED  BY <2>1, <2>2 DEF Next
<1> QED  BY <1>1, MigrateInvariant, PTL DEF Spec, EditedFilesSurvive
=============================================================================
