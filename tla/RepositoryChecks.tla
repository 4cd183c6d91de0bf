--------------------------- MODULE RepositoryChecks ---------------------------
(***************************************************************************)
(* The commands that a repository's own manifests ask for: which of them   *)
(* a pipeline run plans (backend/services/repository_checks.py), and how   *)
(* they are run, each in a container made for it from an image prepared    *)
(* for the commit (worker/repository_executor.py) or, in a demonstration,  *)
(* in the worker's checkout (backend/services/demo_executor.py).           *)
(*                                                                         *)
(* A repository has a root and a directory below it; a manifest is what    *)
(* the planner reads of it.  A Docker call is one step that may fail.      *)
(***************************************************************************)
EXTENDS Naturals, Sequences, FiniteSets, SequencesExt

CONSTANTS
    Trees,      \* repositories: [Dirs -> [package, python]], see Package and Python
    MaxCommands, \* _MAX_COMMANDS_PER_STAGE
    MaxOutages   \* bound: lost answers, refused removals and crashes

ASSUME ChecksAssumption == MaxCommands \in Nat /\ MaxOutages \in Nat

-----------------------------------------------------------------------------
(* Manifests *)

Dirs == {"root", "app"}
DirOrder == <<"root", "app">>

\* Where the lock file of a package is looked for, nearest first.
Upwards == [root |-> <<"root">>, app |-> <<"app", "root">>]

QualityScripts == <<"lint", "typecheck", "check", "format:check">>
TestScripts    == <<"test:unit", "test:ci", "test">>
QualityTools   == <<"ruff", "black", "mypy", "pyright", "flake8">>
NodeManagers   == {"npm", "pnpm", "yarn", "bun"}
Requirements   == <<"requirements.txt", "requirements-dev.txt">>

\* package.json, and the lock files beside it.
Package == [json : {"none", "bad", "good"}, locks : SUBSET NodeManagers, declared : NodeManagers \cup {"none"},
            dependencies : BOOLEAN, scripts : SUBSET (ToSet(QualityScripts) \cup ToSet(TestScripts) \cup {"build"})]

\* Python manifests; "py" is a source file, "setup" is setup.py or setup.cfg.
Python == [files : SUBSET ({"py", "setup", "pyproject", "uv.lock", "poetry.lock", "Pipfile", "Pipfile.lock"}
                             \cup ToSet(Requirements)),
           bad : BOOLEAN, dependencies : BOOLEAN, tools : SUBSET ToSet(QualityTools), tests : BOOLEAN]

\* A repository as the planner reads it.
Repository == [Dirs -> [package : Package, python : Python]]

ASSUME TreesAssumption == Trees \subseteq Repository

NoTool == "none"

\* The members of a list at some of its positions, in their order.
At(list, positions) ==
    MapThenFoldSet(LAMBDA member, kept : Append(kept, member), <<>>, LAMBDA i : list[i], Max, positions)

Where(present, names) == At(names, {i \in DOMAIN names : names[i] \in present})

-----------------------------------------------------------------------------
(* Inspection *)

\* The nearest directory with a lock file, else the package's own.
Home(tree, d) ==
    LET locked == {i \in DOMAIN Upwards[d] : tree[Upwards[d][i]].package.locks # {}}
    IN  IF locked = {} THEN d ELSE Upwards[d][Min(locked)]

\* What the package at the lock file declares, else the package itself.
Declared(tree, d) ==
    LET home == tree[Home(tree, d)].package
    IN  IF home.json # "none" /\ home.declared # "none" THEN home.declared ELSE tree[d].package.declared

NodeReadable(tree, d) == "bad" \notin {tree[d].package.json, tree[Home(tree, d)].package.json}

NodeComponent(tree, d) ==
    LET package  == tree[d].package
        declared == Declared(tree, d)
        locks    == tree[Home(tree, d)].package.locks
        single   == Cardinality(locks) = 1
        manager  == IF single THEN CHOOSE m \in locks : TRUE ELSE IF declared # "none" THEN declared ELSE "npm"
    IN  [ecosystem |-> "node", dir |-> d,
         home    |-> IF single THEN Home(tree, d) ELSE d,
         manager |-> manager,
         issue   |-> \/ Cardinality(locks) > 1
                     \/ single /\ declared \notin {"none", manager}
                     \/ package.dependencies /\ locks = {},
         dependencies |-> package.dependencies,
         files   |-> <<>>,
         quality |-> Where(package.scripts, QualityScripts),
         tests   |-> Where(package.scripts, TestScripts),
         build   |-> "build" \in package.scripts]

PythonMarked(tree, d) == tree[d].python.files \ (IF d = "root" THEN {} ELSE {"py"}) # {}

PythonComponent(tree, d) ==
    LET python  == tree[d].python
        has(f)  == f \in python.files
        files   == Where(python.files, Requirements)
        manager == IF has("uv.lock") THEN "uv" ELSE IF has("poetry.lock") THEN "poetry"
                   ELSE IF has("Pipfile.lock") THEN "pipenv" ELSE IF files # <<>> THEN "pip" ELSE NoTool
    IN  [ecosystem |-> "python", dir |-> d, home |-> d, manager |-> manager,
         issue   |-> \/ manager \in {"uv", "poetry"} /\ ~has("pyproject")
                     \/ manager = "pipenv" /\ ~has("Pipfile")
                     \/ manager = NoTool /\ has("pyproject") /\ python.dependencies,
         dependencies |-> manager # NoTool \/ (has("pyproject") /\ python.dependencies),
         files   |-> IF manager = "pip" THEN files ELSE <<>>,
         quality |-> Where(python.tools, QualityTools),
         tests   |-> IF python.tests THEN <<"pytest">> ELSE <<>>,
         build   |-> TRUE]

\* What is found in one directory: a manifest that cannot be read ends it.
ComponentsAt(tree, d) ==
    LET python == IF PythonMarked(tree, d) /\ ~tree[d].python.bad THEN <<PythonComponent(tree, d)>> ELSE <<>>
    IN  IF tree[d].package.json = "none" THEN python
        ELSE IF NodeReadable(tree, d) THEN <<NodeComponent(tree, d)>> \o python ELSE <<>>

Unreadable(tree, d) ==
    \/ tree[d].package.json # "none" /\ ~NodeReadable(tree, d)
    \/ PythonMarked(tree, d) /\ tree[d].python.bad

\* inspect_repository
Facts(tree) ==
    [components |-> FlattenSeq([i \in DOMAIN DirOrder |-> ComponentsAt(tree, DirOrder[i])]),
     errors     |-> \E d \in Dirs : Unreadable(tree, d)]

-----------------------------------------------------------------------------
(* Planning.  A command is its directory, its tool and what it is asked. *)

CheckStages == <<"dependency_installation", "code_quality", "unit_tests", "build">>

Command(dir, tool, asked) == [dir |-> dir, tool |-> tool, asked |-> asked]
Script(c, script) == Command(c.dir, c.manager, script)

DependencyPlans(c) ==
    IF c.issue \/ ~c.dependencies THEN <<>>
    ELSE IF c.manager = "pip" THEN [i \in DOMAIN c.files |-> Command(c.dir, "python", c.files[i])]
    ELSE <<Command(c.home, c.manager, "install")>>

QualityPlans(c) ==
    [i \in DOMAIN c.quality |->
        IF c.ecosystem = "node" THEN Script(c, c.quality[i]) ELSE Command(c.dir, c.quality[i], "check")]

\* Mutant of TestPlans: only the first convention is known.
TestPlansOfOneScript(c) ==
    IF c.tests = <<>> THEN <<>>
    ELSE IF c.ecosystem = "node" THEN IF Head(c.tests) = "test:unit" THEN <<Script(c, "test:unit")>> ELSE <<>>
    ELSE <<Command(c.dir, "pytest", "test")>>

TestPlans(c) ==
    IF c.tests = <<>> THEN <<>>
    ELSE IF c.ecosystem = "node" THEN <<Script(c, Head(c.tests))>>
    ELSE <<Command(c.dir, "pytest", "test")>>

BuildPlans(c) ==
    IF ~c.build THEN <<>>
    ELSE IF c.ecosystem = "node" THEN <<Script(c, "build")>>
    ELSE <<Command(c.dir, "python", "compileall")>>

PlansOf(stage, c) ==
    [dependency_installation |-> DependencyPlans(c), code_quality |-> QualityPlans(c),
     unit_tests |-> TestPlans(c), build |-> BuildPlans(c)][stage]

\* Mutant of Once: the same command in another directory counts as the same.
OnceAnywhere(plans) ==
    FoldLeft(LAMBDA kept, plan : IF \E k \in ToSet(kept) : k.tool = plan.tool /\ k.asked = plan.asked THEN kept
                                 ELSE Append(kept, plan), <<>>, plans)

\* Packages below one lock file install once.
Once(plans) == At(plans, {i \in DOMAIN plans : \A j \in 1 .. i - 1 : plans[j] # plans[i]})

Plans(stage, facts) ==
    Once(FlattenSeq([i \in DOMAIN facts.components |-> PlansOf(stage, facts.components[i])]))

Issues(stage, facts) ==
    \/ facts.errors
    \/ stage = "dependency_installation" /\ \E c \in ToSet(facts.components) : c.issue
    \/ Len(Plans(stage, facts)) > MaxCommands

\* Mutant of Capable: only the root is looked at.
CapableAtRoot(stage, facts) ==
    \E c \in ToSet(facts.components) :
        c.dir = "root" /\
        [dependency_installation |-> c.dependencies, code_quality |-> c.quality # <<>>,
         unit_tests |-> c.tests # <<>>, build |-> c.build][stage]

\* _repository_capabilities, by which the run's stages are reconciled.
Capable(stage, facts) ==
    \E c \in ToSet(facts.components) :
        [dependency_installation |-> c.dependencies, code_quality |-> c.quality # <<>>,
         unit_tests |-> c.tests # <<>>, build |-> c.build][stage]

-----------------------------------------------------------------------------
VARIABLES
    tree,       \* the source of the run
    venue,      \* repository_executor: "none", "docker" or "demo"
    image,      \* the prepared image holds the run's source, or another: "same", "other"
    at,         \* what the run does next
    task,       \* the stage it is in, its commands left, the container of the next one
    result,     \* of each stage
    completed,   \* commands that completed, what ran for each, and in which container
    containers, \* containers ever made, in their order, with the commands each has run
    existing,   \* those that Docker still has
    held,       \* those that the executor knows of (_containers)
    outages     \* lost answers, refused removals and crashes so far

checkVars == <<tree, venue, image, at, task, result, completed, containers, existing, held, outages>>
dockerVars == <<containers, existing, held, outages>>

CheckedStages == ToSet(CheckStages)
NoContainer == 0
NoTask == [stage |-> "none", left |-> <<>>, container |-> NoContainer]

\* configured_executor: the image prepared for the commit; what it holds shows
\* when it is attested.
Prepared(v) == IF v = "docker" THEN {"same", "other"} ELSE {"same"}

ChecksInit ==
    /\ tree \in Trees
    /\ venue \in {"none", "docker", "demo"}
    /\ image \in Prepared(venue)
    /\ at = "between"
    /\ task = NoTask
    /\ result = [s \in CheckedStages |-> IF Capable(s, Facts(tree)) THEN "queued" ELSE "skipped"]
    /\ completed = [s \in CheckedStages |-> <<>>]
    /\ containers = <<>>
    /\ existing = {}
    /\ held = {}
    /\ outages = [answer |-> 0, removal |-> 0, crash |-> 0]

Outages == outages.answer + outages.removal + outages.crash
Outage(kind) == Outages < MaxOutages /\ outages' = [outages EXCEPT ![kind] = @ + 1]

\* A result other than "passed" raises, and the run ends.
Ends(status) ==
    /\ result' = [result EXCEPT ![task.stage] = status]
    /\ at' = "close"
    /\ UNCHANGED <<task, completed>>

Unavailable == Ends("unavailable")
GoOn(place) == at' = place /\ UNCHANGED <<task, result, completed>>

-----------------------------------------------------------------------------
(* Stages *)

Queued == {i \in DOMAIN CheckStages : result[CheckStages[i]] = "queued"}

\* run_repository_check up to the executor.
StartCheck ==
    /\ at = "between"
    /\ Queued # {}
    /\ LET s     == CheckStages[Min(Queued)]
           facts == Facts(tree)
           plans == Plans(s, facts)
       IN  \/ /\ Issues(s, facts) \/ (plans # <<>> /\ venue = "none")
              /\ task' = [NoTask EXCEPT !.stage = s]
              /\ result' = [result EXCEPT ![s] = "unavailable"]
              /\ at' = "close"
           \/ /\ ~Issues(s, facts) /\ plans = <<>>
              /\ task' = [NoTask EXCEPT !.stage = s]
              /\ result' = [result EXCEPT ![s] = "unplanned"]
              /\ at' = "close"
           \/ /\ ~Issues(s, facts) /\ plans # <<>> /\ venue # "none"
              /\ task' = [stage |-> s, left |-> plans, container |-> NoContainer]
              /\ at' = IF venue = "docker" THEN "inspect" ELSE "ready"
              /\ UNCHANGED result
    /\ UNCHANGED <<tree, venue, image, completed, dockerVars>>

\* No stage is left, or something else ends the run between two of them: a
\* scan, the image, the lease.
Finish ==
    /\ at = "between"
    /\ GoOn("close")
    /\ UNCHANGED <<tree, venue, image, dockerVars>>

-----------------------------------------------------------------------------
(* Attestation *)

InspectImage ==
    /\ at = "inspect"
    /\ \/ image = "same" /\ GoOn("create")
       \/ Unavailable
    /\ UNCHANGED <<tree, venue, image, dockerVars>>

Made == Len(containers) + 1
Add == /\ containers' = Append(containers, [stage |-> task.stage, source |-> image, ran |-> <<>>])
       /\ existing' = existing \cup {Made}
       /\ UNCHANGED held

\* docker create; a call that times out may have created the container.
CreateContainer ==
    /\ at = "create"
    /\ \/ /\ Add
          /\ task' = [task EXCEPT !.container = Made]
          /\ at' = "prepare"
          /\ UNCHANGED <<result, completed, outages>>
       \/ Unavailable /\ UNCHANGED dockerVars
       \/ Unavailable /\ Add /\ Outage("answer")
    /\ UNCHANGED <<tree, venue, image>>

\* verify_isolation_attestation
Verified(stage, container) ==
    LET c == containers[container]
    IN  c.stage = stage /\ c.source = "same" /\ c.ran = <<>>

\* Started, its copy of the source complete and its isolation in force.
PrepareContainer ==
    /\ at = "prepare"
    /\ \/ /\ held' = held \cup {task.container}
          /\ IF Verified(task.stage, task.container) THEN GoOn("ready") ELSE Unavailable
       \/ GoOn("discard") /\ UNCHANGED held
    /\ UNCHANGED <<tree, venue, image, containers, existing, outages>>

\* Mutant of Discard: an attestation that fails leaves its container.
DiscardNothing ==
    /\ at = "discard"
    /\ Unavailable
    /\ UNCHANGED <<tree, venue, image, dockerVars>>

Discard ==
    /\ at = "discard"
    /\ Unavailable
    /\ \/ existing' = existing \ {task.container} /\ UNCHANGED outages
       \/ Outage("removal") /\ UNCHANGED existing
    /\ UNCHANGED <<tree, venue, image, containers, held>>

-----------------------------------------------------------------------------
(* Execution *)

\* Not uv, poetry, pipenv, bun, mypy or pyright.
ExecutorTools == {"python", "pytest", "npm", "yarn", "pnpm", "ruff", "flake8", "black"}

\* Mutant of Programs: an executor without the tool runs python in its place.
AnyProgram(command) == IF command.tool \in ExecutorTools THEN {command.tool, "python"} ELSE {}

\* resolve_tool: the programs that may run for a command.  A demonstration on a
\* host without pytest takes python, which has nothing to read and succeeds.
Programs(command) ==
    IF command.tool \notin ExecutorTools THEN {}
    ELSE {command.tool} \cup (IF venue = "demo" /\ command.tool = "pytest" THEN {"python"} ELSE {})

\* docker exec
InContainer(command) ==
    venue = "docker" /\ containers' = [containers EXCEPT ![task.container].ran = Append(@, command)]

\* The commands of a demonstration share the worker's checkout.
InCheckout == venue = "demo" /\ UNCHANGED containers

Ran(command) == InContainer(command) \/ InCheckout

\* Mutant of NextCommand: the attestation of the stage's first command is kept.
NextCommandInPlace == at' = "ready" /\ task' = [task EXCEPT !.left = Tail(@)] /\ UNCHANGED result

\* A fresh attestation for every command but the first.
NextCommand ==
    /\ at' = IF venue = "docker" THEN "inspect" ELSE "ready"
    /\ task' = [task EXCEPT !.left = Tail(@), !.container = NoContainer]
    /\ UNCHANGED result

StagePassed == at' = "between" /\ result' = [result EXCEPT ![task.stage] = "passed"] /\ task' = NoTask

Execute ==
    /\ at = "ready"
    /\ LET command == Head(task.left) IN
       \/ Unavailable /\ UNCHANGED containers
       \/ /\ Programs(command) # {}
          /\ Ran(command)
          /\ \/ Ends("failed")
             \/ Unavailable
             \/ /\ \E program \in Programs(command) :
                      completed' = [completed EXCEPT ![task.stage] =
                          Append(@, [command |-> command, program |-> program, container |-> task.container])]
                /\ IF Tail(task.left) = <<>> THEN StagePassed ELSE NextCommand
    /\ UNCHANGED <<tree, venue, image, existing, held, outages>>

-----------------------------------------------------------------------------
(* The end *)

\* DockerRepositoryCheckExecutor.close; what it raises also replaces the outcome
\* of the pipeline, which DeploymentQueue has as an error after the run.
Close ==
    /\ at = "close"
    /\ IF held = {} THEN GoOn("ended") /\ UNCHANGED <<existing, held, outages>>
       ELSE LET c == CHOOSE c \in held : \A d \in held : c <= d IN
            \/ /\ existing' = existing \ {c}
               /\ held' = held \ {c}
               /\ UNCHANGED <<outages, at, task, result, completed>>
            \/ Outage("removal") /\ GoOn("ended") /\ UNCHANGED <<existing, held>>
    /\ UNCHANGED <<tree, venue, image, containers>>

\* Nothing of the executor survives its worker.
WorkerStops ==
    /\ at # "ended"
    /\ Outage("crash")
    /\ at' = "ended"
    /\ held' = {}
    /\ UNCHANGED <<tree, venue, image, task, result, completed, containers, existing>>

ChecksNext == StartCheck \/ Finish \/ InspectImage \/ CreateContainer \/ PrepareContainer \/ Discard \/ Execute
                \/ Close \/ WorkerStops

-----------------------------------------------------------------------------
(* Properties *)

\* Scripts and tools that the manifests of a directory ask for by name.
Asked(stage, d) ==
    LET package == tree[d].package
        python  == tree[d].python
        marked  == PythonMarked(tree, d)
        locked  == {"uv.lock", "poetry.lock", "Pipfile.lock"} \cap python.files # {}
    IN  [code_quality |->
             [scripts |-> IF package.json = "good" THEN package.scripts \cap ToSet(QualityScripts) ELSE {},
              tools   |-> IF marked THEN python.tools ELSE {}],
         unit_tests |-> [scripts |-> {}, tools |-> IF marked /\ python.tests THEN {"pytest"} ELSE {}],
         dependency_installation |->
             [scripts |-> IF locked THEN {} ELSE python.files \cap ToSet(Requirements), tools |-> {}],
         build |-> [scripts |-> {}, tools |-> {}]][stage]

\* Packages with tests, a build or dependencies ask by having them.
AsksOfPackage(stage, package) ==
    package.json = "good" /\
        [code_quality |-> FALSE, unit_tests |-> package.scripts \cap ToSet(TestScripts) # {},
         build |-> "build" \in package.scripts, dependency_installation |-> package.dependencies][stage]

\* All that ran for a stage.
Commands(stage) == {completed[stage][i].command : i \in DOMAIN completed[stage]}
ProgramsRun(stage, d) ==
    {completed[stage][i].program : i \in {n \in DOMAIN completed[stage] : completed[stage][n].command.dir = d}}

\* A stage that passed left out no component: each script, tool and requirements
\* file ran where it is, every package with tests ran one of its test scripts,
\* each with a build was built, and the dependencies of a package were installed
\* where its lock file is; and no manifest was unreadable (run_repository_check).
\* A demonstration may have passed Python's tests without running any.
PassedLeftNothingOut ==
    \A s \in CheckedStages : result[s] = "passed" =>
        \A d \in Dirs :
            LET package == tree[d].package
                here    == {c \in Commands(s) : c.dir = d}
            IN  /\ ~Unreadable(tree, d)
                /\ Asked(s, d).scripts \subseteq {c.asked : c \in here}
                /\ Asked(s, d).tools \ (IF venue = "demo" THEN {"pytest"} ELSE {}) \subseteq ProgramsRun(s, d)
                /\ s = "unit_tests" /\ AsksOfPackage(s, package) => \E c \in here : c.asked \in package.scripts
                /\ s = "build" /\ AsksOfPackage(s, package) => \E c \in here : c.asked = "build"
                /\ s = "dependency_installation" /\ AsksOfPackage(s, package) =>
                       \E c \in Commands(s) : c.asked = "install" /\ c.tool \in tree[c.dir].package.locks
                                              /\ c.dir \in ToSet(Upwards[d])

\* What the reconciliation skips, no manifest asks for (_repository_capabilities).
\* Of a manifest that cannot be read nothing is known: a stage is skipped where
\* only that one asks for it, and blocked where another does.
SkippedWasNotAsked ==
    \A s \in CheckedStages : result[s] = "skipped" /\ (\A d \in Dirs : ~Unreadable(tree, d)) =>
        \A d \in Dirs : Asked(s, d).scripts = {} /\ Asked(s, d).tools = {} /\ ~AsksOfPackage(s, tree[d].package)

\* Every command of a stage that passed was the only one of its container, which
\* was made of the run's own source for that stage: nothing one command installs
\* or changes is there for another (worker/repository_executor.py: "Each stage
\* starts from the original image").
EachCommandOfItsOwn ==
    venue = "docker" => \A s \in CheckedStages : result[s] = "passed" =>
        \A i \in DOMAIN completed[s] :
            LET e == completed[s][i]
            IN  containers[e.container] = [stage |-> s, source |-> "same", ran |-> <<e.command>>]

\* The stages that the reconciliation queues and the commands that the checker
\* plans are decided in two places (_repository_capabilities, _plans) and agree.
QueuedIsPlanned == \A s \in CheckedStages : result[s] # "unplanned"

\* A verdict covers the whole repository, and each of its commands stands for itself.
VerdictsAreComplete == PassedLeftNothingOut /\ SkippedWasNotAsked /\ EachCommandOfItsOwn /\ QueuedIsPlanned

\* However a run ends, its containers are removed, except where Docker refuses a
\* removal, the worker stops, or a creation is never acknowledged
\* (DockerRepositoryCheckExecutor.attest and close).
ContainersAreRemoved ==
    at = "ended" /\ outages.removal = 0 /\ outages.crash = 0 => Cardinality(existing) <= outages.answer
=============================================================================
