-------------------------- MODULE MCSourceEvidence --------------------------
EXTENDS SourceEvidence, TLC

\* An empty repository, and one with every file.
EmptyAndFull == {[k \in Kinds |-> 0], [k \in Kinds |-> 1]}

Alike == Permutations(Runs)

\* Repositories for the checks: packages with and without lock files, in one
\* directory, below it and with the lock file above; Python with each way of
\* declaring dependencies; manifests that cannot be read.

NoPackage == [json |-> "none", locks |-> {}, declared |-> "none", dependencies |-> FALSE, scripts |-> {}]
NoPython == [files |-> {}, bad |-> FALSE, dependencies |-> FALSE, tools |-> {}, tests |-> FALSE]

RootPackages ==
    {NoPackage, [NoPackage EXCEPT !.json = "bad"]}
      \cup {[NoPackage EXCEPT !.json = "good", !.locks = locks, !.declared = declared, !.dependencies = deps, !.scripts = scripts] :
               locks \in {{}, {"npm"}, {"npm", "yarn"}}, declared \in {"none", "yarn"}, deps \in BOOLEAN,
               scripts \in {{}, {"lint", "typecheck", "test:unit", "test"}}}
AppPackages ==
    {NoPackage, [NoPackage EXCEPT !.json = "bad"]}
      \cup {[NoPackage EXCEPT !.json = "good", !.locks = locks, !.dependencies = deps, !.scripts = scripts] :
               locks \in {{}, {"bun"}}, deps \in BOOLEAN, scripts \in {{"build", "check"}, {"test:ci", "test", "build"}}}
Pythons == {NoPython,
    [NoPython EXCEPT !.files = {"requirements.txt", "requirements-dev.txt"}, !.tools = {"ruff"}],
    [NoPython EXCEPT !.files = {"pyproject"}, !.dependencies = TRUE],
    [NoPython EXCEPT !.files = {"uv.lock"}, !.tools = {"mypy"}],
    [NoPython EXCEPT !.files = {"setup", "Pipfile.lock"}, !.tools = {"black"}],
    [NoPython EXCEPT !.files = {"requirements.txt", "pyproject"}, !.bad = TRUE],
    [NoPython EXCEPT !.files = {"py", "setup"}, !.tests = TRUE]}
MCTrees ==
    {[d \in Dirs |-> IF d = "root" THEN [package |-> a, python |-> NoPython] ELSE [package |-> b, python |-> NoPython]] :
        a \in RootPackages, b \in AppPackages}
    \cup {[d \in Dirs |-> IF d = "root" THEN [package |-> a, python |-> p] ELSE [package |-> NoPackage, python |-> q]] :
        a \in {NoPackage, [NoPackage EXCEPT !.json = "bad"]}, p \in Pythons, q \in Pythons}
=============================================================================
