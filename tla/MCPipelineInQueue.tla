-------------------------- MODULE MCPipelineInQueue --------------------------
(* Small sets of configurations and sources for TLC; the run is checked in the queue. *)
EXTENDS PipelineInQueue

\* What repository_checks.inspect_repository never takes away.
Always == {SecretScan, ContainerSecurity, Sbom, KubernetesValidation, IacSecurity}

\* One configuration per mode, with the checks every saved configuration asks
\* for and two that it can switch off; and for a demo executor everything that a
\* saved configuration and a request for AKS can ask for.
EveryMode ==
    [mode : DeploymentModes, enabled : {{DependencyInstallation, CodeQuality, UnitTests, Sast}}, demo : {FALSE}]
        \cup [mode : DeploymentModes, enabled : {Switchable \ {Sbom}}, demo : {TRUE}]

\* A bare change that reuses the last analysis, and an application with tests
\* and a build, each with every kind of infrastructure.
SomeSources ==
    [infra : InfraEvidence,
     relevant : {Always \cup {CodeQuality, Sast},
                 Always \cup {RepositoryAnalysis, CodeQuality, UnitTests, Sast, Build}}]
=============================================================================
