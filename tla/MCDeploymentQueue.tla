------------------------- MODULE MCDeploymentQueue -------------------------
EXTENDS DeploymentQueue, TLC

\* Workers are interchangeable.
WorkerSymmetry == Permutations(Workers)
=============================================================================
