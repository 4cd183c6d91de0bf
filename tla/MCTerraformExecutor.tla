------------------------ MODULE MCTerraformExecutor ------------------------
EXTENDS TerraformExecutor, TLC

WorkerSymmetry == Permutations(Workers)
=============================================================================
