------------------------ MODULE MCTerraformWorkflow ------------------------
\* A target in the project's region, and two of one App Service plan elsewhere that
\* differ in another setting, their registry for example: one plan data fits both.
EXTENDS TerraformWorkflow, TLC

CONSTANTS near, far, twin, east, west, p1, p2

Region == [t \in Targets |-> IF t = near THEN east ELSE west]
Hosting == [t \in Targets |-> IF t = near THEN p1 ELSE p2]

\* Nothing tells the two apart.
Alike == Permutations({far, twin})
=============================================================================
