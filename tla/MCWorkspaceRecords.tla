------------------------- MODULE MCWorkspaceRecords -------------------------
\* Two people and two invitations; two requests of each kind at a time.
EXTENDS WorkspaceRecords, TLC

\* The requests have the same names in all three.  Two posts of a sample are seldom
\* under way together: exchanging them as well costs more than it saves.
Alike == Permutations(Requests)
=============================================================================
