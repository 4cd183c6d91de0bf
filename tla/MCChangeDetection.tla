-------------------------- MODULE MCChangeDetection --------------------------
EXTENDS ChangeDetection, TLC

\* An empty repository, and one with every file.
EmptyAndFull == {[k \in Kinds |-> 0], [k \in Kinds |-> 1]}

Alike == Permutations(Runs)
=============================================================================
