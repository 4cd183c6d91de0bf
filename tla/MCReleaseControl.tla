--------------------------- MODULE MCReleaseControl ---------------------------
\* One configuration per mode; requests are interchangeable, and so are deliveries.
EXTENDS ReleaseControl, TLC

SomeConfigurations ==
    {[mode |-> "require_approval", push |-> TRUE],
     [mode |-> "deploy_after_checks", push |-> TRUE],
     [mode |-> "validate_only", push |-> FALSE]}

Symmetry == Permutations(Requests) \cup Permutations(Deliveries)
=============================================================================
