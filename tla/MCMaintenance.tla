------------------------ MODULE MCMaintenance ------------------------
\* Every process serves a request; one of them has its maintenance task under
\* way, which the deletions of the other requests stand for as well.
EXTENDS Maintenance

OneReaper == Servers \X {"request"} \cup {<<CHOOSE a \in Servers : TRUE, "reaper">>}
=============================================================================
