---------------------------- MODULE MCApiStartUp ----------------------------
\* Two processes and two requests on one database, one value and one variable.
EXTENDS ApiStartUp, TLC
=============================================================================
