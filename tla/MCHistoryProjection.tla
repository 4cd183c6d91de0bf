------------------------ MODULE MCHistoryProjection ------------------------
\* Two projectors and an API request on one run of two attempts.
EXTENDS HistoryProjection
=============================================================================
