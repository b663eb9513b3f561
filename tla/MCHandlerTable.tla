--------------------------- MODULE MCHandlerTable ---------------------------
\* A small instance of HandlerTable for TLC.
EXTENDS HandlerTable

CONSTANTS m1, m2, unknown

MCName == {m1, m2, unknown}
MCMethod == {m1, m2}
=============================================================================
