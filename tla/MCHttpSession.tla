--------------------------- MODULE MCHttpSession ---------------------------
\* HttpSession for TLC.
EXTENDS HttpSession
=============================================================================
