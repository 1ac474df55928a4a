----------------------------- MODULE MCTerminal -----------------------------
EXTENDS Terminal

MCLength == {0, 2}
=============================================================================
