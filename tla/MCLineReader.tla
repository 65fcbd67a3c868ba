----------------------------- MODULE MCLineReader -----------------------------
EXTENDS LineReader
=============================================================================
