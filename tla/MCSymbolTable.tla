--------------------------- MODULE MCSymbolTable ---------------------------
\* Instances of SymbolTable for TLC.
EXTENDS SymbolTable

CONSTANTS T1, T2, T3, A, B
=============================================================================
