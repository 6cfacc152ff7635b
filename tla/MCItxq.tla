------------------------------- MODULE MCItxq -------------------------------
EXTENDS Itxq
CONSTANTS s, t
=============================================================================
