----------------------------- MODULE MCVerdict -----------------------------
\* The engine has no parameters: the instance is every producible snapshot.
EXTENDS Verdict
=============================================================================
