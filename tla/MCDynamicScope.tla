--------------------------- MODULE MCDynamicScope ---------------------------
\* A function g at home in context M, called from MAIN; parameter lists with
\* a repeated and with a protected symbol among them.
EXTENDS DynamicScope, TLC

CONSTANTS x, g, MAIN, M, args, idx

MCHome == g :> M
Repeated == {<<x>>, <<x, x>>}
OneVariable == {<<x>>, <<x, args>>}
=============================================================================
