---------------------------- MODULE MCBrowserSession ----------------------------
EXTENDS BrowserSession, TLC

CONSTANTS v1, v2, v3, dflt, login, k1

\* The errors of the login form do not fit beside a message.
MCOversize == {p \in Payload : p.errors[login] # Absent /\ p.messages[k1] # Absent}
\* No visit is special.
MCSymmetry == Permutations(Visits)
=============================================================================
