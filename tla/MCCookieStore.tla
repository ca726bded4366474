---------------------------- MODULE MCCookieStore ----------------------------
EXTENDS CookieStore, TLC

CONSTANTS c1, c2, c3, w1, w2, b1, k1, v1, v2

\* Two calls race on w1; one call on w2 shares the sync.Map with them.
MCWriterOf == (c1 :> w1 @@ c2 :> w1 @@ c3 :> w2)

\* A request without a cookie, and one whose cookie holds errors and a message.
FullPayload == [errors |-> [b \in Bags |-> v1], messages |-> [k \in Keys |-> v1]]
MCSeeds == {EmptyPayload, FullPayload}

\* Errors and a message that are both v2 do not fit into the cookie.
MCOversize == {[errors |-> [b \in Bags |-> v2], messages |-> [k \in Keys |-> v2]]}

CallSymmetry == Permutations({c1, c2})
=============================================================================
