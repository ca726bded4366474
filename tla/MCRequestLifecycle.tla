------------------------- MODULE MCRequestLifecycle -------------------------
EXTENDS RequestLifecycle

CONSTANTS f1, f2, dflt, login, k1

Request(inertia, prefetch, precognition, method, stale, bag, only) ==
  [inertia |-> inertia, prefetch |-> prefetch, precognition |-> precognition,
   method |-> method, stale |-> stale, errorBag |-> bag, validateOnly |-> only]

\* A page visit, Inertia visits of each version state and error bag, a
\* prefetch, a form submission, and precognitive requests.
MCInfos ==
  {Request(FALSE, FALSE, FALSE, "GET", FALSE, NoBag, {}),
   Request(TRUE, FALSE, FALSE, "GET", TRUE, NoBag, {}),
   Request(TRUE, TRUE, FALSE, "GET", FALSE, NoBag, {}),
   Request(TRUE, FALSE, FALSE, "POST", FALSE, dflt, {}),
   Request(TRUE, FALSE, FALSE, "PUT", FALSE, login, {})}
  \cup {Request(TRUE, FALSE, TRUE, "POST", FALSE, b, only) :
          b \in {NoBag, login}, only \in {{}, {f1}}}

Flash(e, l, m) ==
  [errors |-> [b \in Bags |-> IF b = dflt THEN e ELSE l], messages |-> [k \in Keys |-> m]]

\* No cookie, one with errors of another form, and one with everything.
MCSeeds == {EmptyPayload, Flash({}, {f1}, {}), Flash({f1}, {f2}, {f1})}

\* Two fields in each bag do not fit, nor does a message of two words with
\* errors in the login bag.
MCOversize ==
  {p \in Payload : \/ \A b \in Bags : p.errors[b] = {f1, f2}
                   \/ p.errors[login] # {} /\ \E k \in Keys : p.messages[k] = {f1, f2}}
=============================================================================
