------------------------- MODULE ResponseAccumulator -------------------------
(***************************************************************************)
(* What a response's flash accumulator promises to the goroutines of a     *)
(* handler: until the response is closed every Store call acts atomically  *)
(* on one payload, which starts as the request's cookie, and sealing the   *)
(* response sends that payload if a call changed it.                       *)
(*                                                                         *)
(* A call that is still running when the response is closed may miss it:   *)
(* its result is then unspecified and the response does not show it.       *)
(* CookieStore implements this specification.                              *)
(***************************************************************************)
EXTENDS FlashPayload

CONSTANTS
  Calls,      \* Store calls; each is made at most once
  Writers,    \* response writers, one per request
  WriterOf,   \* the response a call is made for
  Seeds,      \* payloads a request's cookie may hold
  Oversize,   \* payloads whose encoded cookie exceeds MaxBytes
  NoCall,     \* the call has not been made
  NoResult,   \* the call has not returned
  NoHeader    \* the response has no Set-Cookie

VARIABLES
  cookie,    \* the payload in each request's cookie
  acc,       \* the payload each response has accumulated
  dirty,     \* whether a call changed it
  phase,     \* "open", "draining" or "done"
  header,    \* the payload of the response's Set-Cookie
  call,      \* the request of each call
  ret        \* the result of each call

vars == <<cookie, acc, dirty, phase, header, call, ret>>

Init ==
  /\ cookie \in [Writers -> Seeds]
  /\ acc = cookie
  /\ dirty = [w \in Writers |-> FALSE]
  /\ phase = [w \in Writers |-> "open"]
  /\ header = [w \in Writers |-> NoHeader]
  /\ call = [c \in Calls |-> NoCall]
  /\ ret = [c \in Calls |-> NoResult]

Invoke(c, q) ==
  /\ call[c] = NoCall
  /\ call' = [call EXCEPT ![c] = q]
  /\ ret' = IF IsNoop(q) THEN [ret EXCEPT ![c] = [ok |-> TRUE]] ELSE ret
  /\ UNCHANGED <<cookie, acc, dirty, phase, header>>

\* The call takes effect and returns.
Apply(c) ==
  LET w == WriterOf[c] IN
  /\ call[c] # NoCall /\ ret[c] = NoResult
  /\ phase[w] # "done"
  /\ acc' = [acc EXCEPT ![w] = After(acc[w], call[c])]
  /\ dirty' = [dirty EXCEPT ![w] = dirty[w] \/ Dirties(acc[w], call[c])]
  /\ ret' = [ret EXCEPT ![c] = Result(acc[w], call[c])]
  /\ UNCHANGED <<cookie, phase, header, call>>

\* The call returns after the response was closed, without effect on it.
Miss(c) ==
  /\ call[c] # NoCall /\ ret[c] = NoResult
  /\ phase[WriterOf[c]] # "open"
  /\ \E res \in Results : ret' = [ret EXCEPT ![c] = res]
  /\ UNCHANGED <<cookie, acc, dirty, phase, header, call>>

Close(w) ==
  /\ phase[w] = "open"
  /\ phase' = [phase EXCEPT ![w] = "draining"]
  /\ UNCHANGED <<cookie, acc, dirty, header, call, ret>>

\* The response leaves with what it accumulated; the accumulator is spent.
Seal(w) ==
  /\ phase[w] # "done"
  /\ phase' = [phase EXCEPT ![w] = "done"]
  /\ header' = IF dirty[w] /\ acc[w] \notin Oversize
                 THEN [header EXCEPT ![w] = acc[w]] ELSE header
  /\ acc' = [acc EXCEPT ![w] = EmptyPayload]
  /\ dirty' = [dirty EXCEPT ![w] = FALSE]
  /\ UNCHANGED <<cookie, call, ret>>

Next ==
  \/ \E c \in Calls, q \in Requests : Invoke(c, q)
  \/ \E c \in Calls : Apply(c) \/ Miss(c)
  \/ \E w \in Writers : Close(w) \/ Seal(w)

Spec == Init /\ [][Next]_vars
=============================================================================
