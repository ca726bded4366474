---------------------------- MODULE FlashPayload ----------------------------
(***************************************************************************)
(* The flash data one browser session carries between two requests, and    *)
(* the four operations of session.Store on it.                             *)
(*                                                                         *)
(* Corresponds to cookiePayload and to the critical sections of            *)
(* FlashErrors, TakeErrors, FlashMessage and TakeMessages in               *)
(* session/cookie.go.  A bag's field->message map and a message's value    *)
(* are opaque members of Vals; an absent map key is Absent.                *)
(***************************************************************************)

CONSTANTS
  Bags,    \* names of error bags
  Keys,    \* keys of flash messages
  Vals,    \* non-empty error maps and message values
  Absent   \* the value of a key a Go map does not hold

ASSUME AbsentAssumption == Absent \notin Vals

-----------------------------------------------------------------------------

Errors   == [Bags -> Vals \cup {Absent}]
Messages == [Keys -> Vals \cup {Absent}]
Payload  == [errors : Errors, messages : Messages]

NoErrors     == [b \in Bags |-> Absent]
NoMessages   == [k \in Keys |-> Absent]
EmptyPayload == [errors |-> NoErrors, messages |-> NoMessages]

\* The calls of the Store interface.  FlashErrors with the value Absent is a
\* call with an empty error map.
FlashErrorsReq  == [kind : {"FlashErrors"}, bag : Bags, val : Vals \cup {Absent}]
TakeErrorsReq   == [kind : {"TakeErrors"}, bag : Bags]
FlashMessageReq == [kind : {"FlashMessage"}, key : Keys, val : Vals]
TakeMessagesReq == [kind : {"TakeMessages"}]

Requests == FlashErrorsReq \cup TakeErrorsReq \cup FlashMessageReq
              \cup TakeMessagesReq

\* FlashErrors returns before it touches the payload when there are no errors.
IsNoop(q) == q.kind = "FlashErrors" /\ q.val = Absent

\* Wrong variants of After, for the properties to catch: a take that forgets to
\* delete the bag, and one that leaves a nil map where a map is expected.
AfterKeepingBag(p, q) ==
  CASE q.kind = "FlashErrors"  -> [p EXCEPT !.errors[q.bag] = q.val]
    [] q.kind = "FlashMessage" -> [p EXCEPT !.messages[q.key] = q.val]
    [] q.kind = "TakeMessages" -> [p EXCEPT !.messages = NoMessages]
    [] OTHER                   -> p

AfterNilMessages(p, q) ==
  CASE q.kind = "FlashErrors"  -> [p EXCEPT !.errors[q.bag] = q.val]
    [] q.kind = "TakeErrors"   -> [p EXCEPT !.errors[q.bag] = Absent]
    [] q.kind = "FlashMessage" -> [p EXCEPT !.messages[q.key] = q.val]
    [] q.kind = "TakeMessages" -> [p EXCEPT !.messages = Absent]

\* The payload after the critical section of a call.
After(p, q) ==
  CASE q.kind = "FlashErrors"  -> [p EXCEPT !.errors[q.bag] = q.val]
    [] q.kind = "TakeErrors"   -> [p EXCEPT !.errors[q.bag] = Absent]
    [] q.kind = "FlashMessage" -> [p EXCEPT !.messages[q.key] = q.val]
    [] q.kind = "TakeMessages" -> [p EXCEPT !.messages = NoMessages]

\* Whether the critical section sets the dirty flag: a take that finds
\* nothing leaves it alone.
Dirties(p, q) ==
  \/ q.kind \in {"FlashErrors", "FlashMessage"}
  \/ q.kind = "TakeErrors" /\ p.errors[q.bag] # Absent
  \/ q.kind = "TakeMessages" /\ p.messages # NoMessages

\* What the call returns besides a nil error.
Result(p, q) ==
  CASE q.kind = "TakeErrors"   -> [errors |-> p.errors[q.bag]]
    [] q.kind = "TakeMessages" -> [messages |-> p.messages]
    [] OTHER                   -> [ok |-> TRUE]

Results == [errors : Vals \cup {Absent}] \cup [messages : Messages]
             \cup [ok : {TRUE}]
=============================================================================
