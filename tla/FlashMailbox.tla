----------------------------- MODULE FlashMailbox -----------------------------
(***************************************************************************)
(* What session.Store promises to the visits of one browser ("read-and-    *)
(* clear semantics", session/session.go:10-11): one payload, on which      *)
(* every flash and every take acts at once and exactly once.               *)
(*                                                                         *)
(* The promise ends with the first fault; BrowserSession says which faults *)
(* end it for which store, and implements this specification.              *)
(***************************************************************************)
CONSTANTS
  Visits,        \* a value names the visit that flashed it
  Bags, Keys, Absent,
  Faults         \* kinds of faults

INSTANCE FlashPayload WITH Vals <- Visits

VARIABLES
  box,     \* the payload of the browser's session
  taken,   \* taken[v]: what visit v took
  faults   \* the faults that have happened

vars == <<box, taken, faults>>

Init ==
  /\ box = EmptyPayload
  /\ taken = [v \in Visits |-> EmptyPayload]
  /\ faults = {}

TakeErrors(v, b) ==
  /\ taken' = [taken EXCEPT ![v].errors[b] = box.errors[b]]
  /\ box' = After(box, [kind |-> "TakeErrors", bag |-> b])

TakeMessages(v) ==
  /\ taken' = [taken EXCEPT ![v].messages = box.messages]
  /\ box' = After(box, [kind |-> "TakeMessages"])

FlashErrors(v, b) ==
  /\ box' = After(box, [kind |-> "FlashErrors", bag |-> b, val |-> v])
  /\ UNCHANGED taken

FlashMessage(v, k) ==
  /\ box' = After(box, [kind |-> "FlashMessage", key |-> k, val |-> v])
  /\ UNCHANGED taken

Next ==
  \/ /\ faults = {} /\ faults' = {}
     /\ \E v \in Visits :
          \/ \E b \in Bags : TakeErrors(v, b) \/ FlashErrors(v, b)
          \/ TakeMessages(v)
          \/ \E k \in Keys : FlashMessage(v, k)
  \/ /\ faults' \in (SUBSET Faults) \ {{}}   \* box' and taken' are anything
     /\ faults \subseteq faults'

Spec == Init /\ [][Next]_vars
=============================================================================
