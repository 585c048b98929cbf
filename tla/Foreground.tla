----------------------------- MODULE Foreground -----------------------------
(***************************************************************************)
(* What the foreground of onetui promises about requests, whatever the     *)
(* worker, the channels and the executor do underneath:                    *)
(*                                                                         *)
(*   - at most one request is awaited at a time, the latest one asked;     *)
(*   - an awaited request is answered at most once, and only by the result *)
(*     of its own execution;                                               *)
(*   - asking again, cancelling or navigating away abandons the awaited    *)
(*     request for good: its number is never awaited or answered again.    *)
(*                                                                         *)
(* Session.tla implements this specification.                              *)
(***************************************************************************)
EXTENDS Naturals

VARIABLES
    latest,     \* the highest request number ever used
    awaiting,   \* the request whose answer the view waits for, 0 for none
    answered    \* the last request whose result was applied to the view

vars == <<latest, awaiting, answered>>

Init ==
    /\ latest \in Nat
    /\ awaiting \in {0, latest}
    /\ answered = 0

(* A new request takes a fresh number and supersedes the awaited one.      *)
Ask ==
    /\ latest' \in Nat
    /\ latest' > latest
    /\ awaiting' = latest'
    /\ UNCHANGED answered

(* Cancelling, navigating away, or losing the connection.                  *)
Abandon ==
    /\ latest' \in Nat
    /\ latest' >= latest
    /\ awaiting' = 0
    /\ UNCHANGED answered

(* The awaited request ends, with a page or an error. A failed opening also *)
(* moves the view back to the list, which uses further numbers.            *)
Answer ==
    /\ awaiting # 0
    /\ answered' = awaiting
    /\ awaiting' = 0
    /\ latest' \in Nat
    /\ latest' >= latest

Next == Ask \/ Abandon \/ Answer

Spec == Init /\ [][Next]_vars

=============================================================================
