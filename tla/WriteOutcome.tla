---------------------------- MODULE WriteOutcome ----------------------------
(***************************************************************************)
(* What a provider promises of the statements submitted in the editor      *)
(* (WriteOutcome in crates/core/src/provider.rs): an error is reported     *)
(* only for a statement that never left, "applied" only for one that took  *)
(* effect, "rejected" only for one that never will. Everything else is     *)
(* "unknown", and a statement may still take effect after that report.     *)
(***************************************************************************)
CONSTANT Write

VARIABLES
    sent,       \* the statement left for the server
    effect,     \* it took effect
    report      \* what the user was told

vars == <<sent, effect, report>>

TypeOK ==
    /\ sent \in [Write -> BOOLEAN]
    /\ effect \in [Write -> BOOLEAN]
    /\ report \in [Write -> {"none", "error", "Applied", "Rejected", "Unknown"}]

Init ==
    /\ sent = [w \in Write |-> FALSE]
    /\ effect = [w \in Write |-> FALSE]
    /\ report = [w \in Write |-> "none"]

Send(w) ==
    /\ report[w] = "none"
    /\ ~sent[w]
    /\ sent' = [sent EXCEPT ![w] = TRUE]
    /\ UNCHANGED <<effect, report>>

TakeEffect(w) ==
    /\ sent[w]
    /\ ~effect[w]
    /\ report[w] \in {"none", "Unknown"}
    /\ effect' = [effect EXCEPT ![w] = TRUE]
    /\ UNCHANGED <<sent, report>>

Report(w, outcome) ==
    /\ report[w] = "none"
    /\ outcome = "error" => ~sent[w]
    /\ outcome = "Applied" => effect[w]
    /\ outcome = "Rejected" => ~effect[w]
    /\ report' = [report EXCEPT ![w] = outcome]
    /\ UNCHANGED <<sent, effect>>

Next ==
    \E w \in Write :
        \/ Send(w)
        \/ TakeEffect(w)
        \/ \E outcome \in {"error", "Applied", "Rejected", "Unknown"} : Report(w, outcome)

Spec == Init /\ [][Next]_vars

=============================================================================
