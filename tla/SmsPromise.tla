----------------------------- MODULE SmsPromise -----------------------------
(***************************************************************************)
(* What sms-kit promises about sending, without jobs, leases, attempts or   *)
(* processes: the acceptance a host reads from a message, and the set of    *)
(* messages whose SMS the provider sends.                                   *)
(***************************************************************************)
CONSTANT Messages

VARIABLES
    outcome,    \* send_message.acceptance_status
    sends       \* the messages the provider sends, each of them once

promise == <<outcome, sends>>

Undecided(m) == outcome[m] \in {"pending", "unknown"}

Init ==
    /\ outcome = [m \in Messages |-> "absent"]
    /\ sends = {}

Submit(m) ==
    /\ outcome[m] = "absent"
    /\ outcome' = [outcome EXCEPT ![m] = "pending"]
    /\ UNCHANGED sends

\* The provider sends a message once, and only before it has been decided.
Send(m) ==
    /\ Undecided(m)
    /\ m \notin sends
    /\ sends' = sends \cup {m}
    /\ UNCHANGED outcome

Accept(m) ==
    /\ Undecided(m)
    /\ m \in sends
    /\ outcome' = [outcome EXCEPT ![m] = "accepted"]
    /\ UNCHANGED sends

Reject(m) ==
    /\ Undecided(m)
    /\ m \notin sends
    /\ outcome' = [outcome EXCEPT ![m] = "rejected"]
    /\ UNCHANGED sends

\* A recovery batch gives up on several messages at once.
Doubt(S) ==
    /\ S # {}
    /\ \A m \in S : outcome[m] = "pending"
    /\ outcome' = [m \in Messages |-> IF m \in S THEN "unknown" ELSE outcome[m]]
    /\ UNCHANGED sends

Next ==
    \/ \E m \in Messages : Submit(m) \/ Send(m) \/ Accept(m) \/ Reject(m)
    \/ \E S \in SUBSET Messages : Doubt(S)

Spec == Init /\ [][Next]_promise
=============================================================================
