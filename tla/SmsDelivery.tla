---------------------------- MODULE SmsDelivery ----------------------------
(***************************************************************************)
(* What becomes of a message after its dispatch: ReceiptService stores the  *)
(* provider's callbacks, ReconcileService queries what no callback has      *)
(* settled, and both write the delivery status the send pipeline opened.    *)
(*                                                                          *)
(* The send pipeline appears here as SmsPromise, which SmsDispatch          *)
(* implements, extended by what its transactions write for the delivery     *)
(* side.  Every action is one transaction or one read outside of one.       *)
(***************************************************************************)
EXTENDS Integers, FiniteSets

CONSTANTS
    Messages,
    Reconcilers,        \* concurrent runBatch calls of ReconcileService
    NoMessage, NoOne,
    BatchLimit,         \* the limit of one reconciliation batch
    ReportLimit         \* bound: reports the provider pushes at the same time

ASSUME DeliveryConstants ==
    /\ NoMessage \notin Messages
    /\ NoOne \notin Reconcilers
    /\ BatchLimit \in Nat \ {0}
    /\ ReportLimit \in Nat

VARIABLES
    acceptance,     \* send_message.acceptance_status, "absent" before the insert
    sends,          \* the messages the provider sends
    attempt,        \* the status of the message's last attempt
    delivery,       \* send_message.delivery_status
    bizKnown,       \* whether provider_biz_id is stored
    job,            \* the message's reconcile job
    receipts,       \* delivery_receipt rows
    reports,        \* callbacks the provider has yet to see acknowledged
    aged,           \* messages dispatched 30 or more calendar days ago
    rec             \* what each reconciler holds in memory

sending == <<acceptance, sends, attempt, bizKnown>>
vars    == <<sending, delivery, job, receipts, reports, aged, rec>>

Promise == INSTANCE SmsPromise WITH outcome <- acceptance

-----------------------------------------------------------------------------
AcceptanceStatus == {"absent", "pending", "accepted", "rejected", "unknown"}
FinalStatus      == {"delivered", "failed", "unknown_final"}
DeliveryStatus   == FinalStatus \cup {"not_applicable", "waiting"}
ReportStatus     == {"delivered", "failed"}

Report  == [msg : Messages, status : ReportStatus]
Receipt == [msg : Messages, status : ReportStatus,
            source : {"callback", "query"}, matched : BOOLEAN]

\* A lease token is a value only its reconciler knows.  As a reconciler forgets
\* its lease of a message before it can take the next one, its name serves.
Job == [state : {"none", "pending", "leased", "succeeded", "dead"},
        owner : Reconcilers \cup {NoOne}, live : BOOLEAN]

Reconciler ==
    [pc      : {"absent", "idle", "batch", "read", "queried"},
     leases  : SUBSET Messages,
     msg     : Messages \cup {NoMessage},
     seen    : AcceptanceStatus \cup {"settled"},
     result  : ReportStatus \cup {"none"}]

Idle == [pc |-> "idle", leases |-> {}, msg |-> NoMessage, seen |-> "settled", result |-> "none"]

Absent == [Idle EXCEPT !.pc = "absent"]

Unleased(state) == [state |-> state, owner |-> NoOne, live |-> FALSE]

TypeOK ==
    /\ acceptance \in [Messages -> AcceptanceStatus]
    /\ sends \subseteq Messages
    /\ attempt \in [Messages -> {"none", "started", "accepted", "rejected", "unknown"}]
    /\ delivery \in [Messages -> DeliveryStatus]
    /\ bizKnown \in [Messages -> BOOLEAN]
    /\ job \in [Messages -> Job]
    /\ receipts \subseteq Receipt
    /\ reports \subseteq Report
    /\ aged \subseteq Messages
    /\ rec \in [Reconcilers -> Reconciler]

InitWith(crew) ==
    /\ Promise!Init
    /\ attempt = [m \in Messages |-> "none"]
    /\ delivery = [m \in Messages |-> "not_applicable"]
    /\ bizKnown = [m \in Messages |-> FALSE]
    /\ job = [m \in Messages |-> Unleased("none")]
    /\ receipts = {}
    /\ reports = {}
    /\ aged = {}
    /\ rec = [r \in Reconcilers |-> IF r \in crew THEN Idle ELSE Absent]

Init == InitWith(Reconcilers)

-----------------------------------------------------------------------------
(* The send pipeline *)

\* The delivery status completeAcceptance writes next to the acceptance.
DeliveryAfter(status, current) ==
    IF current # "not_applicable" THEN current
    ELSE IF status = "rejected" THEN "not_applicable" ELSE "waiting"

\* The rows a transaction of the send pipeline writes together with a verdict.
Conclude(S, status) ==
    /\ attempt' = [m \in Messages |-> IF m \in S THEN status ELSE attempt[m]]
    /\ delivery' = [m \in Messages |->
                      IF m \in S THEN DeliveryAfter(status, delivery[m]) ELSE delivery[m]]
    /\ UNCHANGED <<receipts, reports, aged, rec>>

EnsureReconcile(S) ==
    job' = [m \in Messages |->
              IF m \in S /\ job[m].state = "none" THEN Unleased("pending") ELSE job[m]]

Submit(m) ==
    /\ Promise!Submit(m)
    /\ attempt' = [attempt EXCEPT ![m] = "started"]
    /\ UNCHANGED <<delivery, bizKnown, job, receipts, reports, aged, rec>>

Send(m) ==
    /\ Promise!Send(m)
    /\ UNCHANGED <<attempt, delivery, bizKnown, job, receipts, reports, aged, rec>>

\* Only the provider's own answer carries the BizId that callbacks refer to.
Accept(m) ==
    /\ Promise!Accept(m)
    /\ Conclude({m}, "accepted")
    /\ bizKnown' = [bizKnown EXCEPT ![m] = TRUE]
    /\ EnsureReconcile({m})

Reject(m) ==
    /\ Promise!Reject(m)
    /\ Conclude({m}, "rejected")
    /\ UNCHANGED <<bizKnown, job>>

Doubt(S) ==
    /\ Promise!Doubt(S)
    /\ Conclude(S, "unknown")
    /\ EnsureReconcile(S)
    /\ UNCHANGED bizKnown

-----------------------------------------------------------------------------
(* ReceiptService *)

\* The provider pushes a report until it is acknowledged, and may contradict
\* itself.
PushReport(m, status) ==
    /\ m \in sends
    /\ Cardinality(reports) < ReportLimit
    /\ reports' = reports \cup {[msg |-> m, status |-> status]}
    /\ UNCHANGED <<sending, delivery, job, receipts, aged, rec>>

\* assertDeliveryTransition to a final status.
Open(status) == status \notin FinalStatus

Callback(r, matched) ==
    [msg |-> r.msg, status |-> r.status, source |-> "callback", matched |-> matched]

\* record creates the row, or promotes an unmatched row once its message is found.
NewlyMatched(B) == {r \in B : bizKnown[r.msg] /\ Callback(r, TRUE) \notin receipts}

RecordCallbacks(B) ==
    LET matched == {r \in B : bizKnown[r.msg]}
    IN  receipts' = (receipts \ {Callback(r, FALSE) : r \in matched})
                      \cup {Callback(r, TRUE) : r \in matched}
                      \cup {Callback(r, FALSE) : r \in B \ matched}

\* Mutation: the last report wins over a final status.
DeliverLast(B) ==
    \E last \in [Messages -> DeliveryStatus] :
        /\ \A m \in Messages :
              LET new == {r.status : r \in {s \in NewlyMatched(B) : s.msg = m}}
              IN  last[m] \in IF new = {} THEN {delivery[m]} ELSE new
        /\ delivery' = last

\* Of several new reports for a message the batch's first one settles it; a
\* conflict with a final status is counted and changes nothing.
DeliverFirst(B) ==
    \E first \in [Messages -> DeliveryStatus] :
        /\ \A m \in Messages :
              LET new == {r.status : r \in {s \in NewlyMatched(B) : s.msg = m}}
              IN  first[m] \in IF new = {} \/ ~Open(delivery[m]) THEN {delivery[m]} ELSE new
        /\ delivery' = first

\* One transaction for the batch; its acknowledgement may miss the deadline or
\* be lost, and the provider pushes the batch again.
Ingest(B, acknowledged) ==
    /\ B # {}
    /\ RecordCallbacks(B)
    /\ DeliverFirst(B)
    /\ reports' = IF acknowledged THEN reports \ B ELSE reports
    /\ UNCHANGED <<sending, job, aged, rec>>

-----------------------------------------------------------------------------
(* ReconcileService *)

\* Mutation: nobody takes over a job whose lease has run out.
LeasableOnce(m) ==
    /\ job[m].state = "pending"
    /\ acceptance[m] \in {"accepted", "unknown"}
    /\ delivery[m] # "not_applicable"

\* leaseReconciliation: a pending job, or one whose lease has run out.
Leasable(m) ==
    /\ job[m].state = "pending" \/ (job[m].state = "leased" /\ ~job[m].live)
    /\ acceptance[m] \in {"accepted", "unknown"}
    /\ delivery[m] # "not_applicable"

LeaseReconciliation(r, S) ==
    /\ rec[r].pc = "idle"
    /\ S # {} /\ Cardinality(S) <= BatchLimit
    /\ \A m \in S : Leasable(m)
    /\ job' = [m \in Messages |->
                 IF m \in S THEN [state |-> "leased", owner |-> r, live |-> TRUE] ELSE job[m]]
    /\ rec' = [rec EXCEPT ![r] = [Idle EXCEPT !.pc = "batch", !.leases = S]]
    /\ UNCHANGED <<sending, delivery, receipts, reports, aged>>

Reconcilable(a, d) == a \in {"accepted", "unknown"} /\ d = "waiting"

\* The message is read outside of any transaction and used after other awaits.
ReadMessage(r, m) ==
    /\ rec[r].pc = "batch"
    /\ m \in rec[r].leases
    /\ rec' = [rec EXCEPT
                 ![r].pc = "read",
                 ![r].msg = m,
                 ![r].seen = IF Reconcilable(acceptance[m], delivery[m]) THEN acceptance[m]
                                                                         ELSE "settled"]
    /\ UNCHANGED <<sending, delivery, job, receipts, reports, aged>>

OwnsLease(r, m) == job[m].state = "leased" /\ job[m].owner = r

\* renew at the head of a transaction fences everything behind it.
HoldsLiveLease(r, m) == OwnsLease(r, m) /\ job[m].live

\* The batch goes on with its next job, or ends.
NextJob(r) ==
    LET rest == rec[r].leases \ {rec[r].msg}
    IN  rec' = [rec EXCEPT ![r] =
                  IF rest = {} THEN Idle ELSE [Idle EXCEPT !.pc = "batch", !.leases = rest]]

TryCloseJob(r, m, state) ==
    job' = IF OwnsLease(r, m) THEN [job EXCEPT ![m] = Unleased(state)] ELSE job

\* Nothing is left to reconcile: trySucceed.
CloseSettled(r) ==
    /\ rec[r].pc = "read" /\ rec[r].seen = "settled"
    /\ TryCloseJob(r, rec[r].msg, "succeeded")
    /\ NextJob(r)
    /\ UNCHANGED <<sending, delivery, receipts, reports, aged>>

\* Mutation: a job that cannot be reconciled now is given up.
GiveUp(r) ==
    /\ rec[r].pc = "read" /\ rec[r].seen # "settled"
    /\ rec[r].seen = attempt[rec[r].msg] => rec[r].msg \notin aged
    /\ TryCloseJob(r, rec[r].msg, "succeeded")
    /\ NextJob(r)
    /\ UNCHANGED <<sending, delivery, receipts, reports, aged>>

\* The attempt contradicts the message, the configuration is not ready, the
\* phone cannot be opened, the provider gives no answer or has no record.
Defer(r) ==
    /\ rec[r].pc = "read" /\ rec[r].seen # "settled"
    /\ rec[r].seen = attempt[rec[r].msg] => rec[r].msg \notin aged
    /\ TryCloseJob(r, rec[r].msg, "pending")
    /\ NextJob(r)
    /\ UNCHANGED <<sending, delivery, receipts, reports, aged>>

\* Thirty days without a receipt.  A lost lease or a concurrent callback rolls
\* the transaction back, and the error is swallowed.
FinalizeUnknown(r) ==
    LET m == rec[r].msg
    IN  /\ rec[r].pc = "read" /\ rec[r].seen # "settled"
        /\ rec[r].seen = attempt[m]
        /\ m \in aged
        /\ IF HoldsLiveLease(r, m) /\ Open(delivery[m])
             THEN /\ delivery' = [delivery EXCEPT ![m] = "unknown_final"]
                  /\ job' = [job EXCEPT ![m] = Unleased("succeeded")]
             ELSE UNCHANGED <<delivery, job>>
        /\ NextJob(r)
        /\ UNCHANGED <<sending, receipts, reports, aged>>

\* Mutation: any record of the phone number and date counts as this message.
QueryAnyRecord(r, status) ==
    /\ rec[r].pc = "read" /\ rec[r].seen # "settled"
    /\ rec[r].seen = attempt[rec[r].msg]
    /\ rec[r].msg \notin aged
    /\ rec' = [rec EXCEPT ![r].pc = "queried", ![r].result = status]
    /\ UNCHANGED <<sending, delivery, job, receipts, reports, aged>>

\* The query finds a final record with the message's own out_id.
QueryDelivery(r, status) ==
    /\ rec[r].pc = "read" /\ rec[r].seen # "settled"
    /\ rec[r].seen = attempt[rec[r].msg]
    /\ rec[r].msg \notin aged
    /\ rec[r].msg \in sends
    /\ rec' = [rec EXCEPT ![r].pc = "queried", ![r].result = status]
    /\ UNCHANGED <<sending, delivery, job, receipts, reports, aged>>

\* A positive record settles the delivery and an unknown acceptance at once.
CompleteQueryDelivery(m, status) ==
    /\ Reconcilable(acceptance[m], delivery[m])
    /\ acceptance' = [acceptance EXCEPT ![m] = "accepted"]
    /\ delivery' = [delivery EXCEPT ![m] = status]

RecordResult(r) ==
    LET m == rec[r].msg
    IN  /\ rec[r].pc = "queried"
        /\ HoldsLiveLease(r, m)
        /\ receipts' = receipts \cup
              {[msg |-> m, status |-> rec[r].result, source |-> "query", matched |-> TRUE]}
        /\ CompleteQueryDelivery(m, rec[r].result)
        /\ job' = [job EXCEPT ![m] = Unleased("succeeded")]
        /\ NextJob(r)
        /\ UNCHANGED <<sends, attempt, bizKnown, reports, aged>>

\* The lease is lost or a callback came first: the transaction rolls back and
\* its error ends the batch with the jobs it has not yet reached.
AbortResult(r) ==
    /\ rec[r].pc = "queried"
    /\ \/ ~HoldsLiveLease(r, rec[r].msg)
       \/ ~Reconcilable(acceptance[rec[r].msg], delivery[rec[r].msg])
    /\ rec' = [rec EXCEPT ![r] = Idle]
    /\ UNCHANGED <<sending, delivery, job, receipts, reports, aged>>

-----------------------------------------------------------------------------
(* applyRetention: after ninety days what is left of a message is settled. *)

\* Mutation: only what becomes unknown now ceases to wait.
EndsWaitOfPending(m) == acceptance[m] = "pending"

EndsWait(m) == delivery[m] = "waiting" \/ acceptance[m] = "pending"

KillJob(m) ==
    job' = IF job[m].state \in {"pending", "leased"} THEN [job EXCEPT ![m] = Unleased("dead")]
                                                     ELSE job

\* Whether an old message is ninety days old is left open.  A lease that has not
\* run out keeps it for a later run; what is pending here has been dispatched.
Retain(m) ==
    /\ m \in aged
    /\ ~(job[m].state = "leased" /\ job[m].live)
    /\ IF acceptance[m] = "pending" THEN Promise!Doubt({m}) ELSE UNCHANGED <<acceptance, sends>>
    /\ attempt' = IF attempt[m] = "started" THEN [attempt EXCEPT ![m] = "unknown"] ELSE attempt
    /\ delivery' = IF EndsWait(m) THEN [delivery EXCEPT ![m] = "unknown_final"] ELSE delivery
    /\ KillJob(m)
    /\ UNCHANGED <<bizKnown, receipts, reports, aged, rec>>

-----------------------------------------------------------------------------
(* Time and faults *)

Age(m) ==
    /\ attempt[m] # "none" /\ m \notin aged
    /\ aged' = aged \cup {m}
    /\ UNCHANGED <<sending, delivery, job, receipts, reports, rec>>

ExpireLease(m) ==
    /\ job[m].state = "leased" /\ job[m].live
    /\ job' = [job EXCEPT ![m].live = FALSE]
    /\ UNCHANGED <<sending, delivery, receipts, reports, aged, rec>>

Crash(r) ==
    /\ rec[r].pc \notin {"absent", "idle"}
    /\ rec' = [rec EXCEPT ![r] = Idle]
    /\ UNCHANGED <<sending, delivery, job, receipts, reports, aged>>

-----------------------------------------------------------------------------
PipelineStep ==
    \/ \E m \in Messages : Submit(m) \/ Send(m) \/ Accept(m) \/ Reject(m)
    \/ \E S \in SUBSET Messages : Doubt(S)

CallbackStep ==
    \/ \E m \in Messages, status \in ReportStatus : PushReport(m, status)
    \/ \E B \in SUBSET reports, acknowledged \in BOOLEAN : Ingest(B, acknowledged)

ReconcilerStep(r) ==
    \/ \E S \in SUBSET Messages : LeaseReconciliation(r, S)
    \/ \E m \in Messages : ReadMessage(r, m)
    \/ CloseSettled(r) \/ Defer(r) \/ FinalizeUnknown(r)
    \/ \E status \in ReportStatus : QueryDelivery(r, status)
    \/ RecordResult(r) \/ AbortResult(r)

Next ==
    \/ PipelineStep
    \/ CallbackStep
    \/ \E r \in Reconcilers : ReconcilerStep(r) \/ Crash(r)
    \/ \E m \in Messages : Retain(m) \/ Age(m) \/ ExpireLease(m)

Spec == Init /\ [][Next]_vars
-----------------------------------------------------------------------------
(* Properties *)

\* Whatever order answers, callbacks, queries and their retries come in, nothing
\* moves backward: a decision stands, doubt never returns to pending, the first
\* final delivery status wins, and a message that waits keeps waiting until then.
StatusesNeverRegress ==
    [][\A m \in Messages :
          /\ acceptance[m] \in {"accepted", "rejected"} => acceptance'[m] = acceptance[m]
          /\ acceptance[m] = "unknown" => acceptance'[m] # "pending"
          /\ delivery[m] \in FinalStatus => delivery'[m] = delivery[m]
          /\ delivery[m] = "waiting" => delivery'[m] # "not_applicable"]_vars

Matched(m) == {c \in receipts : c.msg = m /\ c.matched}

\* A receipt row is matched in the transaction that settles its message, so the
\* delivery status of a message and its matched receipts always explain each
\* other, a query is recorded only if it decided, and no callback is stored twice.
ReceiptsExplainDelivery ==
    \A m \in Messages :
        /\ delivery[m] \in ReportStatus => \E c \in Matched(m) : c.status = delivery[m]
        /\ Matched(m) # {} => delivery[m] \in FinalStatus
        /\ \A c \in Matched(m) :
              /\ c.source = "query" => c.status = delivery[m]
              /\ [c EXCEPT !.matched = FALSE] \notin receipts

\* A message that was reported delivered or failed is an accepted message that
\* the provider really sends, however its acceptance was lost on the way.
ReportedWasAccepted ==
    \A m \in Messages :
        delivery[m] \in ReportStatus => acceptance[m] = "accepted" /\ m \in sends

\* Every message that waits for the operator keeps a reconcile job that can
\* still run, although reconcilers lose leases, crash and act on stale reads.
WaitingIsWatched ==
    \A m \in Messages :
        Reconcilable(acceptance[m], delivery[m]) => job[m].state \in {"pending", "leased"}

\* The rows of a message, its delivery and its job start together with the verdict;
\* only the provider's own answer, which names an SMS it sends, brings a BizId.
RowsAgree ==
    \A m \in Messages :
        /\ acceptance[m] \in {"absent", "pending"} =>
              delivery[m] = "not_applicable" /\ job[m].state = "none"
        /\ acceptance[m] \in {"accepted", "unknown"} => delivery[m] # "not_applicable"
        /\ acceptance[m] = "accepted" => m \in sends
        /\ bizKnown[m] => acceptance[m] = "accepted"
        /\ \A c \in receipts : c.msg = m /\ c.source = "callback" /\ c.matched => bizKnown[m]
        /\ \A c \in receipts : c.msg = m /\ c.source = "query" => c.matched

\* What a reconciler has read may be stale, and still stays true as far as it acts
\* on it: a settled message stays settled, a record that was found stays one.
ReadsStayTrue ==
    \A r \in Reconcilers :
        /\ \A m \in rec[r].leases : acceptance[m] \notin {"absent", "pending"}
        /\ rec[r].pc \in {"read", "queried"} => rec[r].msg \in rec[r].leases
        /\ rec[r].pc = "read" /\ rec[r].seen = "settled" =>
              acceptance[rec[r].msg] = "rejected" \/ delivery[rec[r].msg] \in FinalStatus
        /\ rec[r].pc = "queried" => rec[r].result \in ReportStatus /\ rec[r].msg \in sends

\* What holds of messages, receipts and reconcile jobs together at any time.
DeliveryInv ==
    /\ TypeOK /\ RowsAgree /\ ReadsStayTrue
    /\ ReceiptsExplainDelivery /\ ReportedWasAccepted /\ WaitingIsWatched

\* Queries decide an unknown acceptance only as SmsPromise allows.
ImplementsPromise == Promise!Spec

-----------------------------------------------------------------------------
(* Liveness *)

\* The scheduled task keeps running reconcilers, leases run out, days pass.
Fairness ==
    /\ \A r \in Reconcilers : WF_vars(ReconcilerStep(r))
    /\ \A m \in Messages : WF_vars(ExpireLease(m)) /\ WF_vars(Age(m))

FairSpec == Spec /\ Fairness

\* A reconciler is lost, or outlives the lease of a job it still has to reach.
Fault ==
    \/ \E r \in Reconcilers : Crash(r)
    \/ \E r \in Reconcilers, m \in Messages :
          ExpireLease(m) /\ OwnsLease(r, m) /\ m \in rec[r].leases

\* Once faults stop, no message waits for the operator for ever, even if no
\* callback ever comes and the provider never answers a query.
WaitingEnds ==
    <>[][~Fault]_vars =>
        \A m \in Messages :
            delivery[m] = "waiting" ~> delivery[m] # "waiting" \/ acceptance[m] = "rejected"
=============================================================================
