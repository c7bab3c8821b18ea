---------------------------- MODULE SmsDispatch ----------------------------
(***************************************************************************)
(* The send pipeline of sms-kit: SendService stores a message (and, for a   *)
(* notification, its send job), SendWorker leases jobs, commits a dispatch  *)
(* marker and only then calls the provider, and DispatchRecoveryService     *)
(* turns what a lost process left behind into an unknown acceptance.        *)
(*                                                                          *)
(* Every action is one database transaction or one step outside of a        *)
(* transaction.  PostgreSQL serialises the transactions by row locks; the   *)
(* processes interleave between them, may stall for ever, and may be lost.  *)
(*                                                                          *)
(* A message stands for its idempotency key, so repeating a request finds   *)
(* the stored message and changes nothing.  Attempt n of message m carries  *)
(* the dispatch token <<m, n>>.                                             *)
(***************************************************************************)
EXTENDS Integers, Sequences, FiniteSets

CONSTANTS
    Notifications,      \* messages stored by enqueueNotification, sent by workers
    Otps,               \* messages stored and sent by sendOtpNow
    Workers,            \* concurrent runBatch loops of SendWorker
    Callers,            \* concurrent sendOtpNow calls
    LeaseTokens,        \* values of lease_token
    NoMessage, NoToken,
    MaxAttempts,        \* send_job.max_attempts
    SystemDailyBudget,  \* policy_config.system_daily_budget
    LastDay,            \* bound: the model's calendar is 0 .. LastDay
    OldMessages,        \* bound: the messages that grow ninety days old
    RecoveryLimit       \* the limit of one recovery batch

Messages  == Notifications \cup Otps
Processes == Workers \cup Callers
Days      == 0 .. LastDay

ASSUME DispatchConstants ==
    /\ Notifications \cap Otps = {}
    /\ Workers \cap Callers = {}
    /\ NoMessage \notin Messages
    /\ NoToken \notin LeaseTokens
    /\ MaxAttempts \in Nat \ {0}
    /\ SystemDailyBudget \in Nat
    /\ LastDay \in Nat
    /\ OldMessages \subseteq Messages
    /\ RecoveryLimit \in Nat

VARIABLES
    acceptance,     \* send_message.acceptance_status, "absent" before the insert
    delivery,       \* send_message.delivery_status
    params,         \* whether the row still holds the sealed render parameters
    job,            \* the message's send_job row
    attempts,       \* the message's send_attempt rows, by attempt_no
    reservation,    \* the message's send_budget_reservation row
    heldCount,      \* daily_send_budget.held_count
    reconcile,      \* whether the message's reconcile job exists
    day,            \* today
    circuitOpen,    \* policy_config.circuit_open
    proc,           \* what each worker or caller holds in memory
    inflight,       \* requests the provider has neither taken nor refused
    taken,          \* requests the provider has taken: it sends the SMS
    refused         \* requests the provider has refused

message  == <<acceptance, delivery, params>>
budget   == <<reservation, heldCount>>
policy   == <<day, circuitOpen>>
provider == <<inflight, taken, refused>>
vars     == <<message, job, attempts, budget, reconcile, policy, proc, provider>>

-----------------------------------------------------------------------------
AcceptanceStatus == {"pending", "accepted", "rejected", "unknown"}
DeliveryStatus   == {"not_applicable", "waiting", "delivered", "failed", "unknown_final"}
AttemptStatus    == {"started", "accepted", "rejected", "unknown"}
JobState         == {"none", "pending", "leased", "succeeded", "dead"}

\* "throttled" is a rejection the provider reports as retryable.
Replies == {"accepted", "rejected", "throttled", "unknown"}

Job == [state : JobState, token : LeaseTokens \cup {NoToken}, live : BOOLEAN, count : Nat]

Attempt == [status : AttemptStatus, token : LeaseTokens \cup {NoToken}]

Reservation == [state : {"none", "held", "released"}, day : Days]

Process ==
    [pc    : {"idle", "leased", "marked", "opened", "sent", "answered"},
     msg   : Messages \cup {NoMessage},
     token : LeaseTokens \cup {NoToken},
     count : Nat,
     no    : Nat,
     reply : Replies \cup {"none"}]

Idle == [pc |-> "idle", msg |-> NoMessage, token |-> NoToken, count |-> 0,
         no |-> 0, reply |-> "none"]

TypeOK ==
    /\ acceptance \in [Messages -> AcceptanceStatus \cup {"absent"}]
    /\ delivery \in [Messages -> DeliveryStatus]
    /\ params \in [Messages -> BOOLEAN]
    /\ job \in [Notifications -> Job]
    /\ attempts \in [Messages -> Seq(Attempt)]
    /\ reservation \in [Messages -> Reservation]
    /\ heldCount \in [Days -> Nat]
    /\ reconcile \in [Messages -> BOOLEAN]
    /\ day \in Days
    /\ circuitOpen \in BOOLEAN
    /\ proc \in [Processes -> Process]
    /\ inflight \subseteq Messages \X (Nat \ {0})
    /\ taken \subseteq Messages \X (Nat \ {0})
    /\ refused \subseteq Messages \X (Nat \ {0})

Init ==
    /\ acceptance = [m \in Messages |-> "absent"]
    /\ delivery = [m \in Messages |-> "not_applicable"]
    /\ params = [m \in Messages |-> FALSE]
    /\ job = [m \in Notifications |->
                [state |-> "none", token |-> NoToken, live |-> FALSE, count |-> 0]]
    /\ attempts = [m \in Messages |-> <<>>]
    /\ reservation = [m \in Messages |-> [state |-> "none", day |-> 0]]
    /\ heldCount = [d \in Days |-> 0]
    /\ reconcile = [m \in Messages |-> FALSE]
    /\ day = 0
    /\ circuitOpen = FALSE
    /\ proc = [p \in Processes |-> Idle]
    /\ inflight = {}
    /\ taken = {}
    /\ refused = {}

-----------------------------------------------------------------------------
(* The rows of one message *)

HasStarted(m) == \E n \in DOMAIN attempts[m] : attempts[m][n].status = "started"

Unleased(state, count) ==
    [state |-> state, token |-> NoToken, live |-> FALSE, count |-> count]

\* The job row still carries this lease (expired or not).
OwnsLease(m, t) == m \in Notifications /\ job[m].state = "leased" /\ job[m].token = t

\* renew and createStarted also require lease_until to lie in the future.
HoldsLiveLease(m, t) == OwnsLease(m, t) /\ job[m].live

\* assertAcceptanceTransition for the evidence "same-dispatch-response".
AcceptanceTransition(from, to) ==
    \/ from = "pending" /\ to \in {"accepted", "rejected", "unknown"}
    \/ from = "unknown" /\ to \in {"accepted", "rejected"}

\* The delivery status completeAcceptance writes next to the acceptance.
DeliveryAfter(status, current) ==
    IF current # "not_applicable" THEN current
    ELSE IF status = "rejected" THEN "not_applicable" ELSE "waiting"

CompleteAcceptance(S, status) ==
    /\ \A m \in S : AcceptanceTransition(acceptance[m], status)
    /\ acceptance' = [m \in Messages |-> IF m \in S THEN status ELSE acceptance[m]]
    /\ delivery' = [m \in Messages |->
                      IF m \in S THEN DeliveryAfter(status, delivery[m]) ELSE delivery[m]]

ClearRenderParams(S) == params' = [m \in Messages |-> m \notin S /\ params[m]]

\* Mutation: an existing message never gets its reconcile job.
SkipReconcile(S) == S # {} /\ UNCHANGED reconcile

EnsureReconcile(S) == reconcile' = [m \in Messages |-> m \in S \/ reconcile[m]]

\* completeByDispatchToken: an unknown attempt still takes a later verdict.
CompleteAttempt(m, n, status) ==
    /\ \/ attempts[m][n].status = "started"
       \/ attempts[m][n].status = "unknown" /\ status \in {"accepted", "rejected"}
    /\ attempts' = [attempts EXCEPT ![m][n].status = status]

\* The worker skips the update of an attempt that already carries the verdict.
EnsureAttempt(m, n, status) ==
    \/ attempts[m][n].status = status /\ UNCHANGED attempts
    \/ attempts[m][n].status # status /\ CompleteAttempt(m, n, status)

\* The dispatch markers without a verdict get the verdict "unknown".
CloseMarkers(S) ==
    attempts' = [m \in Messages |->
                   IF m \in S
                     THEN [n \in DOMAIN attempts[m] |->
                             IF attempts[m][n].status = "started"
                               THEN [attempts[m][n] EXCEPT !.status = "unknown"]
                               ELSE attempts[m][n]]
                     ELSE attempts[m]]

CreateStarted(m, t) ==
    /\ ~HasStarted(m)
    /\ attempts' = [attempts EXCEPT ![m] = Append(@, [status |-> "started", token |-> t])]

\* Mutation: every attempt reserves again.
HoldBudgetPerAttempt(m) ==
    /\ ~circuitOpen
    /\ heldCount[day] < SystemDailyBudget
    /\ reservation' = [reservation EXCEPT ![m] = [state |-> "held", day |-> day]]
    /\ heldCount' = [heldCount EXCEPT ![day] = @ + 1]

\* One reservation per message, taken out of the day of the first call.
HoldBudget(m) ==
    /\ ~circuitOpen
    /\ \/ /\ reservation[m].state # "none"
          /\ UNCHANGED budget
       \/ /\ reservation[m].state = "none"
          /\ heldCount[day] < SystemDailyBudget
          /\ reservation' = [reservation EXCEPT ![m] = [state |-> "held", day |-> day]]
          /\ heldCount' = [heldCount EXCEPT ![day] = @ + 1]

ReleaseBudget(m) ==
    \/ /\ reservation[m].state # "held"
       /\ UNCHANGED budget
    \/ /\ reservation[m].state = "held"
       /\ reservation' = [reservation EXCEPT ![m].state = "released"]
       /\ heldCount' = [heldCount EXCEPT ![reservation[m].day] = IF @ > 0 THEN @ - 1 ELSE @]

Become(p, task) == proc' = [proc EXCEPT ![p] = task]

-----------------------------------------------------------------------------
(* SendService *)

\* enqueueNotification: the message and its send job, in one transaction.
EnqueueNotification(m) ==
    /\ acceptance[m] = "absent"
    /\ acceptance' = [acceptance EXCEPT ![m] = "pending"]
    /\ params' = [params EXCEPT ![m] = TRUE]
    /\ job' = [job EXCEPT ![m] = Unleased("pending", 0)]
    /\ UNCHANGED <<delivery, attempts, budget, reconcile, policy, proc, provider>>

\* sendOtpNow up to its commit: message, reservation and dispatch marker.
SendOtpNow(c, m) ==
    /\ proc[c].pc = "idle"
    /\ acceptance[m] = "absent"
    /\ acceptance' = [acceptance EXCEPT ![m] = "pending"]
    /\ HoldBudget(m)
    /\ CreateStarted(m, NoToken)
    /\ Become(c, [Idle EXCEPT !.pc = "opened", !.msg = m, !.no = Len(attempts[m]) + 1])
    /\ UNCHANGED <<delivery, params, job, reconcile, policy, provider>>

\* sendOtpNow hands the request to the provider; nothing re-reads the message.
DispatchOtp(c) ==
    /\ proc[c].pc = "opened"
    /\ inflight' = inflight \cup {<<proc[c].msg, proc[c].no>>}
    /\ proc' = [proc EXCEPT ![c].pc = "sent"]
    /\ UNCHANGED <<message, job, attempts, budget, reconcile, policy, taken, refused>>

\* complete of SendService; a transition the message refuses rolls it back.
CompleteOtp(c) ==
    LET m == proc[c].msg
        n == proc[c].no
        status == IF proc[c].reply \in {"rejected", "throttled"} THEN "rejected" ELSE proc[c].reply
    IN  /\ proc[c].pc = "answered"
        /\ Become(c, Idle)
        /\ \/ /\ CompleteAcceptance({m}, status)
              /\ CompleteAttempt(m, n, status)
              /\ IF status = "rejected"
                   THEN ReleaseBudget(m) /\ UNCHANGED reconcile
                   ELSE EnsureReconcile({m}) /\ UNCHANGED budget
              /\ UNCHANGED <<params, job, policy, provider>>
           \/ /\ ~AcceptanceTransition(acceptance[m], status)
              /\ UNCHANGED <<message, job, attempts, budget, reconcile, policy, provider>>

-----------------------------------------------------------------------------
(* SendWorker *)

\* A new lease_token is random: it stands for a value nobody still holds for m.
FreshToken(m, t) ==
    /\ \A w \in Workers : proc[w].msg = m => proc[w].token # t
    /\ \A n \in DOMAIN attempts[m] : attempts[m][n].status = "started" => attempts[m][n].token # t

Lease(w, m, t) ==
    /\ proc[w].pc = "idle"
    /\ job[m].state = "pending"
    /\ FreshToken(m, t)
    /\ job' = [job EXCEPT ![m] = [@ EXCEPT !.state = "leased", !.token = t, !.live = TRUE]]
    /\ Become(w, [Idle EXCEPT !.pc = "leased", !.msg = m, !.token = t, !.count = job[m].count])
    /\ UNCHANGED <<message, attempts, budget, reconcile, policy, provider>>

\* runJob's first transaction with a usable template and signature.
MarkDispatch(w) ==
    LET m == proc[w].msg
        t == proc[w].token
    IN  /\ proc[w].pc = "leased"
        /\ HoldsLiveLease(m, t)
        /\ acceptance[m] = "pending"
        /\ HoldBudget(m)
        /\ CreateStarted(m, t)
        /\ proc' = [proc EXCEPT ![w].pc = "marked", ![w].no = Len(attempts[m]) + 1]
        /\ UNCHANGED <<message, job, reconcile, policy, provider>>

\* The same transaction when the template or the signature is no longer usable.
RejectUndispatched(w) ==
    LET m == proc[w].msg
        t == proc[w].token
    IN  /\ proc[w].pc = "leased"
        /\ HoldsLiveLease(m, t)
        /\ acceptance[m] = "pending"
        /\ \A n \in DOMAIN attempts[m] : attempts[m][n].status = "rejected"
        /\ acceptance' = [acceptance EXCEPT ![m] = "rejected"]
        /\ delivery' = [delivery EXCEPT ![m] = "not_applicable"]
        /\ ClearRenderParams({m})
        /\ ReleaseBudget(m)
        /\ job' = [job EXCEPT ![m] = Unleased("dead", @.count)]
        /\ Become(w, Idle)
        /\ UNCHANGED <<attempts, reconcile, policy, provider>>

\* The transaction throws and rolls back: the job keeps its lease until it expires.
AbortMark(w) ==
    LET m == proc[w].msg
    IN  /\ proc[w].pc = "leased"
        /\ \/ ~HoldsLiveLease(m, proc[w].token)
           \/ acceptance[m] # "pending"
           \/ HasStarted(m)
           \/ circuitOpen
           \/ reservation[m].state = "none" /\ heldCount[day] >= SystemDailyBudget
        /\ Become(w, Idle)
        /\ UNCHANGED <<message, job, attempts, budget, reconcile, policy, provider>>

\* openProviderInput reads the sealed parameters and the configuration.
OpenProviderInput(w) ==
    /\ proc[w].pc = "marked"
    /\ params[proc[w].msg]
    /\ proc' = [proc EXCEPT ![w].pc = "opened"]
    /\ UNCHANGED <<message, job, attempts, budget, reconcile, policy, provider>>

\* Configuration not ready, parameters gone, or decryption failed.
AbortOpen(w) ==
    /\ proc[w].pc = "marked"
    /\ Become(w, Idle)
    /\ UNCHANGED <<message, job, attempts, budget, reconcile, policy, provider>>

\* Mutation: the request leaves without the second renew.
DispatchUnfenced(w) ==
    /\ proc[w].pc = "opened"
    /\ inflight' = inflight \cup {<<proc[w].msg, proc[w].no>>}
    /\ proc' = [proc EXCEPT ![w].pc = "sent"]
    /\ UNCHANGED <<message, job, attempts, budget, reconcile, policy, taken, refused>>

\* The second renew fences the request that follows it without another await.
Dispatch(w) ==
    /\ proc[w].pc = "opened"
    /\ HoldsLiveLease(proc[w].msg, proc[w].token)
    /\ inflight' = inflight \cup {<<proc[w].msg, proc[w].no>>}
    /\ proc' = [proc EXCEPT ![w].pc = "sent"]
    /\ UNCHANGED <<message, job, attempts, budget, reconcile, policy, taken, refused>>

AbortDispatch(w) ==
    /\ proc[w].pc = "opened"
    /\ ~HoldsLiveLease(proc[w].msg, proc[w].token)
    /\ Become(w, Idle)
    /\ UNCHANGED <<message, job, attempts, budget, reconcile, policy, provider>>

CompleteJob(m, t, row) ==
    job' = IF OwnsLease(m, t) THEN [job EXCEPT ![m] = row] ELSE job

Settle(p) ==
    /\ Become(p, Idle)
    /\ UNCHANGED <<policy, provider>>

\* An acceptance counts unless the message has already been decided.
CompleteAccepted(w) ==
    LET m == proc[w].msg
    IN  /\ proc[w].pc = "answered" /\ proc[w].reply = "accepted"
        /\ acceptance[m] \notin {"accepted", "rejected"}
        /\ CompleteAcceptance({m}, "accepted")
        /\ EnsureAttempt(m, proc[w].no, "accepted")
        /\ ClearRenderParams({m})
        /\ EnsureReconcile({m})
        /\ CompleteJob(m, proc[w].token, Unleased("succeeded", job[m].count))
        /\ UNCHANGED budget
        /\ Settle(w)

\* Mutation: a timeout is retried as if it were a retryable rejection.
RetryUnknown(w) ==
    LET m == proc[w].msg
    IN  /\ proc[w].pc = "answered" /\ proc[w].reply = "unknown"
        /\ acceptance[m] = "pending"
        /\ CompleteAttempt(m, proc[w].no, "rejected")
        /\ CompleteJob(m, proc[w].token, Unleased("pending", job[m].count + 1))
        /\ UNCHANGED <<message, budget, reconcile>>
        /\ Settle(w)

\* A timeout adds nothing to what recovery has already recorded.
CompleteUnknown(w) ==
    LET m == proc[w].msg
    IN  /\ proc[w].pc = "answered" /\ proc[w].reply = "unknown"
        /\ acceptance[m] = "pending"
        /\ attempts[m][proc[w].no].status = "started"
        /\ CompleteAcceptance({m}, "unknown")
        /\ CompleteAttempt(m, proc[w].no, "unknown")
        /\ ClearRenderParams({m})
        /\ EnsureReconcile({m})
        /\ CompleteJob(m, proc[w].token, Unleased("succeeded", job[m].count))
        /\ UNCHANGED budget
        /\ Settle(w)

\* Mutation: the attempt that has just been made is not counted.
ExhaustedTooLate(w) == proc[w].count >= MaxAttempts

\* exhausted is computed from the attempt_count the lease returned.
Exhausted(w) == proc[w].count + 1 >= MaxAttempts

MustFinalize(w) ==
    \/ proc[w].reply = "rejected"
    \/ Exhausted(w)
    \/ acceptance[proc[w].msg] = "unknown"
    \/ ~OwnsLease(proc[w].msg, proc[w].token)

CompleteRejected(w) ==
    LET m == proc[w].msg
    IN  /\ proc[w].pc = "answered" /\ proc[w].reply \in {"rejected", "throttled"}
        /\ acceptance[m] \notin {"accepted", "rejected"}
        /\ MustFinalize(w)
        /\ CompleteAcceptance({m}, "rejected")
        /\ EnsureAttempt(m, proc[w].no, "rejected")
        /\ ClearRenderParams({m})
        /\ ReleaseBudget(m)
        /\ CompleteJob(m, proc[w].token, Unleased("dead", job[m].count))
        /\ UNCHANGED reconcile
        /\ Settle(w)

\* The job is locked and owned, so tryReschedule cannot lose the lease here.
Reschedule(w) ==
    LET m == proc[w].msg
    IN  /\ proc[w].pc = "answered" /\ proc[w].reply \in {"rejected", "throttled"}
        /\ acceptance[m] \notin {"accepted", "rejected"}
        /\ ~MustFinalize(w)
        /\ CompleteAttempt(m, proc[w].no, "rejected")
        /\ job' = [job EXCEPT ![m] = Unleased("pending", @.count + 1)]
        /\ UNCHANGED <<message, budget, reconcile>>
        /\ Settle(w)

\* The early returns of complete: the answer comes too late to say anything new.
DropAnswer(w) ==
    LET m == proc[w].msg
    IN  /\ proc[w].pc = "answered"
        /\ \/ proc[w].reply # "unknown" /\ acceptance[m] \in {"accepted", "rejected"}
           \/ /\ proc[w].reply = "unknown"
              /\ \/ acceptance[m] # "pending"
                 \/ attempts[m][proc[w].no].status # "started"
        /\ UNCHANGED <<message, job, attempts, budget, reconcile>>
        /\ Settle(w)

-----------------------------------------------------------------------------
(* The provider and its client: one request, no transparent retry. *)

ProviderTakes(r) ==
    /\ r \in inflight
    /\ inflight' = inflight \ {r}
    /\ taken' = taken \cup {r}
    /\ UNCHANGED <<message, job, attempts, budget, reconcile, policy, proc, refused>>

ProviderRefuses(r) ==
    /\ r \in inflight
    /\ inflight' = inflight \ {r}
    /\ refused' = refused \cup {r}
    /\ UNCHANGED <<message, job, attempts, budget, reconcile, policy, proc, taken>>

\* Mutation: an undecided request is reported as rejected.
ReceiveTimeoutAsRejection(p, reply) ==
    /\ proc[p].pc = "sent"
    /\ \/ reply = "accepted" /\ <<proc[p].msg, proc[p].no>> \in taken
       \/ reply # "accepted"
    /\ proc' = [proc EXCEPT ![p].pc = "answered", ![p].reply = reply]
    /\ UNCHANGED <<message, job, attempts, budget, reconcile, policy, provider>>

Receive(p, reply) ==
    /\ proc[p].pc = "sent"
    /\ \/ reply = "accepted" /\ <<proc[p].msg, proc[p].no>> \in taken
       \/ reply \in {"rejected", "throttled"} /\ <<proc[p].msg, proc[p].no>> \in refused
       \/ reply = "unknown"
    /\ proc' = [proc EXCEPT ![p].pc = "answered", ![p].reply = reply]
    /\ UNCHANGED <<message, job, attempts, budget, reconcile, policy, provider>>

-----------------------------------------------------------------------------
(* DispatchRecoveryService.runBatch: one transaction over the jobs and       *)
(* attempts it could lock.  R: leases with no dispatch marker; Q: leases     *)
(* with one; D: abandoned direct attempts.                                   *)

\* Mutation: recovery overlooks jobs that have been retried.
ExpiredFirstRuns ==
    {m \in Notifications : job[m].state = "leased" /\ ~job[m].live /\ job[m].count = 0}

ExpiredJobs == {m \in Notifications : job[m].state = "leased" /\ ~job[m].live}

RecoverBatch(R, Q, D) ==
    /\ R \subseteq {m \in ExpiredJobs : ~HasStarted(m)}
    /\ Q \subseteq {m \in ExpiredJobs : \E n \in DOMAIN attempts[m] :
                       attempts[m][n] = [status |-> "started", token |-> job[m].token]}
    /\ D \subseteq {m \in Otps : HasStarted(m)}
    /\ Cardinality(R \cup Q) <= RecoveryLimit
    /\ Cardinality(Q) + Cardinality(D) <= RecoveryLimit
    /\ R \cup Q \cup D # {}
    /\ CompleteAcceptance(Q \cup D, "unknown")
    /\ CloseMarkers(Q \cup D)
    /\ ClearRenderParams(Q \cup D)
    /\ EnsureReconcile(Q \cup D)
    /\ job' = [m \in Notifications |->
                 CASE m \in R -> Unleased("pending", job[m].count)
                   [] m \in Q -> Unleased("succeeded", job[m].count)
                   [] OTHER   -> job[m]]
    /\ UNCHANGED <<budget, policy, proc, provider>>

Recover ==
    \E R, Q \in SUBSET Notifications, D \in SUBSET Otps : RecoverBatch(R, Q, D)

-----------------------------------------------------------------------------
(* applyRetention: what is left of a message after ninety days is settled in *)
(* the transaction that erases its personal data.  Ninety days lie before    *)
(* the last day of the model's calendar; an old message may still have taken *)
(* its share of the budget on that day.                                      *)

Dispatched(m) == \E n \in DOMAIN attempts[m] : attempts[m][n].status # "rejected"

\* Mutation: whatever is still pending is rejected.
VerdictOfErased(m) == "rejected"

\* What becomes of a message that is pending.
Verdict(m) == IF Dispatched(m) THEN "unknown" ELSE "rejected"

KillJob(m) ==
    job' = [x \in Notifications |->
              IF x = m /\ job[x].state \in {"pending", "leased"} THEN Unleased("dead", job[x].count)
                                                                 ELSE job[x]]

\* A lease that has not run out keeps the message for a later run.
Retain(m) ==
    LET outcome == IF acceptance[m] = "pending" THEN Verdict(m) ELSE acceptance[m]
    IN  /\ day = LastDay
        /\ acceptance[m] # "absent"
        /\ m \in Notifications => ~(job[m].state = "leased" /\ job[m].live)
        /\ acceptance' = [acceptance EXCEPT ![m] = outcome]
        /\ delivery' = IF delivery[m] = "waiting" \/ (acceptance[m] # outcome /\ outcome = "unknown")
                         THEN [delivery EXCEPT ![m] = "unknown_final"]
                         ELSE delivery
        /\ CloseMarkers({m})
        /\ ClearRenderParams({m})
        /\ KillJob(m)
        /\ IF outcome = "rejected" THEN ReleaseBudget(m) ELSE UNCHANGED budget
        /\ UNCHANGED <<reconcile, policy, proc, provider>>

-----------------------------------------------------------------------------
(* Time, faults and the operators of the system *)

ExpireLease(m) ==
    /\ job[m].state = "leased" /\ job[m].live
    /\ job' = [job EXCEPT ![m].live = FALSE]
    /\ UNCHANGED <<message, attempts, budget, reconcile, policy, proc, provider>>

\* The process is lost with everything it held in memory, or one of its
\* statements fails, which rolls its transaction back and ends its batch.
Crash(p) ==
    /\ proc[p].pc # "idle"
    /\ Become(p, Idle)
    /\ UNCHANGED <<message, job, attempts, budget, reconcile, policy, provider>>

NextDay ==
    /\ day < LastDay
    /\ day' = day + 1
    /\ UNCHANGED <<message, job, attempts, budget, reconcile, circuitOpen, proc, provider>>

SwitchCircuit ==
    /\ circuitOpen' = ~circuitOpen
    /\ UNCHANGED <<message, job, attempts, budget, reconcile, day, proc, provider>>

-----------------------------------------------------------------------------
CallerStep(c) ==
    \/ \E m \in Otps : SendOtpNow(c, m)
    \/ DispatchOtp(c)
    \/ \E reply \in Replies : Receive(c, reply)
    \/ CompleteOtp(c)

WorkerStep(w) ==
    \/ \E m \in Notifications, t \in LeaseTokens : Lease(w, m, t)
    \/ MarkDispatch(w) \/ RejectUndispatched(w) \/ AbortMark(w)
    \/ OpenProviderInput(w) \/ AbortOpen(w)
    \/ Dispatch(w) \/ AbortDispatch(w)
    \/ \E reply \in Replies : Receive(w, reply)
    \/ CompleteAccepted(w) \/ CompleteUnknown(w) \/ CompleteRejected(w)
    \/ Reschedule(w) \/ DropAnswer(w)

ProviderStep == \E r \in inflight : ProviderTakes(r) \/ ProviderRefuses(r)

EnvironmentStep ==
    \/ \E m \in Notifications : EnqueueNotification(m) \/ ExpireLease(m)
    \/ \E m \in OldMessages : Retain(m)
    \/ \E p \in Processes : Crash(p)
    \/ NextDay
    \/ SwitchCircuit

Next ==
    \/ \E c \in Callers : CallerStep(c)
    \/ \E w \in Workers : WorkerStep(w)
    \/ ProviderStep
    \/ Recover
    \/ EnvironmentStep

Spec == Init /\ [][Next]_vars
-----------------------------------------------------------------------------
(* Properties *)

Asked(m)   == \E r \in inflight \cup taken : r[1] = m
Sends(m)   == \E r \in taken : r[1] = m

\* However workers, retries, stalls and recovery interleave, the provider takes
\* at most one request of a message: no recipient gets the same SMS twice.
SingleAcceptedSend == \A r, s \in taken : r[1] = s[1] => r = s

\* A decided acceptance is the provider's own decision: an accepted message was
\* taken, and of a rejected one nothing was taken and nothing can still be taken.
OutcomeMatchesProvider ==
    \A m \in Messages :
        /\ acceptance[m] = "accepted" => Sends(m)
        /\ acceptance[m] = "rejected" => ~Asked(m)

\* A notification is pending exactly as long as its send job can still run, so
\* neither a completion nor a recovery batch leaves one without the other.
PendingHasJob ==
    \A m \in Notifications :
        acceptance[m] = "pending" <=> job[m].state \in {"pending", "leased"}

\* A dispatch marker of a worker lies under the very lease it was written with,
\* on a pending message: this is what lets recovery find every marker by its job.
MarkerFenced ==
    \A m \in Notifications : \A n \in DOMAIN attempts[m] :
        attempts[m][n].status = "started" =>
            /\ OwnsLease(m, attempts[m][n].token)
            /\ acceptance[m] = "pending"
            /\ n = Len(attempts[m])

HeldOn(d) == {m \in Messages : reservation[m] = [state |-> "held", day |-> d]}

\* The day's counter is the number of reservations held on it and within the
\* limit, a message that was ever attempted keeps its reservation until it is
\* rejected, and a rejected message, and no other, gives it back.
BudgetConserved ==
    /\ \A d \in Days : /\ heldCount[d] = Cardinality(HeldOn(d))
                      /\ heldCount[d] <= SystemDailyBudget
    /\ \A m \in Messages :
        /\ acceptance[m] = "rejected" => reservation[m].state # "held"
        /\ reservation[m].state = "released" => acceptance[m] = "rejected"
        /\ attempts[m] # <<>> /\ acceptance[m] # "rejected" => reservation[m].state = "held"

\* The SMS the provider really sends out of one day's reservations never exceed
\* the daily budget, whatever is retried, rejected, released or left unknown.
DailyBudgetHolds ==
    \A d \in Days :
        Cardinality({m \in Messages : Sends(m) /\ reservation[m].day = d}) <= SystemDailyBudget

\* The daily budget as a whole: the books are right and they are kept.
BudgetInv == BudgetConserved /\ DailyBudgetHolds

\* attempt_count, which the worker read with its lease, bounds the attempts
\* although recovery returns jobs to pending without counting.
RetriesBounded ==
    \A m \in Notifications : Len(attempts[m]) <= MaxAttempts

\* The sealed parameters live exactly as long as a worker may need them.
ParamsUntilDecided ==
    \A m \in Messages : params[m] <=> m \in Notifications /\ acceptance[m] = "pending"

\* Everything that still waits for the operator can be reconciled, and all that
\* was or may have been sent waits, from its verdict until retention gives it up.
WaitingIsReconciled ==
    \A m \in Messages :
        /\ acceptance[m] \in {"absent", "pending"} => delivery[m] = "not_applicable"
        /\ acceptance[m] \in {"accepted", "unknown"} =>
              delivery[m] = "unknown_final" \/ (delivery[m] = "waiting" /\ reconcile[m])

\* Whatever its next step is, a message has what the step needs: its parameters to
\* be sent, a reconcile job to learn of its delivery.
FollowUpInv == ParamsUntilDecided /\ WaitingIsReconciled

\* What is kept beside a message follows it: its share of the budget, its parameters
\* and its reconcile job.
CompanionInv == BudgetInv /\ FollowUpInv

\* Once a message has left pending nobody writes another dispatch marker for it,
\* and no worker hands the provider a request for it ("without ever resending").
NeverResent ==
    [][\A m \in Messages : acceptance[m] \in {"accepted", "rejected", "unknown"} =>
          /\ Len(attempts'[m]) = Len(attempts[m])
          /\ m \in Notifications => \A r \in inflight' \ inflight : r[1] # m]_vars

\* Hosts that read a message, and people who receive it, see SmsPromise: every
\* step of the pipeline is one of its steps or invisible to them.
Promise == INSTANCE SmsPromise WITH outcome <- acceptance, sends <- {m \in Messages : Sends(m)}

ImplementsPromise == Promise!Spec

-----------------------------------------------------------------------------
(* Liveness *)

\* Workers and callers run while their process lives, leases run out, and the
\* host's scheduled task keeps calling recovery, which takes the oldest first.
Fairness ==
    /\ \A w \in Workers : WF_vars(WorkerStep(w))
    /\ \A c \in Callers :
          WF_vars(DispatchOtp(c) \/ CompleteOtp(c) \/ \E reply \in Replies : Receive(c, reply))
    /\ \A m \in Notifications : WF_vars(ExpireLease(m))
    /\ \A m \in Messages :
          WF_vars(\E R, Q \in SUBSET Notifications, D \in SUBSET Otps :
                     m \in R \cup Q \cup D /\ RecoverBatch(R, Q, D))

FairSpec == Spec /\ Fairness

\* A process is lost, the circuit is switched, or a worker that is still at its
\* job outlives its lease.
Fault ==
    \/ \E p \in Processes : Crash(p)
    \/ SwitchCircuit
    \/ \E w \in Workers, m \in Notifications :
          proc[w].msg = m /\ OwnsLease(m, proc[w].token) /\ ExpireLease(m)

\* The budget of the day has room for a message, or the message has its share.
Affordable(m) == reservation[m].state # "none" \/ heldCount[day] < SystemDailyBudget

\* Whatever has crashed and stalled, once faults stop, the circuit stays closed
\* and the budget has room, no notification and no OTP stays pending: recovery
\* closes the markers that were left open, and workers take the jobs it returns.
MessagesAreDecided ==
    /\ <>[](~circuitOpen /\ \A m \in Messages : Affordable(m))
    /\ <>[][~Fault]_vars
    => []<>(\A m \in Messages : acceptance[m] # "pending")
-----------------------------------------------------------------------------
(* The inductive invariant: which process may still speak for which attempt  *)

Engaged(p) == proc[p].pc \in {"marked", "opened", "sent", "answered"}
Request(p) == <<proc[p].msg, proc[p].no>>

\* The last attempt carries the message's acceptance; all earlier ones were
\* rejected, so no more than one attempt can ever have been taken.
AttemptsFollowAcceptance ==
    \A m \in Messages :
        /\ acceptance[m] = "absent" => attempts[m] = <<>>
        /\ acceptance[m] \in {"accepted", "unknown"} => attempts[m] # <<>>
        /\ acceptance[m] = "pending" /\ m \in Otps => HasStarted(m)
        /\ \A n \in 1 .. Len(attempts[m]) :
              /\ n < Len(attempts[m]) => attempts[m][n].status = "rejected"
              /\ n = Len(attempts[m]) =>
                    attempts[m][n].status \in
                        (IF acceptance[m] = "pending" THEN {"started", "rejected"}
                                                      ELSE {acceptance[m]})

\* Requests belong to attempts, are decided once, and decide the attempt.
RequestsFollowAttempts ==
    /\ \A r \in inflight \cup taken \cup refused : r[2] <= Len(attempts[r[1]])
    /\ inflight \cap (taken \cup refused) = {}
    /\ taken \cap refused = {}
    /\ \A m \in Messages : \A n \in 1 .. Len(attempts[m]) :
          /\ attempts[m][n].status = "rejected" => <<m, n>> \in refused
          /\ attempts[m][n].status = "accepted" => <<m, n>> \in taken

\* A process in the middle of a dispatch owns its attempt alone, and the attempt
\* has no verdict before the process writes it.
DispatchersOwnAttempts ==
    /\ \A w \in Workers : proc[w].pc # "idle" =>
          proc[w].msg \in Notifications /\ proc[w].token \in LeaseTokens
    /\ \A c \in Callers : proc[c].pc # "idle" =>
          proc[c].msg \in Otps /\ proc[c].token = NoToken /\ Engaged(c)
    /\ \A p \in Processes : Engaged(p) =>
          /\ proc[p].no \in 1 .. Len(attempts[proc[p].msg])
          /\ attempts[proc[p].msg][proc[p].no].status \in {"started", "unknown"}
          /\ attempts[proc[p].msg][proc[p].no].token = proc[p].token
          /\ proc[p].pc \in {"marked", "opened"} =>
                Request(p) \notin inflight \cup taken \cup refused
          /\ proc[p].pc = "answered" =>
                /\ proc[p].reply \in Replies
                /\ proc[p].reply = "accepted" => Request(p) \in taken
                /\ proc[p].reply \in {"rejected", "throttled"} => Request(p) \in refused
    /\ \A p, q \in Processes : Engaged(p) /\ Engaged(q) /\ Request(p) = Request(q) => p = q

DispatchInv ==
    /\ AttemptsFollowAcceptance
    /\ RequestsFollowAttempts
    /\ DispatchersOwnAttempts
    /\ PendingHasJob
    /\ MarkerFenced

\* A pending notification has made at most one attempt per counted retry and the
\* one that is open, and the worker that still owns its lease knows the count.
RetryInv ==
    /\ \A m \in Notifications :
          /\ Len(attempts[m]) <= MaxAttempts
          /\ acceptance[m] = "pending" =>
                /\ job[m].count < MaxAttempts
                /\ Len(attempts[m]) <= job[m].count + 1
                /\ Len(attempts[m]) = job[m].count + 1 => HasStarted(m)
    /\ \A w \in Workers :
          proc[w].pc # "idle" /\ OwnsLease(proc[w].msg, proc[w].token) =>
              proc[w].count = job[proc[w].msg].count
=============================================================================
