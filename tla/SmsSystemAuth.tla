---------------------------- MODULE SmsSystemAuth ----------------------------
(***************************************************************************)
(* Login and password-reset codes of the SYSTEM scope: issue, verify and    *)
(* consume of SystemAuthSmsService, and the recovery, callbacks and queries *)
(* of PgSystemSmsLifecycle, which run beside it on the same rows.           *)
(*                                                                          *)
(* The requests are those of one subject and action, each with its own      *)
(* idempotency key, challenge and message; challenges of other subjects     *)
(* never meet these.  A repeated request reads its challenge and changes    *)
(* nothing.  Rate limits, templates and the budget may refuse any request.  *)
(***************************************************************************)
EXTENDS Integers, FiniteSets

CONSTANTS
    Requests,           \* idempotency keys
    Phones,             \* the phone numbers requests name
    ConsumptionKeys, NoKey,
    Sweepers,           \* concurrent calls of reconcile()
    MaxAttempts,        \* policy.otpMaxAttempts
    ReportLimit         \* bound: reports the provider pushes at the same time

ASSUME SystemAuthConstants ==
    /\ NoKey \notin ConsumptionKeys
    /\ MaxAttempts \in Nat \ {0}
    /\ ReportLimit \in Nat

VARIABLES
    call,           \* what the caller of issue() holds in memory
    provider,       \* what the provider made of a request
    acceptance,     \* send_message.acceptance_status, "absent" before the insert
    delivery,       \* send_message.delivery_status
    bizKnown,       \* messages whose provider_biz_id is stored
    age,            \* how long ago a message was submitted
    challenge,      \* otp_challenge rows
    receipts,       \* delivery_receipt rows
    reports,        \* callbacks the provider has yet to see acknowledged
    sweep           \* what each reconcile() holds in memory

message == <<acceptance, delivery, bizKnown>>
vars    == <<call, provider, message, age, challenge, receipts, reports, sweep>>

-----------------------------------------------------------------------------
AcceptanceStatus == {"absent", "pending", "accepted", "rejected", "unknown"}
ReportStatus     == {"delivered", "failed"}
FinalStatus      == ReportStatus \cup {"unknown_final"}
DeliveryStatus   == FinalStatus \cup {"not_applicable", "waiting"}

Challenge ==
    [status      : AcceptanceStatus,          \* delivery_acceptance_status
     invalidated : BOOLEAN,
     attempts    : 0..MaxAttempts,
     verified    : BOOLEAN,
     expired     : BOOLEAN,                   \* its code, once verified its proof
     consumedBy  : ConsumptionKeys \cup {NoKey}]

NoChallenge == [status |-> "absent", invalidated |-> FALSE, attempts |-> 0,
                verified |-> FALSE, expired |-> FALSE, consumedBy |-> NoKey]

Call == [phone : Phones, pc : {"new", "issuing", "issued", "asked", "ended"},
         superseding : SUBSET Requests]

Report  == [msg : Requests, status : ReportStatus]
Receipt == [msg : Requests, status : ReportStatus,
            source : {"callback", "query"}, matched : BOOLEAN]

Sweep == [pc : {"idle", "listed", "found"}, todo : SUBSET Requests,
          bizKnown : SUBSET Requests, found : SUBSET Report]

Idle == [pc |-> "idle", todo |-> {}, bizKnown |-> {}, found |-> {}]

TypeOK ==
    /\ call \in [Requests -> Call]
    /\ provider \in [Requests -> {"none", "asked", "sent", "refused"}]
    /\ acceptance \in [Requests -> AcceptanceStatus]
    /\ delivery \in [Requests -> DeliveryStatus]
    /\ bizKnown \subseteq Requests
    /\ age \in [Requests -> {"new", "abandoned", "overdue"}]
    /\ challenge \in [Requests -> Challenge]
    /\ receipts \subseteq Receipt
    /\ reports \subseteq Report
    /\ sweep \in [Sweepers -> Sweep]

Init ==
    /\ call \in [Requests -> {[phone |-> p, pc |-> "new", superseding |-> {}] : p \in Phones}]
    /\ provider = [k \in Requests |-> "none"]
    /\ acceptance = [k \in Requests |-> "absent"]
    /\ delivery = [k \in Requests |-> "not_applicable"]
    /\ bizKnown = {}
    /\ age = [k \in Requests |-> "new"]
    /\ challenge = [k \in Requests |-> NoChallenge]
    /\ receipts = {}
    /\ reports = {}
    /\ sweep = [s \in Sweepers |-> Idle]

-----------------------------------------------------------------------------
(* issue *)

\* The rows invalidateActiveChallenges touches.
Active(k) ==
    /\ challenge[k].status # "absent"
    /\ ~challenge[k].invalidated
    /\ challenge[k].consumedBy = NoKey

\* Mutation: the phone's stream of requests is not locked.
BeginIssueUnlocked(k) ==
    /\ call[k].pc = "new"
    /\ call' = [call EXCEPT ![k].pc = "issuing",
                            ![k].superseding = {c \in Requests : Active(c)}]
    /\ UNCHANGED <<provider, message, age, challenge, receipts, reports, sweep>>

\* The transaction holds the lock of its phone and purpose until it ends, and
\* its UPDATE sees the challenges that are committed when it starts.
BeginIssue(k) ==
    /\ call[k].pc = "new"
    /\ \A other \in Requests :
          call[other].pc = "issuing" => call[other].phone # call[k].phone
    /\ call' = [call EXCEPT ![k].pc = "issuing",
                            ![k].superseding = {c \in Requests : Active(c)}]
    /\ UNCHANGED <<provider, message, age, challenge, receipts, reports, sweep>>

\* The condition of the UPDATE is evaluated again on rows that changed meanwhile.
InvalidateAndCreate(k) ==
    challenge' = [c \in Requests |->
        IF c = k THEN [NoChallenge EXCEPT !.status = "pending"]
        ELSE IF c \in call[k].superseding /\ Active(c)
             THEN [challenge[c] EXCEPT !.invalidated = TRUE, !.status = "rejected"]
             ELSE challenge[c]]

CommitIssue(k) ==
    /\ call[k].pc = "issuing"
    /\ InvalidateAndCreate(k)
    /\ acceptance' = [acceptance EXCEPT ![k] = "pending"]
    /\ call' = [call EXCEPT ![k].pc = "issued", ![k].superseding = {}]
    /\ UNCHANGED <<provider, delivery, bizKnown, age, receipts, reports, sweep>>

CallProvider(k) ==
    /\ call[k].pc = "issued"
    /\ call' = [call EXCEPT ![k].pc = "asked"]
    /\ provider' = [provider EXCEPT ![k] = "asked"]
    /\ UNCHANGED <<message, age, challenge, receipts, reports, sweep>>

\* The provider decides whether or not the caller still waits for it.
ProviderDecides(k, decision) ==
    /\ provider[k] = "asked"
    /\ provider' = [provider EXCEPT ![k] = decision]
    /\ UNCHANGED <<call, message, age, challenge, receipts, reports, sweep>>

\* A time-out or a broken connection leaves the outcome unknown, whatever it is.
Outcomes(k) ==
    {"unknown"} \cup (IF provider[k] = "sent" THEN {"accepted"} ELSE {})
                \cup (IF provider[k] = "refused" THEN {"rejected"} ELSE {})

\* Mutation: the outcome overrides whatever the challenge has become.
TakeOutcome(k, outcome) ==
    challenge' = [challenge EXCEPT ![k].status = outcome,
                                   ![k].invalidated = @ \/ outcome # "accepted"]

\* Only a challenge that is still pending takes over the outcome.
MarkChallengeDelivery(k, outcome) ==
    challenge' =
      IF challenge[k].status # "pending" THEN challenge
      ELSE [challenge EXCEPT ![k].status = outcome,
                             ![k].invalidated = @ \/ outcome # "accepted"]

\* markMessageAcceptance writes whatever status the message has by now.
MarkMessageAcceptance(k, outcome) ==
    /\ acceptance' = [acceptance EXCEPT ![k] = outcome]
    /\ delivery' = [delivery EXCEPT
                      ![k] = IF outcome = "rejected" THEN "not_applicable" ELSE "waiting"]
    /\ bizKnown' = IF outcome = "accepted" THEN bizKnown \cup {k} ELSE bizKnown

RecordOutcome(k) ==
    \E outcome \in Outcomes(k) :
        /\ call[k].pc = "asked"
        /\ MarkMessageAcceptance(k, outcome)
        /\ MarkChallengeDelivery(k, outcome)
        /\ call' = [call EXCEPT ![k].pc = "ended"]
        /\ UNCHANGED <<provider, age, receipts, reports, sweep>>

\* The transaction refuses the request, or the caller is lost at any point.
EndCall(k) ==
    /\ call[k].pc \in {"issuing", "issued", "asked"}
    /\ call' = [call EXCEPT ![k].pc = "ended", ![k].superseding = {}]
    /\ UNCHANGED <<provider, message, age, challenge, receipts, reports, sweep>>

-----------------------------------------------------------------------------
(* verify, consumeProof, verifyAndConsume *)

Verifiable(k) ==
    /\ challenge[k].status = "accepted"
    /\ ~challenge[k].invalidated /\ ~challenge[k].verified
    /\ ~challenge[k].expired
    /\ challenge[k].attempts < MaxAttempts

VerifyWrongCode(k) ==
    /\ Verifiable(k)
    /\ challenge' = [challenge EXCEPT ![k].attempts = @ + 1]
    /\ UNCHANGED <<call, provider, message, age, receipts, reports, sweep>>

Verify(k) ==
    /\ Verifiable(k)
    /\ challenge' = [challenge EXCEPT ![k].verified = TRUE, ![k].expired = FALSE]
    /\ UNCHANGED <<call, provider, message, age, receipts, reports, sweep>>

\* A consumed proof is replayed to its own key and refused to others: no change.
ConsumeProof(k, key) ==
    /\ challenge[k].status = "accepted"
    /\ ~challenge[k].invalidated /\ challenge[k].verified
    /\ ~challenge[k].expired
    /\ challenge[k].consumedBy = NoKey
    /\ challenge' = [challenge EXCEPT ![k].consumedBy = key]
    /\ UNCHANGED <<call, provider, message, age, receipts, reports, sweep>>

\* One transaction of the host; its wrong-code branch is VerifyWrongCode.
VerifyAndConsume(k, key) ==
    /\ Verifiable(k)
    /\ challenge' = [challenge EXCEPT ![k].verified = TRUE, ![k].expired = FALSE,
                                      ![k].consumedBy = key]
    /\ UNCHANGED <<call, provider, message, age, receipts, reports, sweep>>

-----------------------------------------------------------------------------
(* recover, ingest, reconcile *)

Abandoned(k) == acceptance[k] = "pending" /\ age[k] # "new"

\* One transaction fences the abandoned messages it can lock.
Recover(S) ==
    /\ S # {} /\ \A k \in S : Abandoned(k)
    /\ acceptance' = [k \in Requests |-> IF k \in S THEN "unknown" ELSE acceptance[k]]
    /\ delivery' = [k \in Requests |-> IF k \in S THEN "waiting" ELSE delivery[k]]
    /\ challenge' = [k \in Requests |->
                       IF k \in S /\ challenge[k].status = "pending"
                         THEN [challenge[k] EXCEPT !.status = "unknown", !.invalidated = TRUE]
                         ELSE challenge[k]]
    /\ UNCHANGED <<call, provider, bizKnown, age, receipts, reports, sweep>>

\* The provider pushes a report until it is acknowledged, and may contradict itself.
PushReport(k, status) ==
    /\ provider[k] = "sent"
    /\ Cardinality(reports) < ReportLimit
    /\ reports' = reports \cup {[msg |-> k, status |-> status]}
    /\ UNCHANGED <<call, provider, message, age, challenge, receipts, sweep>>

\* Mutation: an unknown acceptance stays unknown.
RecordDeliveryOnly(report, source, matches) ==
    LET k   == report.msg
        row(m) == [msg |-> k, status |-> report.status, source |-> source, matched |-> m]
        stored == IF source = "callback" THEN {row(FALSE)} ELSE {}
        waits == matches /\ delivery[k] = "waiting"
    IN  /\ receipts' = IF row(TRUE) \in receipts THEN receipts
                       ELSE IF matches THEN (receipts \ stored) \cup {row(TRUE)}
                       ELSE receipts \cup {row(FALSE)}
        /\ delivery' = IF waits THEN [delivery EXCEPT ![k] = report.status] ELSE delivery
        /\ UNCHANGED acceptance

\* Mutation: a report settles a message that no longer waits.
RecordLast(report, source, matches) ==
    LET k   == report.msg
        row(m) == [msg |-> k, status |-> report.status, source |-> source, matched |-> m]
        stored == IF source = "callback" THEN {row(FALSE)} ELSE {}
        waits == matches
    IN  /\ receipts' = IF row(TRUE) \in receipts THEN receipts
                       ELSE IF matches THEN (receipts \ stored) \cup {row(TRUE)}
                       ELSE receipts \cup {row(FALSE)}
        /\ delivery' = IF waits THEN [delivery EXCEPT ![k] = report.status] ELSE delivery
        /\ acceptance' = IF waits /\ acceptance[k] = "unknown"
                           THEN [acceptance EXCEPT ![k] = "accepted"] ELSE acceptance

\* The receipt is stored or promoted in any case (a query with another BizId is
\* another receipt); a message that waits is settled, and an unknown acceptance
\* becomes an acceptance with it.
Record(report, source, matches) ==
    LET k   == report.msg
        row(m) == [msg |-> k, status |-> report.status, source |-> source, matched |-> m]
        stored == IF source = "callback" THEN {row(FALSE)} ELSE {}
        waits == matches /\ delivery[k] = "waiting"
    IN  /\ receipts' = IF row(TRUE) \in receipts THEN receipts
                       ELSE IF matches THEN (receipts \ stored) \cup {row(TRUE)}
                       ELSE receipts \cup {row(FALSE)}
        /\ delivery' = IF waits THEN [delivery EXCEPT ![k] = report.status] ELSE delivery
        /\ acceptance' = IF waits /\ acceptance[k] = "unknown"
                           THEN [acceptance EXCEPT ![k] = "accepted"] ELSE acceptance

\* A callback must name the stored BizId as well as the message.  A batch records
\* its reports one after the other; its acknowledgement may be lost.
Ingest(report, acknowledged) ==
    /\ report \in reports
    /\ Record(report, "callback", report.msg \in bizKnown)
    /\ reports' = IF acknowledged THEN reports \ {report} ELSE reports
    /\ UNCHANGED <<call, provider, bizKnown, age, challenge, sweep>>

Listed(k) ==
    /\ acceptance[k] \in {"accepted", "unknown"}
    /\ delivery[k] = "waiting"
    /\ age[k] # "overdue"

\* The list is read outside of a transaction, with the BizIds known by then.  It
\* may leave out some of what waits, as it ends after fifty messages.
ListWaiting(s) ==
    /\ sweep[s].pc = "idle"
    /\ \E todo \in SUBSET {k \in Requests : Listed(k)} :
          /\ todo = {} => \A k \in Requests : ~Listed(k)
          /\ sweep' = [sweep EXCEPT ![s] = [Idle EXCEPT !.pc = "listed", !.todo = todo,
                                                        !.bizKnown = bizKnown \cap todo]]
    /\ UNCHANGED <<call, provider, message, age, challenge, receipts, reports>>

\* The provider has a final record of the message, or none.
Query(s) ==
    /\ sweep[s].pc = "listed"
    /\ \E k \in sweep[s].todo :
          \/ /\ provider[k] = "sent"
             /\ \E status \in ReportStatus :
                   sweep' = [sweep EXCEPT ![s].pc = "found",
                                          ![s].found = {[msg |-> k, status |-> status]}]
          \/ sweep' = [sweep EXCEPT ![s].todo = @ \ {k}]
    /\ UNCHANGED <<call, provider, message, age, challenge, receipts, reports>>

\* A BizId that was stored since the list was read makes the record foreign.
RecordQuery(s) ==
    /\ sweep[s].pc = "found"
    /\ \E report \in sweep[s].found :
          /\ Record(report, "query",
                    report.msg \in bizKnown => report.msg \in sweep[s].bizKnown)
          /\ sweep' = [sweep EXCEPT ![s].pc = "listed", ![s].found = {},
                                    ![s].todo = @ \ {report.msg}]
    /\ UNCHANGED <<call, provider, bizKnown, age, challenge, reports>>

\* Mutation: only accepted messages are given up.
FinalizeAccepted(s) ==
    /\ sweep[s].pc = "listed" /\ sweep[s].todo = {}
    /\ delivery' = [k \in Requests |->
                      IF delivery[k] = "waiting" /\ age[k] = "overdue"
                           /\ acceptance[k] = "accepted"
                        THEN "unknown_final" ELSE delivery[k]]
    /\ sweep' = [sweep EXCEPT ![s] = Idle]
    /\ UNCHANGED <<call, provider, acceptance, bizKnown, age, challenge, receipts, reports>>

\* The end of the list: whatever waits for more than 48 hours is given up.
FinalizeOverdue(s) ==
    /\ sweep[s].pc = "listed" /\ sweep[s].todo = {}
    /\ delivery' = [k \in Requests |->
                      IF delivery[k] = "waiting" /\ age[k] = "overdue"
                        THEN "unknown_final" ELSE delivery[k]]
    /\ sweep' = [sweep EXCEPT ![s] = Idle]
    /\ UNCHANGED <<call, provider, acceptance, bizKnown, age, challenge, receipts, reports>>

\* A phone that cannot be opened or a query that throws ends the whole call.
Abort(s) ==
    /\ sweep[s].pc # "idle"
    /\ sweep' = [sweep EXCEPT ![s] = Idle]
    /\ UNCHANGED <<call, provider, message, age, challenge, receipts, reports>>

-----------------------------------------------------------------------------
(* Time *)

Age(k) ==
    /\ acceptance[k] # "absent" /\ age[k] # "overdue"
    /\ age' = [age EXCEPT ![k] = IF @ = "new" THEN "abandoned" ELSE "overdue"]
    /\ UNCHANGED <<call, provider, message, challenge, receipts, reports, sweep>>

Expire(k) ==
    /\ challenge[k].status # "absent" /\ ~challenge[k].expired
    /\ challenge' = [challenge EXCEPT ![k].expired = TRUE]
    /\ UNCHANGED <<call, provider, message, age, receipts, reports, sweep>>

-----------------------------------------------------------------------------
IssueStep(k) ==
    \/ BeginIssue(k) \/ CommitIssue(k) \/ CallProvider(k)
    \/ RecordOutcome(k) \/ EndCall(k)

ProviderStep(k) ==
    \/ \E decision \in {"sent", "refused"} : ProviderDecides(k, decision)
    \/ \E status \in ReportStatus : PushReport(k, status)

UserStep(k) ==
    \/ VerifyWrongCode(k) \/ Verify(k)
    \/ \E key \in ConsumptionKeys : ConsumeProof(k, key) \/ VerifyAndConsume(k, key)

SweepStep(s) ==
    ListWaiting(s) \/ Query(s) \/ RecordQuery(s) \/ FinalizeOverdue(s) \/ Abort(s)

Next ==
    \/ \E k \in Requests : IssueStep(k) \/ ProviderStep(k) \/ UserStep(k)
    \/ \E S \in SUBSET Requests : Recover(S)
    \/ \E report \in reports, acknowledged \in BOOLEAN : Ingest(report, acknowledged)
    \/ \E s \in Sweepers : SweepStep(s)
    \/ \E k \in Requests : Age(k) \/ Expire(k)

Spec == Init /\ [][Next]_vars
-----------------------------------------------------------------------------
(* Properties *)

\* A code that is bound to be refused cannot have been spent, and the reverse:
\* whoever supersedes, recovers or answers late, a consumed proof belongs to a
\* verified challenge whose code the provider sent and which nobody invalidated.
ConsumedProofsAreGenuine ==
    \A k \in Requests : challenge[k].consumedBy # NoKey =>
        /\ challenge[k].verified /\ ~challenge[k].invalidated
        /\ challenge[k].status = "accepted"
        /\ provider[k] = "sent"

\* A challenge and its message are two rows that four kinds of transaction write:
\* a challenge is only open while its message is, is accepted only with it, and
\* is invalidated exactly when its own status says that it is not deliverable.
ChallengeFollowsMessage ==
    \A k \in Requests :
        /\ challenge[k].status \in {"pending", "accepted"} =>
              acceptance[k] = challenge[k].status
        /\ challenge[k].status = "unknown" => acceptance[k] # "pending"
        /\ challenge[k].invalidated <=> challenge[k].status \in {"rejected", "unknown"}

\* The message and the challenge of a request are created together, and before the
\* provider is asked; until its caller has the answer the challenge is not accepted.
RequestsAdvance ==
    \A k \in Requests :
        /\ acceptance[k] = "absent" <=> challenge[k].status = "absent"
        /\ acceptance[k] = "absent" => challenge[k] = NoChallenge /\ provider[k] = "none"
        /\ acceptance[k] \in {"absent", "pending"} => delivery[k] = "not_applicable"
        /\ call[k].pc \in {"new", "issuing"} => acceptance[k] = "absent"
        /\ call[k].pc \in {"issued", "asked"} =>
              acceptance[k] # "absent" /\ challenge[k].status # "accepted"
        /\ call[k].pc = "issued" => provider[k] = "none"

\* Of the requests for a phone one at a time is being issued, and it has seen every
\* challenge of the phone that it must supersede.
PhoneIsLocked ==
    \A k \in Requests : call[k].pc = "issuing" =>
        \A other \in Requests : call[other].phone = call[k].phone =>
            /\ call[other].pc = "issuing" => other = k
            /\ Active(other) => other \in call[k].superseding

\* A challenge tells the same story as its message, its call and its consumer.
ChallengeInv ==
    /\ TypeOK /\ RequestsAdvance /\ PhoneIsLocked
    /\ ConsumedProofsAreGenuine /\ ChallengeFollowsMessage

\* Two requests that race for one phone never leave two codes of the subject
\* that both work.
OneActivePerPhone ==
    \A k, other \in Requests :
        Active(k) /\ Active(other) /\ call[k].phone = call[other].phone => k = other

\* A delivery report in the message is backed by a receipt row and by a message
\* the provider really sent, and it has settled the acceptance too.  So an accepted
\* message was sent, and what waits for a report may have been.
ReportsAreBacked ==
    /\ \A k \in Requests :
          /\ delivery[k] \in ReportStatus =>
                /\ acceptance[k] = "accepted"
                /\ \E c \in receipts : c.msg = k /\ c.status = delivery[k] /\ c.matched
          /\ acceptance[k] = "accepted" => provider[k] = "sent"
          /\ delivery[k] = "waiting" => acceptance[k] \in {"accepted", "unknown"}
    /\ \A report \in reports : provider[report.msg] = "sent"
    /\ \A s \in Sweepers : \A report \in sweep[s].found : provider[report.msg] = "sent"

\* Recovery, callbacks, queries and expiry, stale or repeated, never move a
\* message backward: only the answer to its own request may.
OnlyTheAnswerMovesBack ==
    [][\A k \in Requests :
          \/ call[k].pc = "asked" /\ call'[k].pc = "ended"
          \/ /\ delivery[k] \in FinalStatus => delivery'[k] = delivery[k]
             /\ delivery[k] = "waiting" => delivery'[k] # "not_applicable"
             /\ acceptance[k] = "accepted" => acceptance'[k] = "accepted"]_vars

-----------------------------------------------------------------------------
(* Liveness *)

\* The host schedules recover() and reconcile(), which is not lost at the end of
\* its list for ever; time passes.
Fairness ==
    /\ WF_vars(\E S \in SUBSET Requests : Recover(S))
    /\ \A s \in Sweepers : WF_vars(SweepStep(s)) /\ SF_vars(FinalizeOverdue(s))
    /\ \A k \in Requests : WF_vars(Age(k))

FairSpec == Spec /\ Fairness

\* Every submitted message is settled in the end, even if its caller is lost, no
\* callback comes and each query throws and ends its reconcile() call.
MessagesSettle ==
    \A k \in Requests :
        acceptance[k] # "absent" ~> delivery[k] \in FinalStatus \/ acceptance[k] = "rejected"
=============================================================================
