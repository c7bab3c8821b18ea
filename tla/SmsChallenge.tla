------------------------------ MODULE SmsChallenge ------------------------------
(***************************************************************************)
(* The tenant one-time codes: issue() and verify() of ChallengeService and  *)
(* the proofs they lead to, which host operations consume with              *)
(* withPgProofTransaction.                                                  *)
(*                                                                          *)
(* The challenges are those of one tenant, subject and action; the tenant   *)
(* and phone locks are per purpose, so other actions never meet these.      *)
(* What happens to the message inside sendOtpNow is SmsDispatch's subject:  *)
(* here it is accepted, refused, or nobody knows.  All requests fall into   *)
(* one limit window.                                                        *)
(***************************************************************************)
EXTENDS Integers, FiniteSets

CONSTANTS
    Callers,                    \* concurrent calls of issue()
    Keys, KeyOf,                \* idempotency keys, and the key a call carries
    Phones, PhoneOf,            \* the phone the request with this key names
    Hosts,                      \* concurrent operations that want a proof
    ConsumptionKeys,            \* the durable keys they may carry
    NoKey,
    MaxAttempts,                \* policy.otpMaxAttempts
    PhoneLimit, TenantLimit     \* policy.phoneHourlyLimit, policy.ipWindowLimit

ASSUME SmsChallengeConstants ==
    /\ KeyOf \in [Callers -> Keys]
    /\ PhoneOf \in [Keys -> Phones]
    /\ NoKey \notin ConsumptionKeys
    /\ MaxAttempts \in Nat \ {0}
    /\ PhoneLimit \in Nat /\ TenantLimit \in Nat

VARIABLES
    call,           \* what each caller of issue() holds in memory
    challenge,      \* otp_challenge rows, by idempotency key
    phoneCount,     \* committed events of a phone in the window
    tenantCount,    \* committed events of the tenant in the window
    asked,          \* requests made to the provider
    sent,           \* keys whose code the provider sent
    host,           \* what each host operation holds
    executed        \* times the protected mutation of a proof was committed

counts == <<phoneCount, tenantCount>>
vars   == <<call, challenge, counts, asked, sent, host, executed>>

-----------------------------------------------------------------------------
Challenge ==
    [status     : {"absent", "pending", "accepted", "rejected", "unknown"},
     error      : {"none", "superseded", "limited", "failed", "unanswered", "unknown"},
     attempts   : 0..MaxAttempts,
     verified   : BOOLEAN,
     expired    : BOOLEAN,                    \* its code, once verified its proof
     consumedBy : ConsumptionKeys \cup {NoKey}]

NoChallenge == [status |-> "absent", error |-> "none", attempts |-> 0,
                verified |-> FALSE, expired |-> FALSE, consumedBy |-> NoKey]

\* "keyed" to "refused" are inside issue()'s first transaction, and counted are
\* the limits it has incremented, whose locks it holds; a "failed" call has yet
\* to invalidate its challenge with the error it remembers.
Call == [pc : {"new", "keyed", "phoned", "counted", "refused", "owner", "asking",
               "accepted", "failed", "waiting", "ended"},
         counted     : SUBSET {"phone", "tenant"},
         superseding : SUBSET Keys,
         error       : {"none", "failed", "unanswered", "unknown"},
         outcome     : {"none", "ok", "error"}]

NewCall == [pc |-> "new", counted |-> {}, superseding |-> {}, error |-> "none",
            outcome |-> "none"]

Ended(outcome) == [NewCall EXCEPT !.pc = "ended", !.outcome = outcome]

Host == [pc : {"idle", "locked"}, of : Keys \cup {NoKey},
         key : ConsumptionKeys \cup {NoKey}, replay : BOOLEAN]

IdleHost == [pc |-> "idle", of |-> NoKey, key |-> NoKey, replay |-> FALSE]

TypeOK ==
    /\ call \in [Callers -> Call]
    /\ challenge \in [Keys -> Challenge]
    /\ phoneCount \in [Phones -> Nat] /\ tenantCount \in Nat
    /\ asked \in [Keys -> Nat] /\ sent \subseteq Keys
    /\ host \in [Hosts -> Host]
    /\ executed \in [Keys -> Nat]

Init ==
    /\ call = [c \in Callers |-> NewCall]
    /\ challenge = [k \in Keys |-> NoChallenge]
    /\ phoneCount = [p \in Phones |-> 0] /\ tenantCount = 0
    /\ asked = [k \in Keys |-> 0] /\ sent = {}
    /\ host = [h \in Hosts |-> IdleHost]
    /\ executed = [k \in Keys |-> 0]

-----------------------------------------------------------------------------
InIssue(c) == call[c].pc \in {"keyed", "phoned", "counted", "refused"}

\* No host operation holds the row lock of this challenge.
Free(k) == \A h \in Hosts : host[h].of # k

Phone(c) == PhoneOf[KeyOf[c]]

Invalidated(row, status, error) ==
    IF row.error = "none" THEN [row EXCEPT !.status = status, !.error = error] ELSE row

\* The rows invalidateActiveForSubjectAction touches, verified ones included.
Active(k) ==
    /\ challenge[k].status # "absent"
    /\ challenge[k].error = "none"
    /\ challenge[k].consumedBy = NoKey

-----------------------------------------------------------------------------
(* issue: the transaction that decides *)

\* Takes the lock of the idempotency key and looks for its challenge.
Enter(c) ==
    /\ call[c].pc = "new"
    /\ \A other \in Callers : InIssue(other) => KeyOf[other] # KeyOf[c]
    /\ call' = [call EXCEPT ![c].pc = IF challenge[KeyOf[c]].status = "absent"
                                        THEN "keyed" ELSE "waiting"]
    /\ UNCHANGED <<challenge, counts, asked, sent, host, executed>>

\* The circuit is open, or the address of the caller has used up its own limit.
Refuse(c) ==
    /\ call[c].pc \in {"keyed", "counted"}
    /\ call' = [call EXCEPT ![c].pc = "refused", ![c].superseding = {}]
    /\ UNCHANGED <<challenge, counts, asked, sent, host, executed>>

\* Mutation: the stream of one phone is not locked.
CountPhoneUnlocked(c) ==
    /\ call[c].pc = "keyed"
    /\ call' = [call EXCEPT
          ![c].counted = {"phone"},
          ![c].pc = IF phoneCount[Phone(c)] + 1 > PhoneLimit THEN "refused" ELSE "phoned"]
    /\ UNCHANGED <<challenge, counts, asked, sent, host, executed>>

\* enforcePhoneSendPolicy: lock, record this event, count with it.
CountPhone(c) ==
    /\ call[c].pc = "keyed"
    /\ \A other \in Callers : "phone" \in call[other].counted => Phone(other) # Phone(c)
    /\ call' = [call EXCEPT
          ![c].counted = {"phone"},
          ![c].pc = IF phoneCount[Phone(c)] + 1 > PhoneLimit THEN "refused" ELSE "phoned"]
    /\ UNCHANGED <<challenge, counts, asked, sent, host, executed>>

\* Mutation: the tenant's stream is not locked.
CountTenantUnlocked(c) ==
    /\ call[c].pc = "phoned"
    /\ call' = [call EXCEPT
          ![c].counted = @ \cup {"tenant"},
          ![c].superseding = {k \in Keys : Active(k)},
          ![c].pc = IF tenantCount + 1 > TenantLimit THEN "refused" ELSE "counted"]
    /\ UNCHANGED <<challenge, counts, asked, sent, host, executed>>

\* The limit of the tenant and purpose; the UPDATE that follows sees the rows
\* that are committed when it starts, under this lock.
CountTenant(c) ==
    /\ call[c].pc = "phoned"
    /\ \A other \in Callers : "tenant" \notin call[other].counted
    /\ call' = [call EXCEPT
          ![c].counted = @ \cup {"tenant"},
          ![c].superseding = {k \in Keys : Active(k)},
          ![c].pc = IF tenantCount + 1 > TenantLimit THEN "refused" ELSE "counted"]
    /\ UNCHANGED <<challenge, counts, asked, sent, host, executed>>

CommitCounts(c) ==
    /\ phoneCount' = [phoneCount EXCEPT
                        ![Phone(c)] = @ + IF "phone" \in call[c].counted THEN 1 ELSE 0]
    /\ tenantCount' = tenantCount + IF "tenant" \in call[c].counted THEN 1 ELSE 0

\* A refused request leaves a terminal challenge, and what it counted stays.
CommitRefusal(c) ==
    /\ call[c].pc = "refused"
    /\ challenge' = [challenge EXCEPT
                       ![KeyOf[c]] = [NoChallenge EXCEPT !.status = "rejected",
                                                         !.error = "limited"]]
    /\ CommitCounts(c)
    /\ call' = [call EXCEPT ![c] = Ended("error")]
    /\ UNCHANGED <<asked, sent, host, executed>>

\* The UPDATE waits for rows a host operation holds and looks at them again.
CommitIssue(c) ==
    /\ call[c].pc = "counted"
    /\ \A k \in call[c].superseding : Free(k)
    /\ challenge' = [k \in Keys |->
          IF k = KeyOf[c] THEN [NoChallenge EXCEPT !.status = "pending"]
          ELSE IF k \in call[c].superseding /\ Active(k)
               THEN Invalidated(challenge[k], "rejected", "superseded")
               ELSE challenge[k]]
    /\ CommitCounts(c)
    /\ call' = [call EXCEPT ![c] = [NewCall EXCEPT !.pc = "owner"]]
    /\ UNCHANGED <<asked, sent, host, executed>>

-----------------------------------------------------------------------------
(* issue: the call that created the challenge sends it *)

\* sendOtpNow refuses before it asks the provider (template, limits, budget).
RefuseSend(c) ==
    /\ call[c].pc = "owner"
    /\ call' = [call EXCEPT ![c].pc = "failed", ![c].error = "failed"]
    /\ UNCHANGED <<challenge, counts, asked, sent, host, executed>>

AskProvider(c) ==
    /\ call[c].pc = "owner"
    /\ asked' = [asked EXCEPT ![KeyOf[c]] = @ + 1]
    /\ sent' \in {sent, sent \cup {KeyOf[c]}}
    /\ call' = [call EXCEPT ![c].pc = "asking"]
    /\ UNCHANGED <<challenge, counts, host, executed>>

\* Only a code that was sent is reported accepted; a timeout or a storage failure
\* hides what became of it.
Answer(c) ==
    /\ call[c].pc = "asking"
    /\ \/ /\ KeyOf[c] \in sent
          /\ call' = [call EXCEPT ![c].pc = "accepted"]
       \/ \E error \in {"failed", "unknown"} :
             call' = [call EXCEPT ![c].pc = "failed", ![c].error = error]
    /\ UNCHANGED <<challenge, counts, asked, sent, host, executed>>

\* Mutation: an accepted answer is recorded whatever the challenge has become.
AcceptAnyway(row) == [row EXCEPT !.status = "accepted", !.error = "none"]

\* markDeliveryAcceptance: only a pending challenge is accepted.
Accepted(row) == IF row.status = "pending" THEN [row EXCEPT !.status = "accepted"] ELSE row

\* A challenge that was superseded or given up meanwhile is an error for its caller,
\* and so is a COMMIT nobody answers.
MarkAccepted(c) ==
    /\ call[c].pc = "accepted" /\ Free(KeyOf[c])
    /\ challenge' = [challenge EXCEPT ![KeyOf[c]] = Accepted(@)]
    /\ \/ /\ challenge'[KeyOf[c]].error = "none"
          /\ call' = [call EXCEPT ![c] = Ended("ok")]
       \/ call' = [call EXCEPT ![c].pc = "failed",
                   ![c].error = IF challenge'[KeyOf[c]].error = "none" THEN "unanswered"
                                                                       ELSE "failed"]
    /\ UNCHANGED <<counts, asked, sent, host, executed>>

Fail(c) ==
    /\ call[c].pc = "failed" /\ Free(KeyOf[c])
    /\ challenge' = [challenge EXCEPT
          ![KeyOf[c]] = Invalidated(@, IF call[c].error = "unknown" THEN "unknown" ELSE "rejected",
                                    call[c].error)]
    /\ call' = [call EXCEPT ![c] = Ended("error")]
    /\ UNCHANGED <<counts, asked, sent, host, executed>>

-----------------------------------------------------------------------------
(* issue: a repeated request waits for the first one *)

ReadOutcome(c) ==
    /\ call[c].pc = "waiting"
    /\ challenge[KeyOf[c]].status # "pending"
    /\ LET row == challenge[KeyOf[c]] IN
         call' = [call EXCEPT ![c] = Ended(IF row.error = "none" THEN "ok" ELSE "error")]
    /\ UNCHANGED <<challenge, counts, asked, sent, host, executed>>

\* Mutation: a repeated request takes a challenge that stays pending for good.
TimeOutAndReturn(c) ==
    /\ call[c].pc = "waiting"
    /\ challenge[KeyOf[c]].status = "pending" /\ Free(KeyOf[c])
    /\ call' = [call EXCEPT ![c] = Ended("ok")]
    /\ UNCHANGED <<challenge, counts, asked, sent, host, executed>>

\* After pendingReplayWaitMs the pending challenge is given up.
TimeOut(c) ==
    /\ call[c].pc = "waiting"
    /\ challenge[KeyOf[c]].status = "pending" /\ Free(KeyOf[c])
    /\ challenge' = [challenge EXCEPT ![KeyOf[c]] = Invalidated(@, "unknown", "unknown")]
    /\ call' = [call EXCEPT ![c] = Ended("error")]
    /\ UNCHANGED <<counts, asked, sent, host, executed>>

\* The process dies; its transaction, if it is in one, is rolled back.
Crash(c) ==
    /\ call[c].pc \notin {"new", "ended"}
    /\ call' = [call EXCEPT ![c] = Ended("none")]
    /\ UNCHANGED <<challenge, counts, asked, sent, host, executed>>

-----------------------------------------------------------------------------
(* verify *)

Verifiable(k) ==
    /\ challenge[k].status = "accepted" /\ challenge[k].error = "none" /\ Free(k)
    /\ ~challenge[k].verified /\ ~challenge[k].expired
    /\ challenge[k].attempts < MaxAttempts

WrongCode(k) ==
    /\ Verifiable(k)
    /\ challenge' = [challenge EXCEPT ![k].attempts = @ + 1]
    /\ UNCHANGED <<call, counts, asked, sent, host, executed>>

Verify(k) ==
    /\ Verifiable(k)
    /\ challenge' = [challenge EXCEPT ![k].verified = TRUE]
    /\ UNCHANGED <<call, counts, asked, sent, host, executed>>

Expire(k) ==
    /\ challenge[k].status # "absent" /\ ~challenge[k].expired
    /\ challenge' = [challenge EXCEPT ![k].expired = TRUE]
    /\ UNCHANGED <<call, counts, asked, sent, host, executed>>

-----------------------------------------------------------------------------
(* The host operation that consumes the proof *)

\* Mutation: the consumption of a proof is looked up without locking its row.
ConsumeUnlocked(h, k, key) ==
    /\ host[h].pc = "idle"
    /\ challenge[k].verified /\ challenge[k].error = "none"
    /\ challenge[k].status = "accepted" /\ ~challenge[k].expired
    /\ challenge[k].consumedBy \in {NoKey, key}
    /\ host' = [host EXCEPT ![h] = [pc |-> "locked", of |-> k, key |-> key,
                                    replay |-> challenge[k].consumedBy # NoKey]]
    /\ UNCHANGED <<call, challenge, counts, asked, sent, executed>>

\* consumeProof: the row is locked until the host's transaction ends.
ConsumeProof(h, k, key) ==
    /\ host[h].pc = "idle" /\ Free(k)
    /\ challenge[k].verified /\ challenge[k].error = "none"
    /\ challenge[k].status = "accepted" /\ ~challenge[k].expired
    /\ challenge[k].consumedBy \in {NoKey, key}
    /\ host' = [host EXCEPT ![h] = [pc |-> "locked", of |-> k, key |-> key,
                                    replay |-> challenge[k].consumedBy # NoKey]]
    /\ UNCHANGED <<call, challenge, counts, asked, sent, executed>>

\* execute() on the first consumption, replay() afterwards; both commit with it.
CommitHost(h) ==
    /\ host[h].pc = "locked"
    /\ IF host[h].replay
         THEN UNCHANGED <<challenge, executed>>
         ELSE /\ challenge' = [challenge EXCEPT ![host[h].of].consumedBy = host[h].key]
              /\ executed' = [executed EXCEPT ![host[h].of] = @ + 1]
    /\ host' = [host EXCEPT ![h] = IdleHost]
    /\ UNCHANGED <<call, counts, asked, sent>>

\* The host's write fails, or the process dies: consumption and write go together.
RollbackHost(h) ==
    /\ host[h].pc = "locked"
    /\ host' = [host EXCEPT ![h] = IdleHost]
    /\ UNCHANGED <<call, challenge, counts, asked, sent, executed>>

-----------------------------------------------------------------------------
OwnerStep(c) == RefuseSend(c) \/ AskProvider(c) \/ Answer(c) \/ MarkAccepted(c) \/ Fail(c)

CallStep(c) ==
    \/ Enter(c) \/ Refuse(c) \/ CountPhone(c) \/ CountTenant(c)
    \/ CommitRefusal(c) \/ CommitIssue(c)
    \/ OwnerStep(c)
    \/ ReadOutcome(c) \/ TimeOut(c)

UserStep(k) == WrongCode(k) \/ Verify(k) \/ Expire(k)

HostStep(h) ==
    \/ \E k \in Keys, key \in ConsumptionKeys : ConsumeProof(h, k, key)
    \/ CommitHost(h) \/ RollbackHost(h)

Next ==
    \/ \E c \in Callers : CallStep(c) \/ Crash(c)
    \/ \E k \in Keys : UserStep(k)
    \/ \E h \in Hosts : HostStep(h)

Spec == Init /\ [][Next]_vars

-----------------------------------------------------------------------------
(* Properties *)

\* However requests for one subject race, over one phone or several, at most one
\* of its codes or unspent proofs works.
OneActivePerSubject == \A k, other \in Keys : Active(k) /\ Active(other) => k = other

\* One idempotency key asks the provider at most once, and all the keys of a phone
\* or of the tenant no more often than their limits, refused requests aside.
SendsAreLimited ==
    LET Asked(K) == {k \in K : asked[k] > 0} IN
    /\ \A k \in Keys : asked[k] <= 1
    /\ \A p \in Phones : Cardinality(Asked({k \in Keys : PhoneOf[k] = p})) <= PhoneLimit
    /\ Cardinality(Asked(Keys)) <= TenantLimit

\* The keys that were let through, which are those that may ask the provider.
Issued(K) == {k \in K : challenge[k].status # "absent" /\ challenge[k].error # "limited"}

Owns(c) == call[c].pc \in {"owner", "asking", "accepted", "failed"}

Holds(c, limit) == limit \in call[c].counted

\* Of the calls with one key one is in the transaction that decides, and one sends
\* what it has created; of those for a phone, and of all, one holds the limit, and
\* it has room and knows every challenge that it must supersede.
CallsTakeTurns ==
    \A c \in Callers :
        /\ call[c].counted # {} => InIssue(c)
        /\ InIssue(c) => challenge[KeyOf[c]].status = "absent"
        /\ call[c].pc = "waiting" => challenge[KeyOf[c]].status # "absent"
        /\ Owns(c) => KeyOf[c] \in Issued(Keys)
        /\ call[c].pc = "owner" => asked[KeyOf[c]] = 0
        /\ call[c].pc \in {"phoned", "counted"} =>
              Holds(c, "phone") /\ phoneCount[Phone(c)] < PhoneLimit
        /\ call[c].pc = "counted" =>
              /\ Holds(c, "tenant") /\ tenantCount < TenantLimit
              /\ \A k \in Keys : Active(k) => k \in call[c].superseding
        /\ \A other \in Callers :
              \/ /\ KeyOf[c] = KeyOf[other]
                 /\ (InIssue(c) /\ InIssue(other)) \/ (Owns(c) /\ Owns(other))
              \/ Holds(c, "phone") /\ Holds(other, "phone") /\ Phone(c) = Phone(other)
              \/ Holds(c, "tenant") /\ Holds(other, "tenant")
              => c = other

\* Every key that was let through has been counted, for its phone and the tenant.
IssuesAreCounted ==
    /\ \A k \in Keys : asked[k] > 0 => k \in Issued(Keys)
    /\ \A p \in Phones :
          LET issued == Issued({k \in Keys : PhoneOf[k] = p}) IN
          IsFiniteSet(issued) /\ Cardinality(issued) <= PhoneLimit
                              /\ Cardinality(issued) <= phoneCount[p]
    /\ IsFiniteSet(Issued(Keys)) /\ Cardinality(Issued(Keys)) <= TenantLimit
                                 /\ Cardinality(Issued(Keys)) <= tenantCount

\* What requests that race for one subject, one phone or one tenant may not exceed.
LimitsInv == OneActivePerSubject /\ SendsAreLimited /\ CallsTakeTurns /\ IssuesAreCounted

\* A caller that was told its code is on the way was told the truth, and no caller
\* of the same key, first or repeated, is ever told that it failed for another
\* reason than a newer request of the subject or a COMMIT that nobody answered.
\* Until then the call that sends the code has not seen its challenge accepted.
AnswersAgree ==
    \A c \in Callers :
        /\ call[c].outcome = "ok" =>
              /\ KeyOf[c] \in sent
              /\ \/ challenge[KeyOf[c]].status = "accepted"
                 \/ challenge[KeyOf[c]].error \in {"superseded", "unanswered"}
        /\ call[c].pc = "accepted" => KeyOf[c] \in sent
        /\ call[c].pc = "failed" => call[c].error # "none"
        /\ Owns(c) /\ challenge[KeyOf[c]].status = "accepted" =>
              call[c].pc = "failed" /\ call[c].error = "unanswered"

\* A proof only exists for a code the provider sent, and a guess too many never
\* makes one.
ProofsAreGenuine ==
    \A k \in Keys : challenge[k].verified => k \in sent /\ challenge[k].attempts < MaxAttempts

\* The mutation a proof protects is committed exactly when the proof is consumed,
\* once, whatever operations compete for it, repeat or roll back.
ExecutedOnce ==
    \A k \in Keys : executed[k] = IF challenge[k].consumedBy = NoKey THEN 0 ELSE 1

\* A challenge has an error once it is given up; accepted is what was sent, and what
\* has been consumed is a proof that no newer request took away.
RowsAgree ==
    \A k \in Keys :
        /\ challenge[k].error = "none" <=> challenge[k].status \in {"absent", "pending", "accepted"}
        /\ challenge[k].status = "absent" => challenge[k] = NoChallenge
        /\ challenge[k].status = "accepted" => k \in sent
        /\ challenge[k].consumedBy # NoKey =>
              challenge[k].verified /\ challenge[k].error # "superseded"

\* While an operation holds the row of its proof, the proof stays what it was.
HostsHoldProofs ==
    \A h \in Hosts : host[h].pc = "locked" =>
        /\ host[h].of \in Keys /\ host[h].key \in ConsumptionKeys
        /\ challenge[host[h].of].verified /\ challenge[host[h].of].status = "accepted"
        /\ host[h].replay <=> challenge[host[h].of].consumedBy # NoKey
        /\ \A other \in Hosts :
              host[other].pc = "locked" /\ host[other].of = host[h].of => other = h

\* From the code that was sent to the mutation that was committed.
ProofInv == TypeOK /\ ProofsAreGenuine /\ ExecutedOnce /\ RowsAgree /\ HostsHoldProofs

\* What was given up stays given up: no late answer opens a challenge again, and
\* no newer request takes a proof away from the operation that consumed it.
DecisionsStand ==
    [][\A k \in Keys :
          /\ challenge[k].error # "none" =>
                /\ challenge'[k].error = challenge[k].error
                /\ challenge'[k].status = challenge[k].status
                /\ challenge'[k].verified = challenge[k].verified
                /\ challenge'[k].consumedBy = challenge[k].consumedBy
          /\ challenge[k].consumedBy # NoKey => challenge'[k].error # "superseded"]_vars
=============================================================================
